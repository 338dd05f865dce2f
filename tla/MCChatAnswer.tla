---------------------------- MODULE MCChatAnswer ----------------------------
(***************************************************************************)
(* ChatAnswer for TLC: file f1 has a parse result of three chunks, in      *)
(* sections that overlap, and a later one of a single chunk; file f2 has   *)
(* one chunk, related to chunks of both.                                   *)
(***************************************************************************)
EXTENDS ChatAnswer

CONSTANTS f1, f2, a1, a2, a3, b1, c1

ChunkFile == [c \in Chunks |-> IF c = c1 THEN f2 ELSE f1]
ChunkVersion == [c \in Chunks |-> IF c = b1 THEN 2 ELSE 1]

Window == [c \in Chunks |->
    CASE c = a1 -> <<a1, a2>> [] c = a2 -> <<a1, a2, a3>> [] c = a3 -> <<a2, a3>>
      [] OTHER -> <<c>>]

Relations == {{c1, a1}, {c1, b1}}
=============================================================================

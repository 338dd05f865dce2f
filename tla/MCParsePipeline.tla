--------------------------- MODULE MCParsePipeline ---------------------------
(***************************************************************************)
(* ParsePipeline for TLC.  Nothing is promised of a file on which two      *)
(* advances overlapped, so the runs that pass check a state in which that  *)
(* happened but do not explore it further (NotOverlapped), or explore it   *)
(* as long as there is a single job (OneJobOverlaps).                      *)
(***************************************************************************)
EXTENDS ParsePipeline

NotOverlapped == overlapped = {}

OneJobOverlaps == overlapped = {} \/ \A j \in Jobs \ {1} : job[j].status = "none"
=============================================================================

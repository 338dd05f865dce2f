----------------------------- MODULE MCAccounts -----------------------------
(***************************************************************************)
(* Accounts for TLC.  Tokens and requests under way are bounded together:  *)
(* a state in which there are more than two is checked and not explored.   *)
(***************************************************************************)
EXTENDS Accounts, TLC

Interchangeable == Permutations(Clients)

Crowd == Cardinality({c \in Clients : request[c].pc # "idle"})
            + Cardinality({t \in Tokens : token[t] # 0})
NotCrowded == Crowd <= 2
=============================================================================

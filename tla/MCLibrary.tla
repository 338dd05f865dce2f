------------------------------ MODULE MCLibrary ------------------------------
(***************************************************************************)
(* Library for TLC.  Uploads and rebuilds under way are bounded together,  *)
(* the third file is uploaded only while there is no overview, and the     *)
(* knowledge base is not deleted unless an upload is under way: a state    *)
(* outside of these bounds is checked and not explored.                    *)
(***************************************************************************)
EXTENDS Library, TLC

Interchangeable ==
    Permutations(Names) \cup Permutations(Contents)
        \cup Permutations(Requests) \cup Permutations(Workers)

Rebuilding == \E w \in Workers : rebuild[w].pc # "idle"
Uploading(pcs) == \E r \in Requests : request[r].pc \in pcs

NotCrowded ==
    /\ Rebuilding => ~Uploading({"reading", "storing"})
    /\ (Rebuilding \/ overall \/ behind) => file[3].status = "none"
    /\ Active \/ Uploading({"reading", "storing"})
=============================================================================

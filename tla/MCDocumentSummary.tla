------------------------- MODULE MCDocumentSummary -------------------------
(***************************************************************************)
(* DocumentSummary for TLC.  Nothing is promised of a blurred summary:     *)
(* summary_core checks a state in which one is blurred but does not        *)
(* explore it further, and leaves a state once a summary has changed under *)
(* an open retry that will blur it when it commits.  summary_fence         *)
(* explores everything.                                                    *)
(***************************************************************************)
EXTENDS DocumentSummary

NotBlurred == blurred = {}

NotOvertaken == \A i \in Requests : request[i].summary # 0 => ~Overtaken(i) \/ Conflicts(i)
=============================================================================

------------------------- MODULE MCQuestionRouting -------------------------
(***************************************************************************)
(* QuestionRouting for TLC.  Four chunks: 1 and 2 are one section, 3 has a *)
(* picture and stands alone, 4 has no visible text and takes 3 into its    *)
(* section, but is not in the section of 3.  Decisions that differ         *)
(* only in the tables and the metadata they enable are the same to the     *)
(* search: of these, it is explored for the one that enables tables.       *)
(***************************************************************************)
EXTENDS QuestionRouting

MCSection == 1 :> <<1, 2>> @@ 2 :> <<1, 2>> @@ 3 :> <<3>> @@ 4 :> <<3, 4>>
MCRelated == {{2, 3}, {1, 4}}

OneOfAKind == pc = "search" => route.enabled \ {"image"} = {"text", "table"}
=============================================================================

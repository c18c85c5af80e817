------------------------------ MODULE MCTagList ------------------------------
(***************************************************************************)
(* An instance of TagList for TLC: four versions, two of them with the     *)
(* same tag (one is written with a "v"), and pages of one, two or all.     *)
(***************************************************************************)
EXTENDS TagList, TLC

CONSTANTS v1, w1, v2, v3

FourVersions == {v1, w1, v2, v3}
FourTags == (v1 :> 1) @@ (w1 :> 1) @@ (v2 :> 2) @@ (v3 :> 3)
OneTwoAll == {1, 2, NoLimit}
=============================================================================

----------------------------- MODULE MCIndexCache -----------------------------
(***************************************************************************)
(* Instances of IndexCache for TLC: a good index, one without apiVersion   *)
(* and one that is no YAML.                                                *)
(***************************************************************************)
EXTENDS IndexCache, TLC

CONSTANTS good, partial, bad

AllContents == {good, partial, bad}
AllParses == (good :> "index") @@ (partial :> "partial") @@ (bad :> "bad")

GoodOrBad == {good, bad}
GoodOrBadParses == (good :> "index") @@ (bad :> "bad")

Symmetric == Permutations(Requests)
=============================================================================

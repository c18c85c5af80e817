-------------------------- MODULE MCManifestRequests --------------------------
(***************************************************************************)
(* Instances of ManifestRequests for TLC: one chart with version v1, which *)
(* a client may ask for as v1, as v1_ (a build suffix written with "_"),   *)
(* as part (a partial version), as the word latest (which no index has) or *)
(* as nothing at all, and a second version.                                *)
(***************************************************************************)
EXTENDS ManifestRequests, TLC

CONSTANTS v1, v2, v1_, part, latest, empty, i1, bc

OneVersion == {v1}
TwoVersions == {v1, v2}

VersionTargets == {v1, v2, empty}
Plain == [x \in VersionTargets |-> x]

VersionChoice == (v1 :> v1) @@ (v2 :> v2) @@ (empty :> Absent)

AliasTargets == {v1, v1_, part, latest, empty}
AliasKey == [x \in AliasTargets |-> IF x = empty THEN latest ELSE x]
AliasNorm == [x \in AliasTargets |-> IF x = v1_ THEN v1 ELSE x]
AliasChoice == [x \in AliasTargets |-> IF x = latest THEN Absent ELSE v1]

OneImage == {i1}
OneBlob == {bc}
OneRef == (i1 :> {bc})

\* The hypotheses of the theorems about these instances
ASSUME KeysAssumption == KeysDistinguish
ASSUME VersionsAssumption == Targets = VersionTargets => VersionsOnly

Symmetric == Permutations(Copies)
=============================================================================

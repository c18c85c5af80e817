--------------------------- MODULE MCManifestStore ---------------------------
(***************************************************************************)
(* Instances of ManifestStore for TLC.  The digests are model values; what *)
(* matters is which images share a blob: i1 and i2 are two charts with the *)
(* same config (bc), or one chart before and after its archive changed.    *)
(***************************************************************************)
EXTENDS ManifestStore, TLC

CONSTANTS i1, i2, bc, b1, b2

\* Two images that share one blob.
TwoImages == {i1, i2}
ThreeBlobs == {bc, b1, b2}
SharedConfig == (i1 :> {bc, b1}) @@ (i2 :> {bc, b2})

\* Two images, one made of a part of the blobs of the other.
TwoBlobs == {bc, b1}
PartOf == (i1 :> {bc, b1}) @@ (i2 :> {bc})

SymmetricCopies == Permutations(Copies)
=============================================================================

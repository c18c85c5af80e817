----------------------------- MODULE MCClientPull -----------------------------
(***************************************************************************)
(* An instance of ClientPull for TLC: one image, kept under several        *)
(* repositories or variants.                                               *)
(***************************************************************************)
EXTENDS ClientPull, TLC

CONSTANTS i1, bc, b1

OneImage == {i1}
TwoBlobs == {bc, b1}
TwoRefs == (i1 :> {bc, b1})

\* A chart of one blob, where its copies and not its blobs matter.
OneBlob == {bc}
OneRef == (i1 :> {bc})
=============================================================================

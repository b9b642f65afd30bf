--------------------------- MODULE MCAssetLoading ---------------------------
(***************************************************************************)
(* A mesh larger than what a frame may hand over and a texture that fits.   *)
(***************************************************************************)
EXTENDS AssetLoading, TLC

CONSTANTS mesh, texture

MCSize == [a \in Assets |-> IF a = mesh THEN 3 ELSE 2]

MCScenes == {Assets}

Alike == Permutations(Workers)
=============================================================================

------------------------ MODULE MCRequiredStvlHealth ------------------------
(***************************************************************************)
(* RequiredStvlHealth for TLC.  The code treats the two layers alike, so    *)
(* they may be exchanged.                                                   *)
(***************************************************************************)
EXTENDS RequiredStvlHealth, TLC

LayerSymmetry == Permutations(Layers)
=============================================================================

------------------------------ MODULE MCStorage ------------------------------
(***************************************************************************)
(* Model checking Storage: three levels of chunk sets of two slots.  Times *)
(* only travel with the chunk sets here (StorageReplication gives them     *)
(* their meaning), so one value is enough.  Items are only moved and       *)
(* compared, so they may be exchanged for each other.                      *)
(***************************************************************************)
EXTENDS Storage, TLC

MCTimes == {0}
ItemSymmetry == Permutations(Item)
=============================================================================

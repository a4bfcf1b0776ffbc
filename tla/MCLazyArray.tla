------------------------------ MODULE MCLazyArray ------------------------------
(***************************************************************************)
(* Model checking LazyArray with its ChangedIntervals: items of one field  *)
(* that may be rounded, in chunks of two slots.                            *)
(***************************************************************************)
EXTENDS EntityAccessor, TLC

\* The codec stores 2 as 1.
MCStored(value) == IF value = 2 THEN 1 ELSE value

MCSymmetry == Permutations(Chunks)
=============================================================================

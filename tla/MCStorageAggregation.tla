------------------------ MODULE MCStorageAggregation ------------------------
(***************************************************************************)
(* Model checking StorageAggregation: the bounds are in the .cfg files.    *)
(***************************************************************************)
EXTENDS StorageAggregation
=============================================================================

------------------------ MODULE MCStoragePersistence ------------------------
(***************************************************************************)
(* Model checking StoragePersistence: the bounds are in the .cfg file.     *)
(***************************************************************************)
EXTENDS StoragePersistence
=============================================================================

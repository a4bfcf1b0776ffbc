------------------------ MODULE MCStorageReplication ------------------------
(***************************************************************************)
(* Model checking StorageReplication with two levels.                      *)
(***************************************************************************)
EXTENDS StorageReplication, TLC

\* Level 0 is full at five items of which a bucket takes at most three, so a
\* bucket never reaches a level's last chunk set, as in the real
\* configuration unless a bucket takes more than 546 of 610 ticks.
MCMaxCount == 0 :> 5 @@ 1 :> 2
MCDuration == 0 :> 1 @@ 1 :> 2
MCGaps == {0, 1, 2}

ASSUME ConfigurationFits == BucketsFit(1)
=============================================================================

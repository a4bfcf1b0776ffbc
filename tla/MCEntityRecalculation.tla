------------------------ MODULE MCEntityRecalculation ------------------------
(***************************************************************************)
(* Model checking EntityRecalculation: three levels of small maxima, whose *)
(* buckets hold one or several items but never a whole level.              *)
(***************************************************************************)
EXTENDS EntityRecalculation, TLC

MCReleases ==
  { 0 :> 4 @@ 1 :> 2 @@ 2 :> 1,
    0 :> 3 @@ 1 :> 2 @@ 2 :> 1 }
MCDuration == 0 :> 1 @@ 1 :> 1 @@ 2 :> 2
\* The clock may step back.
MCGaps == {-1, 0, 1, 2}

ASSUME ConfigurationFits == LevelZeroFits(1)
=============================================================================

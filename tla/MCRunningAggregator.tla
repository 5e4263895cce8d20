------------------------ MODULE MCRunningAggregator -------------------------
(* TLC instances of RunningAggregator.                                     *)
EXTENDS RunningAggregator

MCNumbers == {-1, 2}
MCAges    == {0, 3}
MCBuckets == <<2, -1>>
SeriesSymmetry == Permutations(Series)
=============================================================================

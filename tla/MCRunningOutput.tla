-------------------------- MODULE MCRunningOutput ---------------------------
(* TLC instances of RunningOutput.  Metrics are numbered in the order in   *)
(* which they arrive; T is the flush of a ticker, F the last flush.  The   *)
(* two flushes run the same code, so they may be exchanged.                *)
EXTENDS RunningOutput, TLC

CONSTANTS NMetrics,   \* bound: metrics passed to AddMetric
          T, F

MCMetric == 1 .. NMetrics

FlusherSymmetry == Permutations(Flushers)
=============================================================================

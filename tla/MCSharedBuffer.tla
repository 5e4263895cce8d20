--------------------------- MODULE MCSharedBuffer ---------------------------
(* TLC instances of SharedBuffer: two metrics are enough to tell a wrong   *)
(* order from a right one.                                                 *)
EXTENDS SharedBuffer

CONSTANTS m1, m2
MCMetric == {m1, m2}

(* RunningOutput.metrics is asked for the whole buffer each time,          *)
(* RunningOutput.failMetrics for any batch up to its size.                 *)
MCBatchSizes == 0 .. Size
=============================================================================

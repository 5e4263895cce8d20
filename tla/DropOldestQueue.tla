-------------------------- MODULE DropOldestQueue ---------------------------
(***************************************************************************)
(* What buffer.go promises in its comments: a bounded FIFO queue that      *)
(* makes room by dropping, and counting, its oldest metric, and hands out  *)
(* batches of at most n metrics from its head.  This is the abstract       *)
(* specification that SharedBuffer is compared with.                       *)
(***************************************************************************)
EXTENDS Naturals, Sequences

CONSTANTS Metric,       \* the metrics that may be queued
          Size,         \* capacity
          BatchSizes    \* the batch sizes callers ask for

VARIABLES queue,        \* the queued metrics, oldest first
          batch,        \* the batch handed out last
          dropped       \* metrics dropped so far

vars == <<queue, batch, dropped>>

Init == queue = <<>> /\ batch = <<>> /\ dropped = 0

Put(m) ==
  \/ /\ Len(queue) < Size
     /\ queue' = Append(queue, m)
     /\ UNCHANGED <<batch, dropped>>
  \/ /\ Len(queue) = Size
     /\ queue' = Append(Tail(queue), m)
     /\ dropped' = dropped + 1
     /\ UNCHANGED batch

Take(n) ==
  LET k == IF n < Len(queue) THEN n ELSE Len(queue)
  IN  /\ batch' = SubSeq(queue, 1, k)
      /\ queue' = SubSeq(queue, k + 1, Len(queue))
      /\ UNCHANGED dropped

Next == (\E m \in Metric : Put(m)) \/ (\E n \in BatchSizes : Take(n))

Spec == Init /\ [][Next]_vars
=============================================================================

---------------------------- MODULE SharedBuffer ----------------------------
(***************************************************************************)
(* One Buffer object used by several goroutines.  Add takes the lock and   *)
(* pushes its metrics one after the other; Batch runs under the same lock. *)
(* adding is what the Add that holds the lock has still to push, so the    *)
(* lock is held exactly while adding is not empty.                         *)
(***************************************************************************)
EXTENDS Buffer

CONSTANTS Size,         \* NewBuffer's argument
          BatchSizes,   \* the arguments of Batch
          MaxAdd,       \* bound: the longest argument list of one Add
          MaxPushes     \* bound: pushes in a behaviour

ASSUME SizeAssumption   == Size \in Nat \ {0}
ASSUME BatchAssumption  == BatchSizes \subseteq Nat
ASSUME BoundsAssumption == MaxAdd \in Nat /\ MaxPushes \in Nat

VARIABLES ring,         \* the Buffer
          adding,       \* metrics the Add in progress has not pushed yet
          batch,        \* what the last Batch returned
          written,      \* selfstat agent/metrics_written
          dropped,      \* selfstat agent/metrics_dropped
          taken,        \* history: metrics handed out by Batch so far
          whole         \* history: every Batch so far asked for all there was

vars == <<ring, adding, batch, written, dropped, taken, whole>>

Init ==
  /\ ring = NewBuffer(Size)
  /\ adding = <<>>
  /\ batch = <<>>
  /\ written = 0 /\ dropped = 0 /\ taken = 0
  /\ whole = TRUE

(* Add locks the buffer, unless its argument list is empty and it changes  *)
(* nothing.                                                                *)
Add(ms) ==
  /\ adding = <<>>
  /\ written + Len(ms) <= MaxPushes
  /\ adding' = ms
  /\ UNCHANGED <<ring, batch, written, dropped, taken, whole>>

(* Mutant: an overwritten metric is not counted.                           *)
PushNext_uncounted ==
  /\ adding # <<>>
  /\ ring' = Push(ring, Head(adding))
  /\ written' = written + 1
  /\ adding' = Tail(adding)
  /\ UNCHANGED <<batch, dropped, taken, whole>>

(* One iteration of Add's loop; the last one releases the lock.            *)
PushNext ==
  /\ adding # <<>>
  /\ ring' = Push(ring, Head(adding))
  /\ written' = written + 1
  /\ dropped' = IF Overwrites(ring) THEN dropped + 1 ELSE dropped
  /\ adding' = Tail(adding)
  /\ UNCHANGED <<batch, taken, whole>>

Batch(n) ==
  /\ adding = <<>>
  /\ batch' = BatchOut(ring, n)
  /\ ring' = BatchRest(ring, n)
  /\ taken' = taken + Len(batch')
  /\ whole' = (whole /\ n >= Size)
  /\ UNCHANGED <<adding, written, dropped>>

Next ==
  \/ \E k \in 1 .. MaxAdd : \E ms \in [1 .. k -> Metric] : Add(ms)
  \/ PushNext
  \/ \E n \in BatchSizes : Batch(n)

Spec == Init /\ [][Next]_vars

-----------------------------------------------------------------------------
(* Every index stays inside the array, and Batch hands out metrics only,   *)
(* although it fills its result in two copies and one of them may be short. *)
TypeOK ==
  /\ ring \in BufferOf(Size)
  /\ adding \in Seq(Metric)
  /\ batch \in Seq(Metric)
  /\ written \in Nat /\ dropped \in Nat /\ taken \in Nat
  /\ whole \in BOOLEAN

(* Whatever order of pushes, overwrites and batches moved first and last,  *)
(* the slots that Len counts as held have all been written by push.        *)
LiveSlotsWritten ==
  \A k \in 1 .. BufLen(ring) : Contents(ring)[k] \in Metric

(* The counters account for every metric ever added, as long as no caller  *)
(* asked for a part of the buffer: what buffer.go counts as written was    *)
(* dropped and counted, handed out, or is still held.                      *)
Balance == whole => written = dropped + taken + BufLen(ring)

(* Batch, whatever it does to the rest, hands out the oldest metrics in    *)
(* order, as many as the caller asked for or the buffer holds.             *)
BatchIsPrefix ==
  [][\A n \in BatchSizes : Batch(n) =>
       batch' = SubSeq(Contents(ring), 1, min(n, BufLen(ring)))]_vars

(* A Batch never returns a metric to the buffer or reorders what it        *)
(* leaves: the rest is a suffix, short of at most one metric.              *)
RestIsSuffix ==
  [][\A n \in BatchSizes : Batch(n) =>
       \E skip \in {0, 1} :
         Contents(ring') = SubSeq(Contents(ring),
                                  Len(batch') + skip + 1, BufLen(ring))]_vars

(* The bounded queue the comments of buffer.go describe.                   *)
Queue == INSTANCE DropOldestQueue WITH queue <- Contents(ring)

(* Seen through its contents, a buffer whose callers ask for all of it, as *)
(* RunningOutput does with its metrics (and cannot do with its             *)
(* failMetrics), is that queue: wrapping, resets and the empty flag do not *)
(* show, up to the first Batch that asks for less.                         *)
QueueSpec == Queue!Init /\ [][whole' => Queue!Next]_Queue!vars
=============================================================================

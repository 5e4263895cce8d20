--------------------------- MODULE RunningOutput ----------------------------
(***************************************************************************)
(* models.RunningOutput: the two buffers in front of an output plugin, the *)
(* goroutine that calls AddMetric for every metric of outMetricC, and the  *)
(* goroutines that call Write (the flush of a ticker, and the last flush   *)
(* of a shutdown, which does not wait for it).                             *)
(*                                                                         *)
(* A process takes one step per lock operation, per unlocked read of a     *)
(* buffer's words, per push and per call of the output.  A mutex is held   *)
(* by the process whose pc is inside its critical section.                 *)
(***************************************************************************)
EXTENDS Buffer, FiniteSets

CONSTANTS MetricBatchSize,     \* metric_batch_size, the size of metrics
          MetricBufferLimit,   \* metric_buffer_limit, the size of failMetrics
          Adder,               \* the goroutine that calls AddMetric
          Flushers,            \* the goroutines that call Write
          Kinds,               \* the kinds of plugin: "plain" or "aggregating"
                               \* (a telegraf.AggregatingOutput)
          Rejected             \* the metrics the output's filter rejects

ASSUME SizesAssumption ==
  /\ MetricBatchSize \in Nat \ {0}
  /\ MetricBufferLimit \in Nat \ {0}
ASSUME MetricAssumption == Metric \subseteq Nat /\ Rejected \subseteq Metric
ASSUME ProcAssumption   ==
  Adder \notin Flushers /\ {"metrics", "failMetrics"} \cap ({Adder} \cup Flushers) = {}
ASSUME KindAssumption   == Kinds \subseteq {"plain", "aggregating"}

VARIABLES kind,          \* the kind of the output's plugin
          metrics,       \* ro.metrics
          failMetrics,   \* ro.failMetrics
          cache,         \* aggregates an AggregatingOutput has yet to push
          ripe,          \* how many of them are old enough to be pushed
          pc,            \* where each process is
          hand,          \* the batch each process holds outside the buffers
          stage,         \* which buffer a process takes its batch from
          firstSeen,     \* first as read by a Len that has yet to read last
          nFails,        \* Write's nFails
          round,         \* Write's loop counter i
          err,           \* Write's err # nil
          arrived,       \* metrics passed to AddMetric
          filtered,      \* metrics_filtered
          written,       \* metrics the output took: metrics_written
          dropped        \* metrics overwritten in a buffer: metrics_dropped

buffers == <<metrics, failMetrics>>
plugin  == <<kind, cache, ripe>>
loop    == <<stage, nFails, round, err>>
history == <<arrived, filtered, written, dropped>>
vars    == <<kind, metrics, failMetrics, cache, ripe, pc, hand, stage,
             firstSeen, nFails, round, err, arrived, filtered, written, dropped>>

Proc == {Adder} \cup Flushers

Aggregating == kind = "aggregating"

NewRunningOutput ==
  /\ metrics = NewBuffer(MetricBatchSize)
  /\ failMetrics = NewBuffer(MetricBufferLimit)

Init ==
  /\ kind \in Kinds
  /\ NewRunningOutput
  /\ cache = <<>> /\ ripe = 0
  /\ pc = [p \in Proc |-> "idle"]
  /\ hand = [p \in Proc |-> <<>>]
  /\ stage = [p \in Proc |-> "metrics"]
  /\ firstSeen = [p \in Proc |-> 0]
  /\ nFails = [p \in Proc |-> 0]
  /\ round = [p \in Proc |-> 0]
  /\ err = [p \in Proc |-> FALSE]
  /\ arrived = {} /\ filtered = {} /\ written = {} /\ dropped = {}

-----------------------------------------------------------------------------
(* Locks.                                                                  *)
HoldsMetrics(q) == \/ pc[q] = "aggAdd"
                   \/ pc[q] = "inBatch" /\ stage[q] = "metrics"
HoldsFail(q)    == \/ pc[q] = "readd"
                   \/ pc[q] = "inBatch" /\ stage[q] = "fail"

MetricsFree == \A q \in Proc : ~ HoldsMetrics(q)
FailFree    == \A q \in Proc : ~ HoldsFail(q)
WriteFree   == \A q \in Proc : pc[q] # "writing"
AggFree     == \A q \in Proc :
                 pc[q] \notin {"aggPushed", "aggAdd", "aggReset"}

Elems(s) == {s[k] : k \in DOMAIN s}

Goto(p, where) == pc' = [pc EXCEPT ![p] = where]

Ring(p) == IF stage[p] = "fail" THEN failMetrics ELSE metrics

(* What a process that holds no lock may find in the words of a buffer     *)
(* whose holder is inside push or inside Batch: the buffer between any two *)
(* of the holder's stores.                                                 *)
Between(b, empty, first, last) ==
  [empty |-> empty, first |-> first, last |-> last, size |-> b.size]

DuringPush(b, m) ==
  {b, Push(b, m),
   Between(b, b.empty, b.first, IF b.empty THEN b.first ELSE b.last + 1),
   Between(b, b.empty, b.first, Push(b, m).last)}

DuringBatch(b, n) ==
  IF OutLen(b, n) = 0 THEN {b}
  ELSE LET end == RightInd(b, n)
       IN  {b, BatchRest(b, n),
            Between(b, end = b.last, end + 1, b.last),
            Between(b, end = b.last, After(end, b.size), b.last),
            Between(b, LastRead(b, n) = b.last, LastRead(b, n) + 1, b.last)}

(* How many metrics the next Batch of p asks for: the last round of Write  *)
(* over failMetrics only takes what had no attempt yet.                    *)
nBatches(p) == nFails[p] \div MetricBatchSize + 1

batchSize(p) ==
  IF stage[p] = "fail" /\ round[p] = nBatches(p) - 1
  THEN nFails[p] % MetricBatchSize
  ELSE MetricBatchSize

Inside(where, from) == {q \in Proc : pc[q] = where /\ stage[q] \in from}

SeenMetrics ==
  {metrics} \cup
  (UNION {DuringBatch(metrics, batchSize(q)) : q \in Inside("inBatch", {"metrics"})})

SeenFail ==
  {failMetrics} \cup
  (UNION {DuringBatch(failMetrics, batchSize(q)) : q \in Inside("inBatch", {"fail"})})
  \cup
  (UNION {DuringPush(failMetrics, Head(hand[q])) :
            q \in Inside("readd", {"fail", "metrics"})})

(* The buffer whose Len p calls: AddMetric looks at metrics, Write at      *)
(* failMetrics (its other Len only feeds a gauge).                         *)
Seen(p) == IF p = Adder THEN SeenMetrics ELSE SeenFail

-----------------------------------------------------------------------------
(* p enters a critical section: Batch or Add of a buffer, or Output.Write. *)
Lock(p) ==
  /\ \/ pc[p] = "batch" /\ stage[p] = "fail" /\ FailFree /\ Goto(p, "inBatch")
     \/ pc[p] = "batch" /\ stage[p] = "metrics" /\ MetricsFree /\ Goto(p, "inBatch")
     \/ pc[p] = "write" /\ WriteFree /\ Goto(p, "writing")
     \/ pc[p] = "failed" /\ FailFree /\ Goto(p, "readd")
     \/ pc[p] = "aggPushed" /\ MetricsFree /\ Goto(p, "aggAdd")
  /\ UNCHANGED <<buffers, plugin, hand, loop, firstSeen, history>>

(* AddMetric, up to its first look at the buffer's length.                 *)
AddMetric(m) ==
  /\ pc[Adder] = "idle"
  /\ m \notin arrived
  /\ \A x \in Metric \ arrived : m <= x
  /\ arrived' = arrived \cup {m}
  /\ \/ /\ m \in Rejected
        /\ filtered' = filtered \cup {m}
        /\ UNCHANGED <<buffers, plugin, pc, dropped>>
     \/ /\ m \notin Rejected
        /\ Aggregating
        /\ AggFree
        /\ cache' = Append(cache, m)
        /\ UNCHANGED <<buffers, kind, ripe, pc, filtered, dropped>>
     \/ /\ m \notin Rejected
        /\ ~ Aggregating
        /\ MetricsFree
        /\ metrics' = Push(metrics, m)
        /\ dropped' = dropped \cup Overwritten(metrics)
        /\ Goto(Adder, "lenEmpty")
        /\ UNCHANGED <<failMetrics, plugin, filtered>>
  /\ UNCHANGED <<hand, loop, firstSeen, written>>

(* Mutant: AddMetric waits for more metrics than the buffer can hold.      *)
LenIs_late(p, n) ==
  \/ /\ p = Adder
     /\ Goto(p, IF n > MetricBatchSize THEN "batch" ELSE "idle")
     /\ UNCHANGED loop
  \/ /\ p \in Flushers
     /\ nFails' = [nFails EXCEPT ![p] = n]
     /\ Goto(p, "isEmpty")
     /\ UNCHANGED <<stage, round, err>>

(* Len has been computed.  AddMetric goes on to take a batch when the      *)
(* buffer is full; Write goes on to ask whether failMetrics is empty.      *)
LenIs(p, n) ==
  \/ /\ p = Adder
     /\ Goto(p, IF n = MetricBatchSize THEN "batch" ELSE "idle")
     /\ UNCHANGED loop
  \/ /\ p \in Flushers
     /\ nFails' = [nFails EXCEPT ![p] = n]
     /\ Goto(p, "isEmpty")
     /\ UNCHANGED <<stage, round, err>>

LenReadsEmpty(p) ==
  /\ pc[p] = "lenEmpty"
  /\ \E b \in Seen(p) :
       \/ b.empty /\ LenIs(p, 0)
       \/ ~ b.empty /\ Goto(p, "lenFirst") /\ UNCHANGED loop
  /\ UNCHANGED <<buffers, plugin, hand, firstSeen, history>>

LenReadsFirst(p) ==
  /\ pc[p] = "lenFirst"
  /\ \E b \in Seen(p) : firstSeen' = [firstSeen EXCEPT ![p] = b.first]
  /\ Goto(p, "lenLast")
  /\ UNCHANGED <<buffers, plugin, hand, loop, history>>

LenReadsLast(p) ==
  /\ pc[p] = "lenLast"
  /\ \E b \in Seen(p) :
       LenIs(p, LenOf(FALSE, firstSeen[p], b.last, b.size))
  /\ firstSeen' = [firstSeen EXCEPT ![p] = 0]
  /\ UNCHANGED <<buffers, plugin, hand, history>>

-----------------------------------------------------------------------------
(* Write begins.  With an AggregatingOutput it first pushes the plugin's   *)
(* aggregates into metrics, all of it under aggMutex.                      *)
WriteStarts(p) ==
  /\ pc[p] = "idle"
  /\ \/ ~ Aggregating /\ Goto(p, "lenEmpty") /\ UNCHANGED hand
     \/ /\ Aggregating
        /\ AggFree
        /\ hand' = [hand EXCEPT ![p] = SubSeq(cache, 1, ripe)]
        /\ Goto(p, IF ripe = 0 THEN "aggReset" ELSE "aggPushed")
  /\ UNCHANGED <<buffers, plugin, loop, firstSeen, history>>

AggAdd(p) ==
  /\ pc[p] = "aggAdd"
  /\ metrics' = Push(metrics, Head(hand[p]))
  /\ dropped' = dropped \cup Overwritten(metrics)
  /\ hand' = [hand EXCEPT ![p] = Tail(@)]
  /\ Goto(p, IF Len(hand[p]) = 1 THEN "aggReset" ELSE "aggAdd")
  /\ UNCHANGED <<failMetrics, plugin, loop, firstSeen, arrived, filtered,
                 written>>

AggReset_keepsRipe(p) ==
  /\ pc[p] = "aggReset"
  /\ cache' = SubSeq(cache, ripe + 1, Len(cache))
  /\ Goto(p, "lenEmpty")
  /\ UNCHANGED <<buffers, kind, ripe, hand, loop, firstSeen, history>>

(* The plugin's Reset, which looks at the clock again.                     *)
AggReset(p) ==
  /\ pc[p] = "aggReset"
  /\ cache' = SubSeq(cache, ripe + 1, Len(cache))
  /\ ripe' = 0
  /\ Goto(p, "lenEmpty")
  /\ UNCHANGED <<buffers, kind, hand, loop, firstSeen, history>>

(* Time passes for the aggregates of the plugin.                           *)
Ripen ==
  /\ ripe < Len(cache)
  /\ ripe' = ripe + 1
  /\ UNCHANGED <<buffers, kind, cache, pc, hand, loop, firstSeen, history>>

(* Mutant: Write never returns to the batches that failed.                 *)
AsksIsEmpty_never(p) ==
  /\ pc[p] = "isEmpty"
  /\ stage' = [stage EXCEPT ![p] = "metrics"]
  /\ Goto(p, "batch")
  /\ UNCHANGED <<buffers, plugin, hand, nFails, round, err, firstSeen, history>>

(* Write decides whether to go through failMetrics at all.                 *)
AsksIsEmpty(p) ==
  /\ pc[p] = "isEmpty"
  /\ \E b \in SeenFail :
       stage' = [stage EXCEPT ![p] = IF IsEmpty(b) THEN "metrics" ELSE "fail"]
  /\ Goto(p, "batch")
  /\ UNCHANGED <<buffers, plugin, hand, nFails, round, err, firstSeen, history>>

-----------------------------------------------------------------------------
(* A batch has been dealt with: the next round of Write's loop, the batch  *)
(* of metrics that follows the loop, or the end of the method.             *)
NextRound(p) ==
  \/ /\ stage[p] = "fail"
     /\ Goto(p, "batch")
     /\ \/ /\ round[p] + 1 < nBatches(p)
           /\ round' = [round EXCEPT ![p] = @ + 1]
           /\ UNCHANGED stage
        \/ /\ round[p] + 1 >= nBatches(p)
           /\ stage' = [stage EXCEPT ![p] = "metrics"]
           /\ UNCHANGED round
     /\ UNCHANGED <<nFails, err>>
  \/ /\ stage[p] = "metrics"
     /\ Goto(p, "idle")
     /\ nFails' = [nFails EXCEPT ![p] = 0]
     /\ round' = [round EXCEPT ![p] = 0]
     /\ err' = [err EXCEPT ![p] = FALSE]
     /\ UNCHANGED stage

(* Batch returns and releases the buffer.  An empty batch is neither       *)
(* written nor added back; after an error nothing more is written.         *)
Batch(p) ==
  /\ pc[p] = "inBatch"
  /\ hand' = [hand EXCEPT ![p] = BatchOut(Ring(p), batchSize(p))]
  /\ \/ /\ stage[p] = "fail"
        /\ failMetrics' = BatchRest(failMetrics, batchSize(p))
        /\ UNCHANGED metrics
     \/ /\ stage[p] = "metrics"
        /\ metrics' = BatchRest(metrics, batchSize(p))
        /\ UNCHANGED failMetrics
  /\ \/ OutLen(Ring(p), batchSize(p)) = 0 /\ NextRound(p)
     \/ /\ OutLen(Ring(p), batchSize(p)) > 0
        /\ Goto(p, IF err[p] THEN "failed" ELSE "write")
        /\ UNCHANGED loop
  /\ UNCHANGED <<plugin, firstSeen, history>>

(* Output.Write takes the whole batch, or fails.                           *)
WriteSucceeds(p) ==
  /\ pc[p] = "writing"
  /\ written' = written \cup Elems(hand[p])
  /\ hand' = [hand EXCEPT ![p] = <<>>]
  /\ NextRound(p)
  /\ UNCHANGED <<buffers, plugin, firstSeen, arrived, filtered, dropped>>

(* Mutants: a batch that failed is forgotten; one that failed was taken.   *)
WriteFails_forgets(p) ==
  /\ pc[p] = "writing"
  /\ hand' = [hand EXCEPT ![p] = <<>>]
  /\ NextRound(p)
  /\ UNCHANGED <<buffers, plugin, firstSeen, history>>

WriteFails_taken(p) ==
  /\ pc[p] = "writing"
  /\ written' = written \cup Elems(hand[p])
  /\ err' = [err EXCEPT ![p] = TRUE]
  /\ Goto(p, "failed")
  /\ UNCHANGED <<buffers, plugin, hand, stage, nFails, round, firstSeen,
                 arrived, filtered, dropped>>

WriteFails(p) ==
  /\ pc[p] = "writing"
  /\ err' = [err EXCEPT ![p] = TRUE]
  /\ Goto(p, "failed")
  /\ UNCHANGED <<buffers, plugin, hand, stage, nFails, round, firstSeen, history>>

(* One push of failMetrics.Add(batch...).                                  *)
Readd(p) ==
  /\ pc[p] = "readd"
  /\ failMetrics' = Push(failMetrics, Head(hand[p]))
  /\ dropped' = dropped \cup Overwritten(failMetrics)
  /\ hand' = [hand EXCEPT ![p] = Tail(@)]
  /\ \/ Len(hand[p]) > 1 /\ UNCHANGED <<pc, loop>>
     \/ Len(hand[p]) = 1 /\ NextRound(p)
  /\ UNCHANGED <<metrics, plugin, firstSeen, arrived, filtered, written>>

-----------------------------------------------------------------------------
Step(p) ==
  \/ Lock(p)
  \/ LenReadsEmpty(p) \/ LenReadsFirst(p) \/ LenReadsLast(p)
  \/ Batch(p) \/ WriteSucceeds(p) \/ WriteFails(p) \/ Readd(p)

Flush(p) == WriteStarts(p) \/ AggAdd(p) \/ AggReset(p) \/ AsksIsEmpty(p)

Next ==
  \/ \E m \in Metric : AddMetric(m)
  \/ \E p \in Proc : Step(p)
  \/ \E p \in Flushers : Flush(p)
  \/ Ripen

Spec == Init /\ [][Next]_vars

(* Every goroutine keeps running, the ticker keeps starting flushes, time  *)
(* passes, and an output that is tried again and again works now and then. *)
Fairness ==
  /\ \A p \in Proc : SF_vars(Step(p)) /\ SF_vars(WriteSucceeds(p))
  /\ \A p \in Flushers : SF_vars(Flush(p))
  /\ WF_vars(\E m \in Metric : AddMetric(m))
  /\ WF_vars(Ripen)

FairSpec == Spec /\ Fairness

-----------------------------------------------------------------------------
PCs == {"idle", "lenEmpty", "lenFirst", "lenLast", "isEmpty", "batch",
        "inBatch", "write", "writing", "failed", "readd", "aggPushed",
        "aggAdd", "aggReset"}

(* Both buffers stay well formed and every batch in a goroutine's hands    *)
(* consists of metrics, under all interleavings and torn reads of Len.     *)
TypeOK ==
  /\ kind \in Kinds
  /\ metrics \in BufferOf(MetricBatchSize)
  /\ failMetrics \in BufferOf(MetricBufferLimit)
  /\ cache \in Seq(Metric) /\ ripe \in 0 .. Len(cache)
  /\ pc \in [Proc -> PCs]
  /\ hand \in [Proc -> Seq(Metric)]
  /\ stage \in [Proc -> {"metrics", "fail"}]
  /\ firstSeen \in [Proc -> Nat]
  /\ nFails \in [Proc -> Nat] /\ round \in [Proc -> Nat]
  /\ err \in [Proc -> BOOLEAN]
  /\ arrived \subseteq Metric /\ filtered \subseteq Metric
  /\ written \subseteq Metric /\ dropped \subseteq Metric

(* The push of a new metric into metrics overwrites none: there is room    *)
(* whenever AddMetric is called, because the call that fills metrics also  *)
(* takes a batch, even though it looks at the length without the lock      *)
(* while Write may be emptying the buffer.  That batch, if its write       *)
(* fails, goes to failMetrics and may overwrite older ones there.          *)
AcceptingDropsNothing == [][arrived' # arrived => dropped' = dropped]_vars

Place == {"metrics", "failMetrics"} \cup Proc

At(x) == CASE x = "metrics"     -> Contents(metrics)
           [] x = "failMetrics" -> Contents(failMetrics)
           [] x \in Proc        -> hand[x]

Held == UNION {Elems(At(x)) : x \in Place}

(* No metric is duplicated: whatever batches are in flight, it is in one   *)
(* slot of one buffer or one batch, and in none once it was written,       *)
(* dropped or filtered.  What an AggregatingOutput has pushed stays with   *)
(* it until its Reset, and no longer.                                      *)
InOnePlace ==
  /\ \A x \in Place :
       LET here == At(x) IN
         /\ \A i, j \in DOMAIN here : here[i] = here[j] => i = j
         /\ \A y \in Place \ {x} : Elems(here) \cap Elems(At(y)) = {}
  /\ Held \cap (written \cup dropped \cup filtered) = {}
  /\ written \cap dropped = {} /\ (written \cup dropped) \cap filtered = {}
  /\ AggFree => Elems(cache) \cap (Held \cup written \cup dropped) = {}

(* Metrics of which the output knows what became of them.                  *)
Accounted == Held \cup Elems(cache) \cup written \cup dropped \cup filtered

(* A metric that was accepted is still held, was written, or was dropped   *)
(* and counted: "If Add is called when the buffer is full, then the oldest *)
(* metric(s) will be dropped" is the only way out.                         *)
NoSilentLoss == arrived \subseteq Accounted

(* It does not hold, but a metric is lost in two places only: in a Batch   *)
(* that is asked for less than the buffer holds, and in a Reset of the     *)
(* plugin, which forgets what has ripened since its Push.  However many    *)
(* calls overlap and whichever of them fail, no batch in flight is         *)
(* overwritten or forgotten.                                               *)
LostOnlyInBatchOrReset ==
  [][~ (Accounted \subseteq Accounted') =>
       \/ \E p \in Proc : Batch(p) /\ batchSize(p) < BufLen(Ring(p))
       \/ \E p \in Flushers : AggReset(p)]_vars

FateOf(m) ==
  CASE m \in Held \cup Elems(cache) -> "held"
    [] m \in written  \ (Held \cup Elems(cache)) -> "written"
    [] m \in dropped  \ (Held \cup Elems(cache)) -> "dropped"
    [] m \in filtered \ (Held \cup Elems(cache)) -> "filtered"
    [] m \notin arrived -> "new"
    [] OTHER -> "lost"

Contract == INSTANCE OutputContract WITH fate <- [m \in Metric |-> FateOf(m)]

(* The output keeps its contract with the agent: it holds what it accepts  *)
(* until it has written it, once, or had to drop it.                       *)
ContractSpec == Contract!Spec

(* Every metric given to the output is settled in the end: no metric is    *)
(* rotated through failMetrics for ever by an output that works now and    *)
(* then.                                                                   *)
EverySettles ==
  \A m \in Metric :
    m \in arrived ~> m \in written \cup dropped \cup filtered
=============================================================================

------------------------ MODULE RunningOutputProofs -------------------------
(***************************************************************************)
(* Theorems about RunningOutput, for every batch size, buffer limit and    *)
(* number of concurrent flushes.                                           *)
(***************************************************************************)
EXTENDS RunningOutput, BufferLemmas, SequenceTheorems

Live(b) == \A k \in 1 .. BufLen(b) : Contents(b)[k] \in Metric

(* Where a process is certain to hold a batch.                             *)
Loaded == {"write", "writing", "failed", "readd", "aggPushed", "aggAdd"}

(* TypeOK, with what makes it inductive: see the README.                   *)
IInv ==
  /\ TypeOK
  /\ Live(metrics) /\ Live(failMetrics)
  /\ \A p \in Proc : pc[p] \in Loaded => hand[p] # <<>>
  /\ \A p \in Proc :
       firstSeen[p] <= IF p = Adder THEN MetricBatchSize ELSE MetricBufferLimit

(* push keeps the live slots of a buffer written.                          *)
LEMMA PushLive ==
  ASSUME NEW size \in Nat \ {0}, NEW b \in BufferOf(size), Live(b),
         NEW m \in Metric
  PROVE  /\ Push(b, m) \in BufferOf(size)
         /\ Live(Push(b, m))
         /\ Overwritten(b) \subseteq Metric
<1>1. Push(b, m) \in BufferOf(size) /\ Contents(b) \in Seq(Metric)
  BY PushFields, ContentsSeq DEF Live
<1>2. Words(b, size)
  BY BufferFields
<1>3. BufLen(b) \in 0 .. size /\ Len(Contents(b)) = BufLen(b)
  BY <1>2, LenRange DEF Contents
<1>4. CASE BufLen(b) = size
  <2>1. Contents(Push(b, m)) = Append(Tail(Contents(b)), m)
    BY <1>4, PushContents
  <2>2. Contents(b) # <<>>
    BY <1>3, <1>4
  <2>3. Contents(Push(b, m)) \in Seq(Metric)
    BY <1>1, <2>1, <2>2
  <2>4. Contents(b)[1] = b.buf[Slot(b, 1)]
    BY <1>3, <1>4 DEF Contents
  <2>5. Slot(b, 1) = b.first
    BY <1>2 DEF Slot, Words
  <2>6. b.buf[b.first] \in Metric
    BY <1>3, <1>4, <2>4, <2>5 DEF Live
  <2> QED BY <1>1, <2>3, <2>6, ContentsSeq DEF Live, Overwritten
<1>5. CASE BufLen(b) # size
  <2>1. Contents(Push(b, m)) = Append(Contents(b), m)
    BY <1>5, PushContents
  <2>2. Contents(Push(b, m)) \in Seq(Metric)
    BY <1>1, <2>1
  <2>3. ~ Overwrites(b)
    BY <1>2, <1>5, OverwritesWhenFull
  <2> QED BY <1>1, <2>2, <2>3, ContentsSeq DEF Live, Overwritten
<1> QED BY <1>4, <1>5

(* Batch returns metrics, and keeps the live slots written.                *)
LEMMA BatchLive ==
  ASSUME NEW size \in Nat \ {0}, NEW b \in BufferOf(size), Live(b), NEW n \in Nat
  PROVE  /\ BatchRest(b, n) \in BufferOf(size)
         /\ Live(BatchRest(b, n))
         /\ BatchOut(b, n) \in Seq(Metric)
         /\ OutLen(b, n) \in Nat
         /\ OutLen(b, n) # 0 => BatchOut(b, n) # <<>>
<1> DEFINE c == BatchRest(b, n)
<1>1. c \in BufferOf(size) /\ c.buf = b.buf
  BY BatchTyped
<1>2. BufLen(b) \in Nat
  BY BufferFields, LenRange
<1>3. /\ OutLen(b, n) \in 0 .. BufLen(b)
      /\ BatchOut(b, n) = [k \in 1 .. OutLen(b, n) |-> Contents(b)[k]]
  BY <1>2, BatchPrefix
<1>4. BatchOut(b, n) \in Seq(Metric) /\ OutLen(b, n) \in Nat
  BY <1>2, <1>3 DEF Live
<1>5. OutLen(b, n) # 0 => BatchOut(b, n) # <<>>
  BY <1>2, <1>3
<1>6. ASSUME NEW k \in 1 .. BufLen(c)
      PROVE  Contents(c)[k] \in Metric
  <2>1. PICK skip \in {0, 1} :
           /\ BufLen(c) = BufLen(b) - OutLen(b, n) - skip
           /\ Slot(c, k) = Slot(b, k + OutLen(b, n) + skip)
    BY <1>6, BatchSuffix
  <2> DEFINE j == k + OutLen(b, n) + skip
  <2> HIDE DEF c
  <2>2. j \in 1 .. BufLen(b)
    BY <1>2, <1>3, <2>1
  <2>3. Contents(c)[k] = c.buf[Slot(c, k)]
    BY DEF Contents
  <2>4. Contents(b)[j] = b.buf[Slot(b, j)]
    BY <2>2 DEF Contents
  <2> QED BY <1>1, <2>1, <2>2, <2>3, <2>4 DEF Live
<1> QED BY <1>1, <1>4, <1>5, <1>6 DEF Live

(* What an unlocked Len can find: indices at most one past the array.      *)
LEMMA DuringWords ==
  ASSUME NEW size \in Nat \ {0}, NEW b \in BufferOf(size)
  PROVE  /\ \A m \in Metric : \A c \in DuringPush(b, m) :
              c.first \in 0 .. size /\ c.last \in 0 .. size /\ c.size = size
         /\ \A n \in Nat : \A c \in DuringBatch(b, n) :
              c.first \in 0 .. size /\ c.last \in 0 .. size /\ c.size = size
<1>1. Words(b, size)
  BY BufferFields
<1>2. ASSUME NEW m \in Metric, NEW c \in DuringPush(b, m)
      PROVE  c.first \in 0 .. size /\ c.last \in 0 .. size /\ c.size = size
  <2>1. Words(Push(b, m), size)
    BY PushFields
  <2> QED BY <1>1, <1>2, <2>1 DEF DuringPush, Between, Words
<1>3. ASSUME NEW n \in Nat, NEW c \in DuringBatch(b, n)
      PROVE  c.first \in 0 .. size /\ c.last \in 0 .. size /\ c.size = size
  <2>1. CASE OutLen(b, n) = 0
    BY <1>1, <1>3, <2>1 DEF DuringBatch, Words
  <2>2. CASE OutLen(b, n) # 0
    <3>1. OutLen(b, n) \in 1 .. size
      BY <1>1, <2>2, BatchIndices, LenRange
    <3>2. RightInd(b, n) \in 0 .. size - 1
      BY <1>1, <3>1 DEF RightInd, min, Words
    <3>3. After(RightInd(b, n), size) \in 0 .. size - 1
      BY <3>2, AfterWraps
    <3>4. LastRead(b, n) \in 0 .. size - 1
      BY <1>1, <2>2, BatchIndices
    <3>5. BatchRest(b, n) \in BufferOf(size) /\ Words(BatchRest(b, n), size)
      BY BatchTyped, BufferFields
    <3> QED BY <1>1, <1>3, <2>2, <3>2, <3>3, <3>4, <3>5
            DEF DuringBatch, Between, Words
  <2> QED BY <2>1, <2>2
<1> QED BY <1>2, <1>3

(* Write never asks Batch for a negative number of metrics.                *)
LEMMA BatchSizeNat ==
  ASSUME TypeOK, NEW p \in Proc
  PROVE  batchSize(p) \in Nat /\ (stage[p] = "metrics" => batchSize(p) = MetricBatchSize)
BY SizesAssumption DEF TypeOK, batchSize

(* Whatever unlocked reads of either buffer find, the words are naturals.  *)
LEMMA SeenWords ==
  ASSUME IInv, NEW p \in Proc, NEW c \in Seen(p)
  PROVE  LET size == IF p = Adder THEN MetricBatchSize ELSE MetricBufferLimit
         IN  c.first \in 0 .. size /\ c.last \in 0 .. size /\ c.size = size
<1>1. CASE p = Adder
  <2>1. PICK q \in Proc : c = metrics \/ c \in DuringBatch(metrics, batchSize(q))
    <3>1. c \in SeenMetrics
      BY <1>1 DEF Seen
    <3>2. CASE c \in UNION {DuringBatch(metrics, batchSize(q)) :
                             q \in Inside("inBatch", {"metrics"})}
      <4>1. PICK q \in Inside("inBatch", {"metrics"}) :
                 c \in DuringBatch(metrics, batchSize(q))
        BY <3>2
      <4> QED BY <4>1 DEF Inside
    <3> QED BY <3>1, <3>2 DEF SeenMetrics
  <2>2. batchSize(q) \in Nat
    BY BatchSizeNat DEF IInv
  <2>3. metrics \in BufferOf(MetricBatchSize)
    BY DEF IInv, TypeOK
  <2>4. CASE c = metrics
    BY <1>1, <2>3, <2>4, SizesAssumption, BufferFields DEF Words
  <2>5. CASE c \in DuringBatch(metrics, batchSize(q))
    BY <1>1, <2>2, <2>3, <2>5, SizesAssumption, DuringWords
  <2> QED BY <2>1, <2>4, <2>5
<1>2. CASE p # Adder
  <2>1. failMetrics \in BufferOf(MetricBufferLimit)
    BY DEF IInv, TypeOK
  <2>2. \/ c = failMetrics
        \/ \E q \in Proc : pc[q] = "readd" /\ c \in DuringPush(failMetrics, Head(hand[q]))
        \/ \E q \in Proc : c \in DuringBatch(failMetrics, batchSize(q))
    <3>1. c \in SeenFail
      BY <1>2 DEF Seen
    <3>2. CASE c \in UNION {DuringPush(failMetrics, Head(hand[q])) :
                             q \in Inside("readd", {"fail", "metrics"})}
      <4>1. PICK q \in Inside("readd", {"fail", "metrics"}) :
                 c \in DuringPush(failMetrics, Head(hand[q]))
        BY <3>2
      <4> QED BY <4>1 DEF Inside
    <3>3. CASE c \in UNION {DuringBatch(failMetrics, batchSize(q)) :
                             q \in Inside("inBatch", {"fail"})}
      <4>1. PICK q \in Inside("inBatch", {"fail"}) :
                 c \in DuringBatch(failMetrics, batchSize(q))
        BY <3>3
      <4> QED BY <4>1 DEF Inside
    <3>4. \/ c = failMetrics
          \/ c \in UNION {DuringPush(failMetrics, Head(hand[q])) :
                             q \in Inside("readd", {"fail", "metrics"})}
          \/ c \in UNION {DuringBatch(failMetrics, batchSize(q)) :
                             q \in Inside("inBatch", {"fail"})}
      BY <3>1 DEF SeenFail
    <3> QED BY <3>2, <3>3, <3>4
  <2>3. CASE c = failMetrics
    BY <1>2, <2>1, <2>3, SizesAssumption, BufferFields DEF Words
  <2>4. ASSUME NEW q \in Proc, pc[q] = "readd", c \in DuringPush(failMetrics, Head(hand[q]))
        PROVE  c.first \in 0 .. MetricBufferLimit /\ c.last \in 0 .. MetricBufferLimit
               /\ c.size = MetricBufferLimit
    <3>1. hand[q] \in Seq(Metric) /\ hand[q] # <<>>
      BY <2>4 DEF IInv, TypeOK, Loaded
    <3>2. Head(hand[q]) \in Metric
      BY <3>1
    <3> QED BY <2>1, <2>4, <3>2, SizesAssumption, DuringWords
  <2>5. ASSUME NEW q \in Proc, c \in DuringBatch(failMetrics, batchSize(q))
        PROVE  c.first \in 0 .. MetricBufferLimit /\ c.last \in 0 .. MetricBufferLimit
               /\ c.size = MetricBufferLimit
    <3>1. batchSize(q) \in Nat
      BY BatchSizeNat DEF IInv
    <3> QED BY <2>1, <2>5, <3>1, SizesAssumption, DuringWords
  <2> QED BY <1>2, <2>2, <2>3, <2>4, <2>5
<1> QED BY <1>1, <1>2

-----------------------------------------------------------------------------
(* A batch of several metrics is not used up by one push.                  *)
LEMMA TailNonEmpty ==
  ASSUME NEW S, NEW s \in Seq(S), s # <<>>, Len(s) # 1
  PROVE  Tail(s) # <<>>
<1> SUFFICES ASSUME Tail(s) = <<>> PROVE FALSE
  OBVIOUS
<1>1. Len(s) \in Nat /\ Len(Tail(s)) = Len(s) - 1
  OBVIOUS
<1>2. Len(Tail(s)) = 0
  BY EmptySeq
<1>3. ASSUME NEW n \in Nat, n - 1 = 0 PROVE n = 1
  BY <1>3
<1>4. Len(s) = 1
  BY <1>1, <1>2, <1>3
<1> QED BY <1>4

(* NewRunningOutput establishes the inductive invariant.                   *)
LEMMA InitIInv == Init => IInv
<1> SUFFICES ASSUME Init PROVE IInv
  OBVIOUS
<1>1. /\ NewBuffer(MetricBatchSize) \in BufferOf(MetricBatchSize)
      /\ NewBuffer(MetricBufferLimit) \in BufferOf(MetricBufferLimit)
  BY SizesAssumption DEF NewBuffer, BufferOf
<1>2. \A size : BufLen(NewBuffer(size)) = 0
  BY DEF NewBuffer, BufLen, LenOf
<1> QED BY <1>1, <1>2, SizesAssumption
        DEF Init, NewRunningOutput, IInv, TypeOK, Live, PCs, Loaded

(* AddMetric preserves it: filtered, aggregated or pushed.                 *)
LEMMA AddMetricIInv ==
  ASSUME IInv, NEW m \in Metric, AddMetric(m)
  PROVE  IInv'
<1>1. Adder \in Proc /\ pc[Adder] = "idle"
  BY DEF Proc, AddMetric
<1>2. CASE m \in Rejected
  BY <1>2 DEF IInv, TypeOK, AddMetric, buffers, plugin, loop, Live
<1>3. CASE m \notin Rejected /\ Aggregating
  <2>1. cache' \in Seq(Metric) /\ ripe' \in 0 .. Len(cache')
    <3>1. /\ cache \in Seq(Metric) /\ ripe \in 0 .. Len(cache)
          /\ cache' = Append(cache, m) /\ ripe' = ripe
      BY <1>3 DEF IInv, TypeOK, AddMetric
    <3> QED BY <3>1
  <2> QED BY <1>3, <2>1 DEF IInv, TypeOK, AddMetric, buffers, loop, Live
<1>4. CASE m \notin Rejected /\ ~ Aggregating
  <2>1. /\ metrics' \in BufferOf(MetricBatchSize)
        /\ Live(metrics')
        /\ Overwritten(metrics) \subseteq Metric
    BY <1>4, SizesAssumption, PushLive DEF IInv, TypeOK, AddMetric
  <2> QED BY <1>1, <1>4, <2>1
          DEF IInv, TypeOK, AddMetric, Goto, plugin, loop, Live, Loaded, PCs
<1> QED BY <1>2, <1>3, <1>4

(* Taking a lock preserves it.                                             *)
LEMMA LockIInv ==
  ASSUME IInv, NEW p \in Proc, Lock(p)
  PROVE  IInv'
BY DEF IInv, TypeOK, Lock, Goto, buffers, plugin, loop, history, Live, Loaded, PCs

(* The decision taken on a length preserves it.                            *)
LEMMA LenIsIInv ==
  ASSUME IInv, NEW p \in Proc, NEW n \in Nat, LenIs(p, n),
         firstSeen' \in [Proc -> Nat],
         \A q \in Proc : firstSeen'[q] <= firstSeen[q],
         UNCHANGED <<buffers, plugin, hand, history>>
  PROVE  IInv'
<1>1. \A q \in Proc :
        firstSeen'[q] <= IF q = Adder THEN MetricBatchSize ELSE MetricBufferLimit
  BY SizesAssumption DEF IInv, TypeOK
<1>2. /\ pc' \in [Proc -> PCs]
      /\ nFails' \in [Proc -> Nat]
      /\ \A q \in Proc : pc'[q] \in Loaded => hand[q] # <<>>
      /\ UNCHANGED <<stage, round, err>>
  <2>1. CASE p = Adder /\ UNCHANGED loop
    BY <2>1 DEF IInv, TypeOK, LenIs, Goto, loop, Loaded, PCs
  <2>2. CASE nFails' = [nFails EXCEPT ![p] = n] /\ Goto(p, "isEmpty")
             /\ UNCHANGED <<stage, round, err>>
    BY <2>2 DEF IInv, TypeOK, Goto, Loaded, PCs
  <2> QED BY <2>1, <2>2 DEF LenIs
<1> QED BY <1>1, <1>2 DEF IInv, TypeOK, buffers, plugin, history, Live

(* The three unlocked reads of Len preserve it.                            *)
LEMMA LenReadsIInv ==
  ASSUME IInv, NEW p \in Proc,
         LenReadsEmpty(p) \/ LenReadsFirst(p) \/ LenReadsLast(p)
  PROVE  IInv'
<1> DEFINE size == IF p = Adder THEN MetricBatchSize ELSE MetricBufferLimit
<1>1. firstSeen \in [Proc -> Nat] /\ firstSeen[p] <= size /\ size \in Nat
  BY SizesAssumption DEF IInv, TypeOK
<1>2. CASE LenReadsEmpty(p)
  <2>1. CASE LenIs(p, 0)
    BY <1>1, <1>2, <2>1, LenIsIInv DEF LenReadsEmpty
  <2>2. CASE Goto(p, "lenFirst") /\ UNCHANGED loop
    BY <1>2, <2>2 DEF LenReadsEmpty, IInv, TypeOK, Goto, buffers, plugin, loop,
                      history, Live, Loaded, PCs
  <2> QED BY <1>2, <2>1, <2>2 DEF LenReadsEmpty
<1>3. CASE LenReadsFirst(p)
  <2>1. PICK b \in Seen(p) : firstSeen' = [firstSeen EXCEPT ![p] = b.first]
    BY <1>3 DEF LenReadsFirst
  <2>2. b.first \in 0 .. size
    BY <2>1, SeenWords
  <2> HIDE DEF size
  <2>3. /\ firstSeen' \in [Proc -> Nat]
        /\ \A q \in Proc : firstSeen'[q] = IF q = p THEN b.first ELSE firstSeen[q]
    BY <1>1, <2>1, <2>2
  <2>4. \A q \in Proc :
          firstSeen'[q] <= IF q = Adder THEN MetricBatchSize ELSE MetricBufferLimit
    BY <1>1, <2>2, <2>3 DEF IInv, size
  <2> QED BY <1>3, <2>3, <2>4 DEF LenReadsFirst, IInv, TypeOK, Goto, buffers, plugin,
                                loop, history, Live, Loaded, PCs
<1>4. CASE LenReadsLast(p)
  <2>1. PICK b \in Seen(p) : LenIs(p, LenOf(FALSE, firstSeen[p], b.last, b.size))
    BY <1>4 DEF LenReadsLast
  <2>2. b.last \in 0 .. size /\ b.size = size
    BY <2>1, SeenWords
  <2> HIDE DEF size
  <2>3. LenOf(FALSE, firstSeen[p], b.last, b.size) \in Nat
    BY <1>1, <2>2 DEF LenOf
  <2>4. /\ firstSeen' \in [Proc -> Nat]
        /\ \A q \in Proc : firstSeen'[q] <= firstSeen[q]
    BY <1>1, <1>4 DEF LenReadsLast
  <2> QED BY <1>4, <2>1, <2>3, <2>4, LenIsIInv DEF LenReadsLast
<1> QED BY <1>2, <1>3, <1>4

(* Going on to the next batch keeps the loop variables of Write typed.     *)
LEMMA NextRoundTyped ==
  ASSUME IInv, NEW p \in Proc, NextRound(p)
  PROVE  /\ pc' \in [Proc -> PCs]
         /\ \A q \in Proc : pc'[q] \in Loaded => q # p /\ pc[q] \in Loaded
         /\ stage' \in [Proc -> {"metrics", "fail"}]
         /\ nFails' \in [Proc -> Nat] /\ round' \in [Proc -> Nat]
         /\ err' \in [Proc -> BOOLEAN]
<1>1. CASE stage[p] = "metrics"
  <2>1. /\ pc' = [pc EXCEPT ![p] = "idle"]
        /\ nFails' = [nFails EXCEPT ![p] = 0] /\ round' = [round EXCEPT ![p] = 0]
        /\ err' = [err EXCEPT ![p] = FALSE] /\ stage' = stage
    BY <1>1 DEF NextRound, Goto
  <2>2. err' \in [Proc -> BOOLEAN]
    BY <2>1 DEF IInv, TypeOK
  <2> QED BY <2>1, <2>2 DEF IInv, TypeOK, Loaded, PCs
<1>2. CASE stage[p] = "fail"
  <2>1. Goto(p, "batch") /\ UNCHANGED <<nFails, err>>
    BY <1>2 DEF NextRound
  <2>2. stage' \in [Proc -> {"metrics", "fail"}] /\ round' \in [Proc -> Nat]
    <3>1. \/ stage' = stage /\ round' = [round EXCEPT ![p] = @ + 1]
          \/ stage' = [stage EXCEPT ![p] = "metrics"] /\ round' = round
      BY <1>2 DEF NextRound
    <3>2. stage \in [Proc -> {"metrics", "fail"}] /\ round \in [Proc -> Nat]
      BY DEF IInv, TypeOK
    <3> QED BY <3>1, <3>2
  <2> QED BY <2>1, <2>2 DEF IInv, TypeOK, Goto, Loaded, PCs
<1> QED BY <1>1, <1>2 DEF IInv, TypeOK

(* Push, Add and Reset of an aggregating output preserve it.               *)
LEMMA AggIInv ==
  ASSUME IInv, NEW p \in Proc, WriteStarts(p) \/ AggAdd(p) \/ AggReset(p)
  PROVE  IInv'
<1>1. CASE WriteStarts(p)
  <2>1. CASE ~ Aggregating
    BY <1>1, <2>1 DEF IInv, TypeOK, WriteStarts, Goto, buffers, plugin, loop, history,
                      Live, Loaded, PCs
  <2>2. CASE Aggregating
    <3>1. cache \in Seq(Metric) /\ ripe \in 0 .. Len(cache)
      BY DEF IInv, TypeOK
    <3>2. SubSeq(cache, 1, ripe) \in Seq(Metric) /\ Len(SubSeq(cache, 1, ripe)) = ripe
      BY <3>1
    <3>3. ripe # 0 => SubSeq(cache, 1, ripe) # <<>>
      BY <3>1, <3>2
    <3>4. /\ hand' = [hand EXCEPT ![p] = SubSeq(cache, 1, ripe)]
          /\ pc' = [pc EXCEPT ![p] = IF ripe = 0 THEN "aggReset" ELSE "aggPushed"]
      BY <1>1, <2>2 DEF WriteStarts, Goto
    <3>5. /\ hand' \in [Proc -> Seq(Metric)] /\ pc' \in [Proc -> PCs]
          /\ \A q \in Proc : pc'[q] \in Loaded => hand'[q] # <<>>
      BY <3>2, <3>3, <3>4 DEF IInv, TypeOK, PCs, Loaded
    <3> QED BY <1>1, <3>5 DEF IInv, TypeOK, WriteStarts, buffers, plugin, loop, history, Live
  <2> QED BY <2>1, <2>2
<1>2. CASE AggAdd(p)
  <2>1. hand[p] \in Seq(Metric) /\ hand[p] # <<>>
    BY <1>2 DEF IInv, TypeOK, AggAdd, Loaded
  <2>2. Head(hand[p]) \in Metric /\ Tail(hand[p]) \in Seq(Metric)
    BY <2>1
  <2>3. Len(hand[p]) # 1 => Tail(hand[p]) # <<>>
    BY <2>1, TailNonEmpty
  <2>4. /\ metrics' \in BufferOf(MetricBatchSize) /\ Live(metrics')
        /\ Overwritten(metrics) \subseteq Metric
    BY <1>2, <2>2, SizesAssumption, PushLive DEF IInv, TypeOK, AggAdd
  <2>5. /\ hand' \in [Proc -> Seq(Metric)] /\ pc' \in [Proc -> PCs]
        /\ \A q \in Proc : pc'[q] \in Loaded => hand'[q] # <<>>
    BY <1>2, <2>2, <2>3 DEF IInv, TypeOK, AggAdd, Goto, PCs, Loaded
  <2> QED BY <1>2, <2>4, <2>5 DEF IInv, TypeOK, AggAdd, plugin, loop, Live
<1>3. CASE AggReset(p)
  <2>1. cache \in Seq(Metric) /\ ripe \in 0 .. Len(cache)
    BY DEF IInv, TypeOK
  <2>2. cache' \in Seq(Metric) /\ ripe' \in 0 .. Len(cache')
    BY <1>3, <2>1 DEF AggReset
  <2> QED BY <1>3, <2>2 DEF IInv, TypeOK, AggReset, Goto, buffers, loop, history,
                            Live, Loaded, PCs
<1> QED BY <1>1, <1>2, <1>3

(* Batch preserves it, and only a loaded hand is written or added back.    *)
LEMMA BatchIInv ==
  ASSUME IInv, NEW p \in Proc, Batch(p)
  PROVE  IInv'
<1> DEFINE b == Ring(p)
           n == batchSize(p)
<1>1. n \in Nat
  BY BatchSizeNat DEF IInv
<1>2. /\ Live(b) /\ b \in BufferOf(IF stage[p] = "fail" THEN MetricBufferLimit
                                   ELSE MetricBatchSize)
  BY DEF IInv, TypeOK, Ring
<1>3. /\ BatchRest(b, n) \in BufferOf(IF stage[p] = "fail" THEN MetricBufferLimit
                                      ELSE MetricBatchSize)
      /\ Live(BatchRest(b, n))
      /\ BatchOut(b, n) \in Seq(Metric)
      /\ OutLen(b, n) \in Nat
      /\ OutLen(b, n) # 0 => BatchOut(b, n) # <<>>
  BY <1>1, <1>2, SizesAssumption, BatchLive
<1>4. /\ metrics' \in BufferOf(MetricBatchSize) /\ Live(metrics')
      /\ failMetrics' \in BufferOf(MetricBufferLimit) /\ Live(failMetrics')
  BY <1>3 DEF Batch, IInv, TypeOK, Ring
<1>5. /\ hand' = [hand EXCEPT ![p] = BatchOut(b, n)]
      /\ hand' \in [Proc -> Seq(Metric)]
  BY <1>3 DEF Batch, IInv, TypeOK
<1>6. /\ pc' \in [Proc -> PCs]
      /\ \A q \in Proc : pc'[q] \in Loaded => hand'[q] # <<>>
      /\ stage' \in [Proc -> {"metrics", "fail"}]
      /\ nFails' \in [Proc -> Nat] /\ round' \in [Proc -> Nat]
      /\ err' \in [Proc -> BOOLEAN]
  <2>1. CASE OutLen(b, n) = 0
    <3>1. NextRound(p)
      BY <1>3, <2>1 DEF Batch
    <3>2. \A q \in Proc : pc'[q] \in Loaded => q # p /\ pc[q] \in Loaded
      BY <3>1, NextRoundTyped
    <3>3. \A q \in Proc : pc'[q] \in Loaded => hand'[q] # <<>>
      BY <1>5, <3>2 DEF IInv, TypeOK
    <3> QED BY <3>1, <3>3, NextRoundTyped
  <2>2. CASE OutLen(b, n) # 0
    <3>1. pc' = [pc EXCEPT ![p] = IF err[p] THEN "failed" ELSE "write"] /\ UNCHANGED loop
      BY <1>3, <2>2 DEF Batch, Goto
    <3>2. BatchOut(b, n) # <<>>
      BY <1>3, <2>2
    <3> HIDE DEF b, n
    <3> QED BY <1>5, <3>1, <3>2 DEF IInv, TypeOK, loop, PCs, Loaded
  <2> QED BY <2>1, <2>2
<1> QED BY <1>4, <1>5, <1>6 DEF IInv, TypeOK, Batch, plugin, history

(* Output.Write preserves it, whether it succeeds or fails.                *)
LEMMA WriteIInv ==
  ASSUME IInv, NEW p \in Proc, WriteSucceeds(p) \/ WriteFails(p)
  PROVE  IInv'
<1>1. CASE WriteSucceeds(p)
  <2>1. /\ pc' \in [Proc -> PCs]
        /\ \A q \in Proc : pc'[q] \in Loaded => q # p /\ pc[q] \in Loaded
        /\ stage' \in [Proc -> {"metrics", "fail"}]
        /\ nFails' \in [Proc -> Nat] /\ round' \in [Proc -> Nat]
        /\ err' \in [Proc -> BOOLEAN]
    BY <1>1, NextRoundTyped DEF WriteSucceeds
  <2>2. hand' = [hand EXCEPT ![p] = <<>>] /\ hand' \in [Proc -> Seq(Metric)]
    BY <1>1 DEF WriteSucceeds, IInv, TypeOK
  <2>3. \A q \in Proc : pc'[q] \in Loaded => hand'[q] # <<>>
    BY <2>1, <2>2 DEF IInv, TypeOK
  <2>4. hand[p] \in Seq(Metric)
    BY DEF IInv, TypeOK
  <2>5. Elems(hand[p]) \subseteq Metric
    BY <2>4 DEF Elems
  <2> QED BY <1>1, <2>1, <2>2, <2>3, <2>5
          DEF WriteSucceeds, IInv, TypeOK, buffers, plugin, Live
<1>2. CASE WriteFails(p)
  BY <1>2 DEF WriteFails, IInv, TypeOK, Goto, buffers, plugin, history, Live, Loaded, PCs
<1> QED BY <1>1, <1>2

(* Every push of failMetrics.Add preserves it.                             *)
LEMMA ReaddIInv ==
  ASSUME IInv, NEW p \in Proc, Readd(p)
  PROVE  IInv'
<1>1. hand[p] \in Seq(Metric) /\ hand[p] # <<>>
  BY DEF IInv, TypeOK, Readd, Loaded
<1>2. Head(hand[p]) \in Metric /\ Tail(hand[p]) \in Seq(Metric)
  BY <1>1
<1>3. /\ failMetrics' \in BufferOf(MetricBufferLimit) /\ Live(failMetrics')
      /\ Overwritten(failMetrics) \subseteq Metric
  BY <1>2, SizesAssumption, PushLive DEF IInv, TypeOK, Readd
<1>4. hand' = [hand EXCEPT ![p] = Tail(hand[p])] /\ hand' \in [Proc -> Seq(Metric)]
  BY <1>2 DEF Readd, IInv, TypeOK
<1>5. /\ pc' \in [Proc -> PCs]
      /\ \A q \in Proc : pc'[q] \in Loaded => hand'[q] # <<>>
      /\ stage' \in [Proc -> {"metrics", "fail"}]
      /\ nFails' \in [Proc -> Nat] /\ round' \in [Proc -> Nat]
      /\ err' \in [Proc -> BOOLEAN]
  <2>1. CASE Len(hand[p]) > 1 /\ UNCHANGED <<pc, loop>>
    <3>1. Len(hand[p]) # 1
      <4>1. ASSUME NEW n \in Nat, n > 1 PROVE n # 1
        BY <4>1
      <4>2. Len(hand[p]) \in Nat
        BY <1>1
      <4> QED BY <2>1, <4>1, <4>2
    <3>2. Tail(hand[p]) # <<>>
      BY <1>1, <3>1, TailNonEmpty
    <3> QED BY <1>4, <2>1, <3>2 DEF IInv, TypeOK, loop
  <2>2. CASE NextRound(p)
    <3>1. \A q \in Proc : pc'[q] \in Loaded => q # p /\ pc[q] \in Loaded
      BY <2>2, NextRoundTyped
    <3>2. \A q \in Proc : pc'[q] \in Loaded => hand'[q] # <<>>
      BY <1>4, <3>1 DEF IInv, TypeOK
    <3> QED BY <2>2, <3>2, NextRoundTyped
  <2> QED BY <2>1, <2>2 DEF Readd
<1> QED BY <1>3, <1>4, <1>5 DEF Readd, IInv, TypeOK, plugin, Live

(* The invariant is inductive.                                             *)
LEMMA NextIInv == IInv /\ [Next]_vars => IInv'
<1> SUFFICES ASSUME IInv, [Next]_vars PROVE IInv'
  OBVIOUS
<1>1. ASSUME NEW m \in Metric, AddMetric(m) PROVE IInv'
  BY <1>1, AddMetricIInv
<1>2. ASSUME NEW p \in Proc, Step(p) PROVE IInv'
  BY <1>2, LockIInv, LenReadsIInv, BatchIInv, WriteIInv, ReaddIInv DEF Step
<1>3. ASSUME NEW p \in Flushers, Flush(p) PROVE IInv'
  <2>1. p \in Proc
    BY DEF Proc
  <2>2. CASE AsksIsEmpty(p)
    BY <2>1, <2>2 DEF AsksIsEmpty, IInv, TypeOK, Goto, buffers, plugin, history,
                      Live, Loaded, PCs
  <2> QED BY <1>3, <2>1, <2>2, AggIInv DEF Flush
<1>4. CASE Ripen
  <2>1. ripe' \in 0 .. Len(cache')
    BY <1>4 DEF Ripen, IInv, TypeOK
  <2> QED BY <1>4, <2>1 DEF Ripen, IInv, TypeOK, buffers, loop, history, Live
<1>5. CASE UNCHANGED vars
  BY <1>5 DEF vars, IInv, TypeOK, Live
<1> QED BY <1>1, <1>2, <1>3, <1>4, <1>5 DEF Next

(* Both buffers and every batch of a RunningOutput stay well typed, for    *)
(* all sizes, all filters and any number of concurrent calls of Write.     *)
THEOREM TypeCorrect == Spec => []TypeOK
<1>1. IInv => TypeOK
  BY DEF IInv
<1> QED BY <1>1, InitIInv, NextIInv, PTL DEF Spec

-----------------------------------------------------------------------------
(* Some process is about to empty metrics and holds its lock.              *)
Draining == \E q \in Proc : pc[q] = "inBatch" /\ stage[q] = "metrics"

(* metrics has room for one more, now or when its lock is free again.      *)
Room == BufLen(metrics) < MetricBatchSize \/ Draining

(* What AddMetric relies on: outside its looks at the length, metrics has  *)
(* room; between them, a full buffer keeps the first it was read with.     *)
AddInv ==
  ~ Aggregating =>
    /\ stage[Adder] = "metrics"
    /\ pc[Adder] \notin {"isEmpty"}
    /\ \A q \in Proc : pc[q] \notin {"aggPushed", "aggAdd", "aggReset"}
    /\ pc[Adder] \in {"idle", "write", "writing", "failed", "readd"} => Room
    /\ pc[Adder] = "lenLast" => Room \/ firstSeen[Adder] = metrics.first

(* Room is kept by a step that leaves metrics and who drains it alone.     *)
LEMMA RoomKept ==
  ASSUME metrics' = metrics,
         \A q \in Proc : pc[q] = "inBatch" /\ stage[q] = "metrics"
                           => pc'[q] = "inBatch" /\ stage'[q] = "metrics"
  PROVE  Room => Room'
BY DEF Room, Draining

(* Unlocked reads find metrics itself, unless it is being drained.         *)
LEMMA SeenOrDraining ==
  ASSUME NEW b \in SeenMetrics
  PROVE  b = metrics \/ Draining
<1>1. CASE b \in UNION {DuringBatch(metrics, batchSize(q)) :
                          q \in Inside("inBatch", {"metrics"})}
  <2>1. PICK q \in Inside("inBatch", {"metrics"}) : b \in DuringBatch(metrics, batchSize(q))
    BY <1>1
  <2> QED BY <2>1 DEF Inside, Draining
<1> QED BY <1>1 DEF SeenMetrics

(* When AddMetric may push, metrics has room.                              *)
LEMMA RoomWhenFree ==
  ASSUME IInv, AddInv, NEW m \in Metric, AddMetric(m)
  PROVE  dropped' = dropped
<1>1. CASE ~ Aggregating /\ m \notin Rejected
  <2>1. pc[Adder] = "idle" /\ MetricsFree
    BY <1>1 DEF AddMetric
  <2>2. BufLen(metrics) < MetricBatchSize
    BY <1>1, <2>1 DEF AddInv, Room, Draining, MetricsFree, HoldsMetrics
  <2>3. Words(metrics, MetricBatchSize)
    BY SizesAssumption, BufferFields DEF IInv, TypeOK
  <2>4. BufLen(metrics) \in 0 .. MetricBatchSize
    BY <2>3, SizesAssumption, LenRange
  <2>5. ~ Overwrites(metrics)
    <3>1. BufLen(metrics) # MetricBatchSize
      BY <2>2, <2>4, SizesAssumption
    <3> QED BY <2>3, <3>1, SizesAssumption, OverwritesWhenFull
  <2> QED BY <1>1, <2>5 DEF AddMetric, Overwritten
<1>2. CASE Aggregating \/ m \in Rejected
  BY <1>2 DEF AddMetric
<1> QED BY <1>1, <1>2

(* AddMetric preserves the invariant on room.                              *)
LEMMA AddMetricAddInv ==
  ASSUME IInv, AddInv, NEW m \in Metric, AddMetric(m)
  PROVE  AddInv'
<1> SUFFICES ASSUME ~ Aggregating PROVE AddInv'
  <2>1. kind' = kind
    BY DEF AddMetric, plugin
  <2> QED BY <2>1 DEF AddInv, Aggregating
<1>1. Adder \in Proc /\ pc \in [Proc -> PCs]
  BY DEF Proc, IInv, TypeOK
<1>2. CASE m \in Rejected
  <2>1. Room => Room'
    BY <1>2, RoomKept DEF AddMetric, buffers, loop
  <2> QED BY <1>2, <2>1 DEF AddInv, AddMetric, buffers, loop
<1>3. CASE m \notin Rejected
  <2>1. pc' = [pc EXCEPT ![Adder] = "lenEmpty"] /\ stage' = stage
    BY <1>3 DEF AddMetric, Goto, loop
  <2> QED BY <1>1, <2>1 DEF AddInv
<1> QED BY <1>2, <1>3

(* Taking a lock preserves it.                                             *)
LEMMA LockAddInv ==
  ASSUME IInv, AddInv, NEW p \in Proc, Lock(p)
  PROVE  AddInv'
<1> SUFFICES ASSUME ~ Aggregating PROVE AddInv'
  <2>1. kind' = kind
    BY DEF Lock, plugin
  <2> QED BY <2>1 DEF AddInv, Aggregating
<1>1. Adder \in Proc /\ pc \in [Proc -> PCs]
  BY DEF Proc, IInv, TypeOK
<1>2. UNCHANGED <<metrics, stage, firstSeen>>
  BY DEF Lock, buffers, loop
<1>3. \/ pc[p] = "batch" /\ pc' = [pc EXCEPT ![p] = "inBatch"]
      \/ pc[p] = "write" /\ pc' = [pc EXCEPT ![p] = "writing"]
      \/ pc[p] = "failed" /\ pc' = [pc EXCEPT ![p] = "readd"]
  BY DEF Lock, Goto, AddInv
<1>4. Room => Room'
  BY <1>1, <1>2, <1>3, RoomKept
<1> QED BY <1>1, <1>2, <1>3, <1>4 DEF AddInv

(* The reads of Len preserve it: a full buffer is recognised as full,      *)
(* unless a Write that holds the lock is about to empty it.                *)
LEMMA LenReadsAddInv ==
  ASSUME IInv, AddInv, NEW p \in Proc,
         LenReadsEmpty(p) \/ LenReadsFirst(p) \/ LenReadsLast(p)
  PROVE  AddInv'
<1> SUFFICES ASSUME ~ Aggregating PROVE AddInv'
  <2>1. kind' = kind
    BY DEF LenReadsEmpty, LenReadsFirst, LenReadsLast, plugin
  <2> QED BY <2>1 DEF AddInv, Aggregating
<1>1. Adder \in Proc /\ pc \in [Proc -> PCs] /\ firstSeen \in [Proc -> Nat]
  BY DEF Proc, IInv, TypeOK
<1>2. UNCHANGED <<metrics, stage>>
  BY DEF LenReadsEmpty, LenReadsFirst, LenReadsLast, LenIs, buffers, loop
<1>3. /\ pc[p] \in {"lenEmpty", "lenFirst", "lenLast"}
      /\ \E x \in {"lenFirst", "lenLast", "isEmpty", "batch", "idle"} :
           pc' = [pc EXCEPT ![p] = x]
  BY DEF LenReadsEmpty, LenReadsFirst, LenReadsLast, LenIs, Goto
<1>4. Room => Room'
  BY <1>1, <1>2, <1>3, RoomKept
<1>5. CASE p # Adder
  <2>1. firstSeen'[Adder] = firstSeen[Adder]
    BY <1>1, <1>5 DEF LenReadsEmpty, LenReadsFirst, LenReadsLast
  <2> QED BY <1>1, <1>2, <1>3, <1>4, <1>5, <2>1 DEF AddInv
<1>6. CASE p = Adder
  <2>1. Words(metrics, MetricBatchSize) /\ BufLen(metrics) \in 0 .. MetricBatchSize
    BY SizesAssumption, BufferFields, LenRange DEF IInv, TypeOK
  <2>2. CASE LenReadsEmpty(p)
    <3>1. PICK b \in SeenMetrics : \/ b.empty /\ LenIs(p, 0)
                                   \/ Goto(p, "lenFirst")
      BY <1>6, <2>2 DEF LenReadsEmpty, Seen
    <3>2. CASE b.empty
      <4>1. b = metrics => BufLen(metrics) = 0
        BY <3>2 DEF BufLen, LenOf
      <4>2. Room'
        BY <1>4, <4>1, SizesAssumption, SeenOrDraining DEF Room
      <4>3. pc'[Adder] # "lenLast" /\ pc'[Adder] # "isEmpty"
        BY <1>1, <1>6, <2>2, ProcAssumption DEF LenReadsEmpty, LenIs, Goto
      <4> QED BY <1>1, <1>2, <1>3, <4>2, <4>3 DEF AddInv
    <3>3. CASE Goto(p, "lenFirst")
      BY <1>1, <1>2, <1>6, <3>3 DEF AddInv, Goto
    <3>4. CASE LenIs(p, 0) /\ b.empty
      BY <3>2, <3>4
    <3> QED BY <3>1, <3>2, <3>3
  <2>3. CASE LenReadsFirst(p)
    <3>1. PICK b \in SeenMetrics : firstSeen' = [firstSeen EXCEPT ![p] = b.first]
      BY <1>6, <2>3 DEF LenReadsFirst, Seen
    <3>2. Room \/ firstSeen'[Adder] = metrics.first
      BY <1>1, <1>6, <3>1, SeenOrDraining DEF Room
    <3>3. pc' = [pc EXCEPT ![Adder] = "lenLast"]
      BY <1>6, <2>3 DEF LenReadsFirst, Goto
    <3> QED BY <1>1, <1>2, <1>4, <3>2, <3>3 DEF AddInv
  <2>4. CASE LenReadsLast(p)
    <3>1. PICK b \in SeenMetrics :
                 LenIs(p, LenOf(FALSE, firstSeen[p], b.last, b.size))
      BY <1>6, <2>4 DEF LenReadsLast, Seen
    <3>2. CASE LenOf(FALSE, firstSeen[p], b.last, b.size) = MetricBatchSize
      <4>1. pc' = [pc EXCEPT ![Adder] = "batch"]
        BY <1>6, <3>1, <3>2, ProcAssumption DEF LenIs, Goto
      <4> QED BY <1>1, <1>2, <4>1 DEF AddInv
    <3>3. CASE LenOf(FALSE, firstSeen[p], b.last, b.size) # MetricBatchSize
      <4>1. pc' = [pc EXCEPT ![Adder] = "idle"]
        BY <1>6, <3>1, <3>3, ProcAssumption DEF LenIs, Goto
      <4>2. Room
        <5>1. SUFFICES ASSUME ~ Room PROVE FALSE
          OBVIOUS
        <5>2. b = metrics /\ firstSeen[Adder] = metrics.first
          BY <1>6, <2>4, <3>1, <5>1, SeenOrDraining DEF AddInv, LenReadsLast, Room
        <5>3. metrics.size = MetricBatchSize
          BY <2>1 DEF Words
        <5>4. LenOf(FALSE, metrics.first, metrics.last, MetricBatchSize) # MetricBatchSize
          BY <1>6, <3>3, <5>2, <5>3
        <5>5. BufLen(metrics) # MetricBatchSize
          BY <5>3, <5>4, SizesAssumption DEF BufLen, LenOf
        <5>6. BufLen(metrics) < MetricBatchSize
          BY <2>1, <5>5, SizesAssumption
        <5> QED BY <5>1, <5>6 DEF Room
      <4> QED BY <1>1, <1>2, <1>4, <4>1, <4>2 DEF AddInv
    <3> QED BY <3>2, <3>3
  <2> QED BY <2>2, <2>3, <2>4
<1> QED BY <1>5, <1>6

(* Batch preserves it: a batch of metrics takes all of them.               *)
LEMMA BatchAddInv ==
  ASSUME IInv, AddInv, NEW p \in Proc, Batch(p)
  PROVE  AddInv'
<1> SUFFICES ASSUME ~ Aggregating PROVE AddInv'
  <2>1. kind' = kind
    BY DEF Batch, plugin
  <2> QED BY <2>1 DEF AddInv, Aggregating
<1>1. Adder \in Proc /\ pc \in [Proc -> PCs] /\ stage \in [Proc -> {"metrics", "fail"}]
  BY DEF Proc, IInv, TypeOK
<1>2. pc[p] = "inBatch" /\ firstSeen' = firstSeen
  BY DEF Batch
<1>3. \E x \in {"idle", "batch", "failed", "write"} : pc' = [pc EXCEPT ![p] = x]
  BY DEF Batch, NextRound, Goto
<1>4. /\ stage[p] = "metrics" => stage' = stage
      /\ \A q \in Proc : q # p => stage'[q] = stage[q]
  BY <1>1 DEF Batch, NextRound, loop
<1>5. CASE stage[p] = "metrics"
  <2>1. metrics' = BatchRest(metrics, MetricBatchSize)
    BY <1>5, BatchSizeNat DEF Batch, IInv
  <2>2. metrics \in BufferOf(MetricBatchSize) /\ Words(metrics, MetricBatchSize)
    BY SizesAssumption, BufferFields DEF IInv, TypeOK
  <2>3. BufLen(metrics) <= MetricBatchSize
    BY <2>2, SizesAssumption, LenRange
  <2>4. BufLen(metrics') = 0
    BY <2>1, <2>2, <2>3, SizesAssumption, BatchWhole
  <2>5. Room'
    BY <2>4, SizesAssumption DEF Room
  <2> QED BY <1>1, <1>3, <1>4, <1>5, <2>5 DEF AddInv
<1>6. CASE stage[p] = "fail"
  <2>1. metrics' = metrics /\ p # Adder
    BY <1>6 DEF Batch, AddInv
  <2>2. Room => Room'
    BY <1>1, <1>3, <1>4, <1>6, <2>1, RoomKept
  <2> QED BY <1>1, <1>2, <1>3, <1>4, <2>1, <2>2 DEF AddInv
<1> QED BY <1>1, <1>5, <1>6

(* Output.Write and the pushes into failMetrics preserve it.               *)
LEMMA WriteAddInv ==
  ASSUME IInv, AddInv, NEW p \in Proc,
         WriteSucceeds(p) \/ WriteFails(p) \/ Readd(p)
  PROVE  AddInv'
<1> SUFFICES ASSUME ~ Aggregating PROVE AddInv'
  <2>1. kind' = kind
    BY DEF WriteSucceeds, WriteFails, Readd, plugin
  <2> QED BY <2>1 DEF AddInv, Aggregating
<1>1. Adder \in Proc /\ pc \in [Proc -> PCs] /\ stage \in [Proc -> {"metrics", "fail"}]
  BY DEF Proc, IInv, TypeOK
<1>2. UNCHANGED <<metrics, firstSeen>> /\ pc[p] \in {"writing", "readd"}
  BY DEF WriteSucceeds, WriteFails, Readd, buffers
<1>3. \E x \in {"idle", "batch", "failed", "readd"} : pc' = [pc EXCEPT ![p] = x]
  <2>1. CASE NextRound(p)
    BY <2>1 DEF NextRound, Goto
  <2>2. CASE WriteFails(p)
    BY <2>2 DEF WriteFails, Goto
  <2>3. CASE Readd(p) /\ pc' = pc
    BY <1>1, <2>3 DEF Readd
  <2> QED BY <2>1, <2>2, <2>3 DEF WriteSucceeds, Readd
<1>4. /\ stage[p] = "metrics" => stage' = stage
      /\ \A q \in Proc : q # p => stage'[q] = stage[q]
  BY <1>1 DEF WriteSucceeds, WriteFails, Readd, NextRound, loop
<1>5. Room => Room'
  BY <1>1, <1>2, <1>3, <1>4, RoomKept
<1>6. p = Adder => Room
  BY <1>2 DEF AddInv
<1>7. stage'[Adder] = "metrics"
  BY <1>1, <1>4 DEF AddInv
<1> QED BY <1>1, <1>2, <1>3, <1>5, <1>6, <1>7 DEF AddInv

(* The other steps of Write preserve it.                                   *)
LEMMA FlushAddInv ==
  ASSUME IInv, AddInv, NEW p \in Flushers, Flush(p)
  PROVE  AddInv'
<1> SUFFICES ASSUME ~ Aggregating PROVE AddInv'
  <2>1. kind' = kind
    BY DEF Flush, WriteStarts, AggAdd, AggReset, AsksIsEmpty, plugin
  <2> QED BY <2>1 DEF AddInv, Aggregating
<1>1. /\ Adder \in Proc /\ p \in Proc /\ p # Adder
      /\ pc \in [Proc -> PCs] /\ stage \in [Proc -> {"metrics", "fail"}]
  BY ProcAssumption DEF Proc, IInv, TypeOK
<1>2. WriteStarts(p) \/ AsksIsEmpty(p)
  BY <1>1 DEF Flush, AddInv, AggAdd, AggReset
<1>3. UNCHANGED <<metrics, firstSeen>> /\ pc[p] \in {"idle", "isEmpty"}
  BY <1>2 DEF WriteStarts, AsksIsEmpty, buffers
<1>4. \E x \in {"lenEmpty", "batch"} : pc' = [pc EXCEPT ![p] = x]
  BY <1>2 DEF WriteStarts, AsksIsEmpty, Goto
<1>5. \A q \in Proc : q # p => stage'[q] = stage[q]
  BY <1>1, <1>2 DEF WriteStarts, AsksIsEmpty, loop
<1>6. Room => Room'
  BY <1>1, <1>3, <1>4, <1>5, RoomKept
<1> QED BY <1>1, <1>3, <1>4, <1>5, <1>6 DEF AddInv

LEMMA InitAddInv == Init => AddInv
BY SizesAssumption DEF Init, NewRunningOutput, AddInv, Room, Proc, NewBuffer, BufLen, LenOf

LEMMA NextAddInv == IInv /\ AddInv /\ [Next]_vars => AddInv'
<1> SUFFICES ASSUME IInv, AddInv, [Next]_vars PROVE AddInv'
  OBVIOUS
<1>1. ASSUME NEW m \in Metric, AddMetric(m) PROVE AddInv'
  BY <1>1, AddMetricAddInv
<1>2. ASSUME NEW p \in Proc, Step(p) PROVE AddInv'
  BY <1>2, LockAddInv, LenReadsAddInv, BatchAddInv, WriteAddInv DEF Step
<1>3. ASSUME NEW p \in Flushers, Flush(p) PROVE AddInv'
  BY <1>3, FlushAddInv
<1>4. CASE Ripen
  BY <1>4 DEF Ripen, AddInv, Aggregating, Room, Draining, buffers, loop
<1>5. CASE UNCHANGED vars
  BY <1>5 DEF vars, AddInv, Aggregating, Room, Draining
<1> QED BY <1>1, <1>2, <1>3, <1>4, <1>5 DEF Next

(* The push of AddMetric into metrics never overwrites a metric, whatever  *)
(* the batch size and however many flushes run beside it.                  *)
THEOREM AddingDropsNothing == Spec => AcceptingDropsNothing
<1>1. IInv /\ AddInv /\ [Next]_vars => [arrived' # arrived => dropped' = dropped]_vars
  <2> SUFFICES ASSUME IInv, AddInv, Next, arrived' # arrived
               PROVE  dropped' = dropped
    OBVIOUS
  <2>1. ASSUME NEW p \in Proc, Step(p) PROVE FALSE
    BY <2>1 DEF Step, Lock, LenReadsEmpty, LenReadsFirst, LenReadsLast, Batch,
                WriteSucceeds, WriteFails, Readd, history
  <2>2. ASSUME NEW p \in Flushers, Flush(p) PROVE FALSE
    BY <2>2 DEF Flush, WriteStarts, AggAdd, AggReset, AsksIsEmpty, history
  <2>3. CASE Ripen
    BY <2>3 DEF Ripen, history
  <2> QED BY <2>1, <2>2, <2>3, RoomWhenFree DEF Next
<1> QED BY <1>1, InitAddInv, NextAddInv, InitIInv, NextIInv, PTL DEF Spec, AcceptingDropsNothing
-----------------------------------------------------------------------------
(* Sequences without repetitions.                                          *)
Once(s) == \A i, j \in DOMAIN s : s[i] = s[j] => i = j

LEMMA OnceAppend ==
  ASSUME NEW S, NEW s \in Seq(S), NEW m \in S
  PROVE  /\ Elems(Append(s, m)) = Elems(s) \cup {m}
         /\ Once(s) /\ m \notin Elems(s) => Once(Append(s, m))
<1> DEFINE t == Append(s, m)
<1>1. /\ Len(s) \in Nat /\ DOMAIN s = 1 .. Len(s) /\ DOMAIN t = 1 .. Len(s) + 1
      /\ t[Len(s) + 1] = m /\ \A i \in 1 .. Len(s) : t[i] = s[i]
  OBVIOUS
<1> HIDE DEF t
<1>2. Elems(t) = Elems(s) \cup {m}
  <2>1. Elems(t) \subseteq Elems(s) \cup {m}
    BY <1>1 DEF Elems
  <2>2. Elems(s) \subseteq Elems(t)
    <3>1. ASSUME NEW i \in DOMAIN s
          PROVE  s[i] \in Elems(t)
      BY <1>1, <3>1 DEF Elems
    <3> QED BY <3>1 DEF Elems
  <2>3. m \in Elems(t)
    <3>1. Len(s) + 1 \in DOMAIN t
      BY <1>1
    <3> QED BY <1>1, <3>1 DEF Elems
  <2> QED BY <2>1, <2>2, <2>3
<1>3. ASSUME Once(s), m \notin Elems(s)
      PROVE  Once(t)
  BY <1>1, <1>3 DEF Once, Elems
<1> QED BY <1>2, <1>3 DEF t

LEMMA OnceTail ==
  ASSUME NEW S, NEW s \in Seq(S), s # <<>>
  PROVE  /\ Head(s) \in Elems(s) /\ Elems(s) = Elems(Tail(s)) \cup {Head(s)}
         /\ Once(s) => Once(Tail(s)) /\ Head(s) \notin Elems(Tail(s))
<1> DEFINE t == Tail(s)
<1>1. /\ Len(s) \in Nat \ {0} /\ DOMAIN s = 1 .. Len(s) /\ DOMAIN t = 1 .. Len(s) - 1
      /\ Head(s) = s[1] /\ \A i \in 1 .. Len(s) - 1 : t[i] = s[i + 1]
  OBVIOUS
<1> HIDE DEF t
<1>2. 1 \in DOMAIN s /\ Head(s) \in Elems(s)
  BY <1>1 DEF Elems
<1>3. Elems(t) \subseteq Elems(s)
  BY <1>1 DEF Elems
<1>4. ASSUME NEW i \in DOMAIN s, i # 1
      PROVE  s[i] \in Elems(t)
  <2>1. i - 1 \in DOMAIN t /\ t[i - 1] = s[i]
    BY <1>1, <1>4
  <2> QED BY <2>1 DEF Elems
<1>5. Elems(s) = Elems(t) \cup {Head(s)}
  BY <1>1, <1>2, <1>3, <1>4 DEF Elems
<1>6. ASSUME Once(s)
      PROVE  Once(t) /\ Head(s) \notin Elems(t)
  <2>1. \A i \in DOMAIN t : i + 1 \in DOMAIN s /\ i + 1 # 1 /\ t[i] = s[i + 1]
    BY <1>1
  <2>2. \A i \in DOMAIN t : t[i] # s[1]
    BY <1>2, <1>6, <2>1 DEF Once
  <2>3. Once(t)
    <3>1. ASSUME NEW i \in DOMAIN t, NEW j \in DOMAIN t, t[i] = t[j]
          PROVE  i = j
      <4>1. i + 1 = j + 1 /\ i \in Nat /\ j \in Nat
        BY <1>1, <1>6, <2>1, <3>1 DEF Once
      <4> QED BY <4>1
    <3> QED BY <3>1 DEF Once
  <2> QED BY <1>1, <2>2, <2>3 DEF Elems
<1> QED BY <1>2, <1>5, <1>6 DEF t

(* A sequence that is cut in two.                                          *)
LEMMA OnceCut ==
  ASSUME NEW S, NEW s \in Seq(S), NEW k \in 0 .. Len(s), Once(s)
  PROVE  /\ Once(SubSeq(s, 1, k)) /\ Once(SubSeq(s, k + 1, Len(s)))
         /\ Elems(SubSeq(s, 1, k)) = {s[i] : i \in 1 .. k}
         /\ Elems(SubSeq(s, k + 1, Len(s))) = {s[i] : i \in k + 1 .. Len(s)}
<1> DEFINE a == SubSeq(s, 1, k)
           b == SubSeq(s, k + 1, Len(s))
<1>1. /\ Len(s) \in Nat /\ DOMAIN s = 1 .. Len(s) /\ k \in Nat
      /\ DOMAIN a = 1 .. k /\ \A i \in 1 .. k : a[i] = s[i]
      /\ DOMAIN b = 1 .. Len(s) - k /\ \A i \in 1 .. Len(s) - k : b[i] = s[k + i]
  OBVIOUS
<1> HIDE DEF a, b
<1>2. Elems(a) = {s[i] : i \in 1 .. k}
  BY <1>1 DEF Elems
<1>3. Elems(b) = {s[i] : i \in k + 1 .. Len(s)}
  <2>1. ASSUME NEW i \in DOMAIN b
        PROVE  k + i \in k + 1 .. Len(s) /\ b[i] = s[k + i]
    BY <1>1, <2>1
  <2>2. ASSUME NEW i \in k + 1 .. Len(s)
        PROVE  i - k \in DOMAIN b /\ b[i - k] = s[i]
    BY <1>1, <2>2
  <2> QED BY <2>1, <2>2 DEF Elems
<1>4. Once(a)
  BY <1>1 DEF Once
<1>5. Once(b)
  <2>1. ASSUME NEW i \in DOMAIN b, NEW j \in DOMAIN b, b[i] = b[j]
        PROVE  i = j
    <3>1. k + i \in DOMAIN s /\ k + j \in DOMAIN s /\ s[k + i] = s[k + j]
      BY <1>1, <2>1
    <3>2. k + i = k + j /\ i \in Nat /\ j \in Nat
      BY <1>1, <3>1 DEF Once
    <3> QED BY <1>1, <3>2
  <2> QED BY <2>1 DEF Once
<1> QED BY <1>2, <1>3, <1>4, <1>5 DEF a, b

(* What push does to the metrics in a buffer.                              *)
LEMMA PushElems ==
  ASSUME NEW size \in Nat \ {0}, NEW b \in BufferOf(size), Live(b), NEW m \in Metric,
         Once(Contents(b)), m \notin Elems(Contents(b))
  PROVE  /\ Once(Contents(Push(b, m)))
         /\ Overwritten(b) \subseteq Elems(Contents(b))
         /\ Elems(Contents(Push(b, m))) = (Elems(Contents(b)) \ Overwritten(b)) \cup {m}
<1> DEFINE s == Contents(b)
<1>1. Words(b, size) /\ s \in Seq(Metric)
  BY BufferFields, ContentsSeq DEF Live
<1>2. BufLen(b) \in 0 .. size /\ Len(s) = BufLen(b)
  BY <1>1, LenRange DEF Contents
<1>3. CASE BufLen(b) = size
  <2>1. s # <<>> /\ Contents(Push(b, m)) = Append(Tail(s), m)
    BY <1>2, <1>3, PushContents
  <2>2. Overwrites(b) /\ Slot(b, 1) = b.first
    BY <1>1, <1>3, OverwritesWhenFull DEF Slot, Words
  <2>3. Head(s) = b.buf[b.first]
    BY <1>1, <1>2, <1>3, <2>1, <2>2 DEF Contents
  <2>4. Overwritten(b) = {Head(s)}
    BY <2>2, <2>3 DEF Overwritten
  <2> HIDE DEF s
  <2>5. /\ Once(Tail(s)) /\ Head(s) \notin Elems(Tail(s)) /\ Head(s) \in Elems(s)
        /\ Elems(s) = Elems(Tail(s)) \cup {Head(s)} /\ Tail(s) \in Seq(Metric)
    BY <1>1, <2>1, OnceTail DEF s
  <2>6. m \notin Elems(Tail(s)) /\ m # Head(s)
    BY <2>5 DEF s
  <2>7. Once(Append(Tail(s), m)) /\ Elems(Append(Tail(s), m)) = Elems(Tail(s)) \cup {m}
    <3> DEFINE t == Tail(s)
    <3>1. Once(t) /\ t \in Seq(Metric) /\ m \notin Elems(t)
      BY <2>5, <2>6
    <3> HIDE DEF t
    <3>2. Once(Append(t, m)) /\ Elems(Append(t, m)) = Elems(t) \cup {m}
      BY <3>1, OnceAppend
    <3> QED BY <3>2 DEF t
  <2> QED BY <2>1, <2>4, <2>5, <2>6, <2>7 DEF s
<1>4. CASE BufLen(b) # size
  <2>1. ~ Overwrites(b)
    BY <1>1, <1>4, OverwritesWhenFull
  <2>2. Contents(Push(b, m)) = Append(s, m) /\ Overwritten(b) = {}
    BY <1>4, <2>1, PushContents DEF Overwritten
  <2> QED BY <1>1, <2>2, OnceAppend
<1> QED BY <1>3, <1>4

(* What Batch does to them: it shares them out, and may lose one, but not  *)
(* if it is asked for all there is.                                        *)
LEMMA BatchElems ==
  ASSUME NEW size \in Nat \ {0}, NEW b \in BufferOf(size), NEW n \in Nat, Once(Contents(b))
  PROVE  /\ Once(BatchOut(b, n)) /\ Once(Contents(BatchRest(b, n)))
         /\ Elems(BatchOut(b, n)) \subseteq Elems(Contents(b))
         /\ Elems(Contents(BatchRest(b, n))) \subseteq Elems(Contents(b)) \ Elems(BatchOut(b, n))
         /\ n >= BufLen(b) => Elems(BatchOut(b, n)) = Elems(Contents(b))
<1> DEFINE s == Contents(b)
           c == BatchRest(b, n)
           o == OutLen(b, n)
           out == BatchOut(b, n)
<1>1. BufLen(b) \in Nat /\ DOMAIN s = 1 .. BufLen(b) /\ c.buf = b.buf
  BY BufferFields, LenRange, BatchTyped DEF Contents
<1>2. /\ o \in 0 .. BufLen(b) /\ DOMAIN out = 1 .. o
      /\ \A k \in 1 .. o : out[k] = s[k]
  <2>1. o \in 0 .. BufLen(b) /\ out = [k \in 1 .. o |-> s[k]]
    BY BatchPrefix
  <2> HIDE DEF o, s, out
  <2> QED BY <2>1
<1>3. PICK skip \in {0, 1} :
        /\ BufLen(c) = BufLen(b) - o - skip
        /\ \A k \in 1 .. BufLen(c) : Slot(c, k) = Slot(b, k + o + skip)
  BY BatchSuffix
<1>4. ASSUME NEW k \in DOMAIN Contents(c)
      PROVE  /\ k \in Nat \ {0} /\ k + o + skip \in DOMAIN s \ (1 .. o)
             /\ Contents(c)[k] = s[k + o + skip]
  <2>1. k \in 1 .. BufLen(c) /\ Contents(c)[k] = c.buf[Slot(c, k)]
    BY <1>4 DEF Contents
  <2> HIDE DEF c, o
  <2>2. k \in Nat \ {0} /\ k + o + skip \in 1 .. BufLen(b) /\ k + o + skip \notin 1 .. o
    BY <1>1, <1>2, <1>3, <2>1
  <2>3. s[k + o + skip] = b.buf[Slot(b, k + o + skip)]
    BY <2>2 DEF Contents
  <2> QED BY <1>1, <1>3, <2>1, <2>2, <2>3
<1>5. n >= BufLen(b) => out = s
  BY BatchWhole
<1> HIDE DEF s, c, o, out
<1>6. Once(s)
  BY DEF s
<1>7. Once(out) /\ Elems(out) \subseteq Elems(s)
  BY <1>1, <1>2, <1>6 DEF Once, Elems
<1>8. Once(Contents(c))
  <2>1. ASSUME NEW i \in DOMAIN Contents(c), NEW j \in DOMAIN Contents(c),
               Contents(c)[i] = Contents(c)[j]
        PROVE  i = j
    <3>1. i + o + skip = j + o + skip
      BY <1>4, <1>6, <2>1 DEF Once
    <3> QED BY <1>1, <1>2, <1>4, <2>1, <3>1
  <2> QED BY <2>1 DEF Once
<1>9. ASSUME NEW k \in DOMAIN Contents(c)
      PROVE  Contents(c)[k] \in Elems(s) \ Elems(out)
  <2>1. Contents(c)[k] \in Elems(s)
    BY <1>4, <1>9 DEF Elems
  <2>2. ASSUME NEW i \in DOMAIN out
        PROVE  out[i] # Contents(c)[k]
    <3>1. i \in DOMAIN s /\ i # k + o + skip /\ out[i] = s[i]
      BY <1>1, <1>2, <1>4, <1>9, <2>2
    <3> QED BY <1>4, <1>6, <1>9, <3>1 DEF Once
  <2> QED BY <2>1, <2>2 DEF Elems
<1>10. Elems(Contents(c)) \subseteq Elems(s) \ Elems(out)
  BY <1>9 DEF Elems
<1> QED BY <1>5, <1>7, <1>8, <1>10 DEF s, c, out

-----------------------------------------------------------------------------
(* InOnePlace, with what makes it inductive: everything has arrived, what  *)
(* is left in the plugin's cache by a Push is nowhere else, and a process  *)
(* has an empty hand whenever it is about to fill it.                      *)
Here(x) == Elems(At(x))

Apart ==
  /\ \A x \in Place : Once(At(x))
  /\ \A x, y \in Place : x # y => Here(x) \cap Here(y) = {}
  /\ Held \cap (written \cup dropped \cup filtered) = {}
  /\ written \cap dropped = {} /\ (written \cup dropped) \cap filtered = {}

CacheApart ==
  /\ Once(cache) /\ Elems(cache) \cap filtered = {}
  /\ {cache[i] : i \in ripe + 1 .. Len(cache)} \cap (Held \cup written \cup dropped) = {}
  /\ AggFree => Elems(cache) \cap (Held \cup written \cup dropped) = {}

Known == Accounted \subseteq arrived

EmptyHands == \A p \in Proc : pc[p] \notin Loaded => hand[p] = <<>>

PlaceInv == Apart /\ CacheApart /\ Known /\ EmptyHands

LEMMA PlaceInvOnePlace == PlaceInv => InOnePlace
BY DEF PlaceInv, Apart, CacheApart, InOnePlace, Here, Once

(* The places.                                                             *)
LEMMA AtIs ==
  /\ "metrics" \in Place /\ "failMetrics" \in Place /\ Proc \subseteq Place
  /\ "metrics" \notin Proc /\ "failMetrics" \notin Proc
  /\ At("metrics") = Contents(metrics) /\ At("failMetrics") = Contents(failMetrics)
  /\ \A p \in Proc : At(p) = hand[p]
<1>1. {"metrics", "failMetrics"} \cap Proc = {}
  BY ProcAssumption DEF Proc
<1> QED BY <1>1 DEF Place, At

LEMMA AtIsNext ==
  /\ At("metrics")' = Contents(metrics') /\ At("failMetrics")' = Contents(failMetrics')
  /\ \A p \in Proc : At(p)' = hand'[p]
<1>1. {"metrics", "failMetrics"} \cap Proc = {}
  BY ProcAssumption DEF Proc
<1> QED BY <1>1 DEF Place, At

LEMMA HeldIs == \A m : m \in Held <=> \E x \in Place : m \in Here(x)
BY DEF Held, Here

LEMMA HeldIsNext == \A m : m \in Held' <=> \E x \in Place : m \in Here(x)'
BY DEF Held, Here

(* The metrics G come to y, wherever they were, and the metrics D leave    *)
(* the places, written or dropped.                                         *)
LEMMA Moved ==
  ASSUME Apart, NEW y \in Place, NEW G, NEW D,
         \A x \in Place : Once(At(x))',
         \A x \in Place : Here(x)' \subseteq (IF x = y THEN Here(x) \cup G ELSE Here(x) \ G) \ D,
         D \subseteq Held, G \cap (written \cup dropped \cup filtered) = {},
         \/ written' = written \cup D /\ dropped' = dropped
         \/ written' = written /\ dropped' = dropped \cup D,
         filtered' = filtered
  PROVE  Apart' /\ Held' \subseteq Held \cup G
<1>1. ASSUME NEW u \in Place, NEW v \in Place, u # v
      PROVE  Here(u)' \cap Here(v)' = {}
  <2>1. Here(u) \cap Here(v) = {}
    BY <1>1 DEF Apart
  <2>2. CASE u = y
    BY <1>1, <2>1, <2>2
  <2>3. CASE v = y
    BY <1>1, <2>1, <2>3
  <2>4. CASE u # y /\ v # y
    BY <2>1, <2>4
  <2> QED BY <2>2, <2>3, <2>4
<1>2. Held' \subseteq (Held \cup G) \ D
  <2>1. ASSUME NEW m \in Held'
        PROVE  m \in (Held \cup G) \ D
    <3>1. PICK x \in Place : m \in Here(x)'
      BY <2>1, HeldIsNext
    <3>2. m \in Here(x) \cup G /\ m \notin D
      BY <3>1
    <3> QED BY <3>2, HeldIs
  <2> QED BY <2>1
<1>3. /\ Held' \cap (written' \cup dropped' \cup filtered') = {}
      /\ written' \cap dropped' = {} /\ (written' \cup dropped') \cap filtered' = {}
  BY <1>2 DEF Apart
<1> QED BY <1>1, <1>2, <1>3 DEF Apart

(* G goes from x to y, where D had to make room for it.                    *)
LEMMA Transferred ==
  ASSUME Apart, NEW x \in Place, NEW y \in Place, x # y, NEW G, NEW D,
         G \subseteq Here(x), D \subseteq Here(y), Once(At(x))', Once(At(y))',
         Here(x)' \subseteq Here(x) \ G, Here(y)' \subseteq (Here(y) \ D) \cup G,
         \A z \in Place \ {x, y} : At(z)' = At(z),
         \/ written' = written \cup D /\ dropped' = dropped
         \/ written' = written /\ dropped' = dropped \cup D,
         filtered' = filtered
  PROVE  Apart' /\ Held' \subseteq Held
<1>1. G \subseteq Held /\ D \subseteq Held
  BY HeldIs
<1>2. G \cap (written \cup dropped \cup filtered) = {}
  BY <1>1 DEF Apart
<1>3. \A z \in Place : Once(At(z))'
  <2>1. \A z \in Place \ {x, y} : Once(At(z))'
    BY DEF Apart, Once
  <2> QED BY <2>1
<1>4. \A u, v \in Place : u # v => Here(u) \cap Here(v) = {}
  BY DEF Apart
<1>5. ASSUME NEW z \in Place
      PROVE  Here(z)' \subseteq (IF z = y THEN Here(z) \cup G ELSE Here(z) \ G) \ D
  <2>1. CASE z = y
    BY <1>4, <2>1
  <2>2. CASE z = x
    BY <1>4, <2>2
  <2>3. CASE z # x /\ z # y
    <3>1. Here(z)' = Here(z)
      BY <1>5, <2>3 DEF Here
    <3> QED BY <1>4, <1>5, <2>3, <3>1
  <2> QED BY <2>1, <2>2, <2>3
<1>6. Apart' /\ Held' \subseteq Held \cup G
  BY <1>1, <1>2, <1>3, <1>5, Moved
<1> QED BY <1>1, <1>6

(* Such a step does not touch the cache, and keeps all but the empty hands.*)
LEMMA MovedKept ==
  ASSUME PlaceInv, Apart', Held' \subseteq Held, UNCHANGED <<cache, ripe, arrived, filtered>>,
         written' \cup dropped' \subseteq written \cup dropped \cup Held, AggFree' => AggFree
  PROVE  CacheApart' /\ Known'
<1>1. Held' \cup written' \cup dropped' \subseteq Held \cup written \cup dropped
  OBVIOUS
<1>2. Once(cache)'
  BY DEF PlaceInv, CacheApart
<1>3. CacheApart'
  BY <1>1, <1>2 DEF PlaceInv, CacheApart
<1>4. Known'
  BY <1>1 DEF PlaceInv, Known, Accounted
<1> QED BY <1>3, <1>4

(* A step that moves nothing.                                              *)
LEMMA StillKept ==
  ASSUME PlaceInv,
         UNCHANGED <<metrics, failMetrics, hand, cache, ripe, arrived, filtered, written, dropped>>,
         AggFree' => AggFree
  PROVE  Apart' /\ CacheApart' /\ Known' /\ Accounted' = Accounted
<1>1. \A x \in Place : At(x)' = At(x)
  BY AtIs, AtIsNext DEF Place
<1>2. Held' = Held /\ \A x \in Place : Here(x)' = Here(x)
  BY <1>1 DEF Held, Here
<1>3. Apart'
  BY <1>1, <1>2 DEF PlaceInv, Apart, Once
<1> QED BY <1>2, <1>3, MovedKept DEF Accounted

(* Batch: the metrics it returns leave the buffer, for the hand of its     *)
(* caller.  None is lost if it was asked for all there are.                *)
LEMMA BatchPlaces ==
  ASSUME IInv, PlaceInv, NEW p \in Proc, Batch(p)
  PROVE  /\ Apart' /\ CacheApart' /\ Known'
         /\ ~ (Accounted \subseteq Accounted') => batchSize(p) < BufLen(Ring(p))
<1> DEFINE n == batchSize(p)
           G == Elems(BatchOut(Ring(p), n))
<1>x. PICK x \in {"metrics", "failMetrics"} : x = IF stage[p] = "fail" THEN "failMetrics" ELSE "metrics"
  OBVIOUS
<1>0. n \in Nat /\ stage[p] \in {"metrics", "fail"} /\ hand \in [Proc -> Seq(Metric)]
  BY BatchSizeNat DEF IInv, TypeOK
<1>1. PICK size \in Nat \ {0} : Ring(p) \in BufferOf(size)
  <2>1. CASE stage[p] = "fail"
    BY <2>1, SizesAssumption DEF IInv, TypeOK, Ring
  <2>2. CASE stage[p] # "fail"
    BY <2>2, SizesAssumption DEF IInv, TypeOK, Ring
  <2> QED BY <2>1, <2>2
<1>2. x \in Place /\ p \in Place /\ x # p /\ At(x) = Contents(Ring(p))
  BY <1>x, AtIs DEF Ring
<1>3. /\ At(x)' = Contents(BatchRest(Ring(p), n)) /\ At(p)' = BatchOut(Ring(p), n)
      /\ \A z \in Place \ {x, p} : At(z)' = At(z)
  <2>1. hand' = [hand EXCEPT ![p] = BatchOut(Ring(p), n)]
    BY DEF Batch
  <2>2. /\ stage[p] = "fail" => /\ failMetrics' = BatchRest(Ring(p), n) /\ metrics' = metrics
        /\ stage[p] # "fail" => /\ metrics' = BatchRest(Ring(p), n) /\ failMetrics' = failMetrics
    BY <1>0 DEF Batch, Ring
  <2> HIDE DEF n
  <2>3. \A q \in Proc : hand'[q] = IF q = p THEN BatchOut(Ring(p), n) ELSE hand[q]
    BY <1>0, <2>1
  <2>4. CASE stage[p] = "fail"
    BY <1>x, <2>2, <2>3, <2>4, AtIs, AtIsNext DEF Place
  <2>5. CASE stage[p] # "fail"
    BY <1>x, <2>2, <2>3, <2>5, AtIs, AtIsNext DEF Place
  <2> QED BY <2>4, <2>5
<1> HIDE DEF n
<1>4. /\ Once(At(p))' /\ Once(At(x))'
      /\ G \subseteq Here(x) /\ Here(x)' \subseteq Here(x) \ G /\ Here(p)' = G
      /\ n >= BufLen(Ring(p)) => G = Here(x)
  <2>1. Once(Contents(Ring(p)))
    BY <1>2 DEF PlaceInv, Apart
  <2> QED BY <1>0, <1>1, <1>2, <1>3, <2>1, BatchElems DEF Here, Once
<1>5. UNCHANGED <<cache, ripe, arrived, filtered, written, dropped>>
  BY DEF Batch, plugin, history
<1>6. Apart' /\ Held' \subseteq Held
  <2> DEFINE D == {}
  <2>1. D \subseteq Here(p) /\ Here(p)' \subseteq (Here(p) \ D) \cup G
    BY <1>4
  <2>2. written' = written \cup D /\ dropped' = dropped
    BY <1>5
  <2> HIDE DEF G, D
  <2> QED BY <1>2, <1>3, <1>4, <1>5, <2>1, <2>2, Transferred DEF PlaceInv
<1>7. AggFree' => AggFree
  <2>1. pc[p] = "inBatch" /\ pc \in [Proc -> PCs]
    BY DEF Batch, IInv, TypeOK
  <2>2. \E w \in PCs : Goto(p, w)
    BY DEF Batch, NextRound, PCs
  <2> QED BY <2>1, <2>2 DEF AggFree, Goto
<1>8. CacheApart' /\ Known'
  BY <1>5, <1>6, <1>7, MovedKept
<1>9. ASSUME n >= BufLen(Ring(p))
      PROVE  Accounted \subseteq Accounted'
  <2>1. Here(p) = {}
    BY AtIs DEF Batch, Loaded, PlaceInv, EmptyHands, Here, Elems
  <2>2. ASSUME NEW m \in Held
        PROVE  m \in Held'
    <3>1. PICK z \in Place : m \in Here(z)
      BY <2>2, HeldIs
    <3>2. CASE z \in {x, p}
      BY <1>2, <1>4, <1>9, <2>1, <3>1, <3>2, HeldIsNext
    <3>3. CASE z \notin {x, p}
      <4>1. Here(z)' = Here(z)
        BY <1>3, <3>1, <3>3 DEF Here
      <4> QED BY <3>1, <4>1, HeldIsNext
    <3> QED BY <3>2, <3>3
  <2> QED BY <1>5, <2>2 DEF Accounted
<1>10. BufLen(Ring(p)) \in Nat
  BY <1>1, BufferFields, LenRange
<1> QED BY <1>0, <1>6, <1>8, <1>9, <1>10 DEF n

(* A push of the first metric in p's hand into the buffer of place y.      *)
LEMMA PushPlaces ==
  ASSUME IInv, PlaceInv, NEW p \in Proc, NEW y \in {"metrics", "failMetrics"},
         NEW b, NEW size \in Nat \ {0}, b \in BufferOf(size), Live(b),
         hand[p] # <<>>, At(y) = Contents(b), At(y)' = Contents(Push(b, Head(hand[p]))),
         \A z \in Place \ {y, p} : At(z)' = At(z),
         hand' = [hand EXCEPT ![p] = Tail(@)], dropped' = dropped \cup Overwritten(b),
         UNCHANGED <<cache, ripe, arrived, filtered, written>>, AggFree' => AggFree
  PROVE  Apart' /\ CacheApart' /\ Known' /\ Accounted \subseteq Accounted'
<1> DEFINE m == Head(hand[p])
           D == Overwritten(b)
<1>0. hand[p] \in Seq(Metric) /\ m \in Metric
  BY DEF IInv, TypeOK
<1>1. p \in Place /\ y \in Place /\ p # y /\ At(p) = hand[p] /\ At(p)' = Tail(hand[p])
  <2>1. hand'[p] = Tail(hand[p])
    BY DEF IInv, TypeOK
  <2> QED BY <2>1, AtIs, AtIsNext
<1>2. Once(hand[p]) /\ Once(Contents(b)) /\ Here(p) \cap Here(y) = {}
  BY <1>1 DEF PlaceInv, Apart
<1>3. /\ m \in Here(p) /\ Here(p) = Here(p)' \cup {m}
      /\ Once(At(p))' /\ m \notin Here(p)'
  BY <1>0, <1>1, <1>2, OnceTail DEF Here, Once
<1>4. m \notin Elems(Contents(b))
  BY <1>2, <1>3 DEF Here
<1> HIDE DEF m, D
<1>5. /\ Once(At(y))' /\ D \subseteq Here(y) /\ Here(y)' = (Here(y) \ D) \cup {m}
  BY <1>0, <1>2, <1>4, PushElems DEF Here, Once, m, D
<1>6. Apart' /\ Held' \subseteq Held
  <2> DEFINE G == {m}
  <2>1. G \subseteq Here(p) /\ Here(p)' \subseteq Here(p) \ G /\ Here(y)' \subseteq (Here(y) \ D) \cup G
    BY <1>3, <1>5
  <2>2. written' = written /\ dropped' = dropped \cup D
    BY DEF D
  <2> HIDE DEF G
  <2> QED BY <1>1, <1>3, <1>5, <2>1, <2>2, Transferred DEF PlaceInv
<1>7. D \subseteq Held /\ dropped' = dropped \cup D
  BY <1>1, <1>5, HeldIs DEF D
<1>8. CacheApart' /\ Known'
  BY <1>6, <1>7, MovedKept
<1>9. ASSUME NEW k \in Held
      PROVE  k \in Held' \cup dropped'
  <2>1. PICK z \in Place : k \in Here(z)
    BY <1>9, HeldIs
  <2>2. CASE z = y
    BY <1>1, <1>5, <1>7, <2>1, <2>2, HeldIsNext
  <2>3. CASE z = p
    BY <1>1, <1>3, <1>5, <2>1, <2>3, HeldIsNext
  <2>4. CASE z # y /\ z # p
    <3>1. Here(z)' = Here(z)
      BY <2>1, <2>4 DEF Here
    <3> QED BY <2>1, <3>1, HeldIsNext
  <2> QED BY <2>2, <2>3, <2>4
<1> QED BY <1>6, <1>7, <1>8, <1>9 DEF Accounted

(* failMetrics.Add, and what Write pushes for an AggregatingOutput.        *)
LEMMA ReaddPlaces ==
  ASSUME IInv, PlaceInv, NEW p \in Proc, Readd(p) \/ AggAdd(p)
  PROVE  Apart' /\ CacheApart' /\ Known' /\ Accounted \subseteq Accounted'
<1>0. hand[p] # <<>> /\ hand \in [Proc -> Seq(Metric)] /\ pc \in [Proc -> PCs]
  BY DEF IInv, TypeOK, Readd, AggAdd, Loaded
<1>1. hand' = [hand EXCEPT ![p] = Tail(@)] /\ \A q \in Proc \ {p} : hand'[q] = hand[q]
  BY <1>0 DEF Readd, AggAdd
<1>2. AggFree' => AggFree
  <2>1. CASE Readd(p)
    <3>1. pc[p] = "readd" /\ \E w \in PCs : pc' = [pc EXCEPT ![p] = w]
      BY <1>0, <2>1 DEF Readd, NextRound, Goto, PCs
    <3> QED BY <1>0, <3>1 DEF AggFree
  <2>2. CASE AggAdd(p)
    <3>1. pc' = [pc EXCEPT ![p] = IF Len(hand[p]) = 1 THEN "aggReset" ELSE "aggAdd"]
      BY <2>2 DEF AggAdd, Goto
    <3>2. ~ AggFree'
      BY <1>0, <3>1 DEF AggFree
    <3> QED BY <3>2
  <2> QED BY <2>1, <2>2
<1>3. CASE Readd(p)
  <2>1. /\ At("failMetrics") = Contents(failMetrics)
        /\ At("failMetrics")' = Contents(Push(failMetrics, Head(hand[p])))
        /\ \A z \in Place \ {"failMetrics", p} : At(z)' = At(z)
    BY <1>1, <1>3, AtIs, AtIsNext DEF Readd, Place
  <2>2. /\ dropped' = dropped \cup Overwritten(failMetrics)
        /\ UNCHANGED <<cache, ripe, arrived, filtered, written>>
    BY <1>3 DEF Readd, plugin
  <2>3. failMetrics \in BufferOf(MetricBufferLimit) /\ Live(failMetrics)
    BY DEF IInv, TypeOK
  <2> QED BY <1>0, <1>1, <1>2, <2>1, <2>2, <2>3, SizesAssumption, PushPlaces
<1>4. CASE AggAdd(p)
  <2>1. /\ At("metrics") = Contents(metrics)
        /\ At("metrics")' = Contents(Push(metrics, Head(hand[p])))
        /\ \A z \in Place \ {"metrics", p} : At(z)' = At(z)
    BY <1>1, <1>4, AtIs, AtIsNext DEF AggAdd, Place
  <2>2. /\ dropped' = dropped \cup Overwritten(metrics)
        /\ UNCHANGED <<cache, ripe, arrived, filtered, written>>
    BY <1>4 DEF AggAdd, plugin
  <2>3. metrics \in BufferOf(MetricBatchSize) /\ Live(metrics)
    BY DEF IInv, TypeOK
  <2> QED BY <1>0, <1>1, <1>2, <2>1, <2>2, <2>3, SizesAssumption, PushPlaces
<1> QED BY <1>3, <1>4

(* The output takes a batch.                                               *)
LEMMA WrittenPlaces ==
  ASSUME IInv, PlaceInv, NEW p \in Proc, WriteSucceeds(p)
  PROVE  Apart' /\ CacheApart' /\ Known' /\ Accounted \subseteq Accounted'
<1> DEFINE D == Elems(hand[p])
<1>0. hand \in [Proc -> Seq(Metric)] /\ pc \in [Proc -> PCs]
  BY DEF IInv, TypeOK
<1>1. /\ hand' = [hand EXCEPT ![p] = <<>>] /\ written' = written \cup D
      /\ UNCHANGED <<metrics, failMetrics, cache, ripe, arrived, filtered, dropped>>
  BY DEF WriteSucceeds, buffers, plugin
<1>2. At(p)' = <<>> /\ \A z \in Place \ {p} : At(z)' = At(z)
  BY <1>0, <1>1, AtIs, AtIsNext DEF Place
<1>3. /\ p \in Place /\ "metrics" \in Place /\ p # "metrics" /\ D = Here(p)
      /\ Here(p)' = {} /\ Once(At(p))' /\ Once(At("metrics"))' /\ Here("metrics")' = Here("metrics")
  BY <1>2, AtIs DEF Here, Elems, Once, PlaceInv, Apart
<1> HIDE DEF D
<1>4. Apart' /\ Held' \subseteq Held
  <2> DEFINE G == {}
  <2>1. /\ G \subseteq Here("metrics") /\ Here("metrics")' \subseteq Here("metrics") \ G
        /\ Here(p)' \subseteq (Here(p) \ D) \cup G /\ D \subseteq Here(p)
    BY <1>3
  <2> HIDE DEF G
  <2> QED BY <1>1, <1>2, <1>3, <2>1, Transferred DEF PlaceInv
<1>5. D \subseteq Held
  BY <1>3, HeldIs
<1>6. AggFree' => AggFree
  <2>1. pc[p] = "writing" /\ \E w \in PCs : pc' = [pc EXCEPT ![p] = w]
    BY DEF WriteSucceeds, NextRound, Goto, PCs
  <2> QED BY <1>0, <2>1 DEF AggFree
<1>7. CacheApart' /\ Known'
  BY <1>1, <1>4, <1>5, <1>6, MovedKept
<1>8. ASSUME NEW k \in Held
      PROVE  k \in Held' \cup written'
  <2>1. PICK z \in Place : k \in Here(z)
    BY <1>8, HeldIs
  <2>2. CASE z # p
    <3>1. Here(z)' = Here(z)
      BY <1>2, <2>1, <2>2 DEF Here
    <3> QED BY <2>1, <3>1, HeldIsNext
  <2> QED BY <1>1, <1>3, <2>1, <2>2
<1> QED BY <1>1, <1>4, <1>7, <1>8 DEF Accounted

(* AddMetric: a new metric is refused, goes to the plugin, or into metrics.*)
LEMMA AddMetricPlaces ==
  ASSUME IInv, PlaceInv, NEW m \in Metric, AddMetric(m)
  PROVE  Apart' /\ CacheApart' /\ Known' /\ Accounted \subseteq Accounted'
<1>0. /\ m \notin Accounted /\ arrived' = arrived \cup {m} /\ UNCHANGED <<hand, written>>
      /\ cache \in Seq(Metric) /\ ripe \in 0 .. Len(cache) /\ pc \in [Proc -> PCs]
      /\ pc[Adder] = "idle"
  BY DEF AddMetric, IInv, TypeOK, PlaceInv, Known
<1>1. m \notin Held \cup Elems(cache) \cup written \cup dropped \cup filtered
  BY <1>0 DEF Accounted
<1>2. CASE /\ m \in Rejected /\ filtered' = filtered \cup {m}
           /\ UNCHANGED <<buffers, plugin, pc, dropped>>
  <2>1. \A x \in Place : At(x)' = At(x)
    BY <1>0, <1>2, AtIs, AtIsNext DEF Place, buffers
  <2>2. Held' = Held /\ \A x \in Place : Here(x)' = Here(x)
    BY <2>1 DEF Held, Here
  <2>3. Apart'
    BY <1>0, <1>1, <1>2, <2>1, <2>2 DEF PlaceInv, Apart, Once
  <2>4. CacheApart'
    BY <1>0, <1>1, <1>2, <2>2 DEF PlaceInv, CacheApart, plugin, Once, AggFree
  <2>5. Known' /\ Accounted \subseteq Accounted'
    BY <1>0, <1>2, <2>2 DEF PlaceInv, Known, Accounted, plugin
  <2> QED BY <2>3, <2>4, <2>5
<1>3. CASE /\ AggFree /\ cache' = Append(cache, m)
           /\ UNCHANGED <<buffers, kind, ripe, pc, filtered, dropped>>
  <2>1. \A x \in Place : At(x)' = At(x)
    BY <1>0, <1>3, AtIs, AtIsNext DEF Place, buffers
  <2>2. Held' = Held /\ \A x \in Place : Here(x)' = Here(x)
    BY <2>1 DEF Held, Here
  <2>3. Apart'
    BY <1>0, <1>3, <2>1, <2>2 DEF PlaceInv, Apart, Once
  <2>4. Elems(cache') = Elems(cache) \cup {m} /\ Once(cache')
    BY <1>0, <1>1, <1>3, OnceAppend DEF PlaceInv, CacheApart
  <2>5. {cache'[i] : i \in ripe' + 1 .. Len(cache')} \subseteq Elems(cache')
    <3>1. DOMAIN cache' = 1 .. Len(cache') /\ ripe' \in Nat /\ Len(cache') \in Nat
      BY <1>0, <1>3
    <3> QED BY <3>1 DEF Elems
  <2>6. Elems(cache') \cap (Held' \cup written' \cup dropped' \cup filtered') = {}
    BY <1>0, <1>1, <1>3, <2>2, <2>4 DEF PlaceInv, CacheApart
  <2>7. CacheApart'
    BY <2>4, <2>5, <2>6 DEF CacheApart
  <2>8. Known' /\ Accounted \subseteq Accounted'
    BY <1>0, <1>3, <2>2, <2>4 DEF PlaceInv, Known, Accounted
  <2> QED BY <2>3, <2>7, <2>8
<1>4. CASE /\ metrics' = Push(metrics, m) /\ dropped' = dropped \cup Overwritten(metrics)
           /\ Goto(Adder, "lenEmpty") /\ UNCHANGED <<failMetrics, plugin, filtered>>
  <2> DEFINE D == Overwritten(metrics)
             G == {m}
  <2>1. /\ At("metrics") = Contents(metrics) /\ At("metrics")' = Contents(Push(metrics, m))
        /\ \A z \in Place \ {"metrics"} : At(z)' = At(z)
    BY <1>0, <1>4, AtIs, AtIsNext DEF Place
  <2>2. "metrics" \in Place /\ m \notin Here("metrics") /\ Once(Contents(metrics))
    BY <1>1, <2>1, AtIs, HeldIs DEF PlaceInv, Apart
  <2>3. /\ Once(At("metrics"))' /\ D \subseteq Here("metrics")
        /\ Here("metrics")' = (Here("metrics") \ D) \cup G
    BY <2>1, <2>2, SizesAssumption, PushElems DEF IInv, TypeOK, Here, Once
  <2>4. D \subseteq Held /\ G \cap (written \cup dropped \cup filtered) = {}
        /\ dropped' = dropped \cup D /\ written' = written /\ filtered' = filtered
    BY <1>0, <1>1, <1>4, <2>2, <2>3, HeldIs
  <2>5. G \cap Held = {}
    BY <1>1
  <2> HIDE DEF D, G
  <2>6. \A z \in Place : Once(At(z))'
    BY <2>1, <2>3 DEF PlaceInv, Apart, Once
  <2>7. ASSUME NEW z \in Place
        PROVE  Here(z)' \subseteq (IF z = "metrics" THEN Here(z) \cup G ELSE Here(z) \ G) \ D
    <3>1. CASE z = "metrics"
      BY <2>2, <2>3, <2>4, <2>5, <3>1, HeldIs
    <3>2. CASE z # "metrics"
      <4>1. Here(z)' = Here(z) /\ Here(z) \cap G = {}
        BY <2>1, <2>5, <2>7, <3>2, HeldIs DEF Here
      <4>2. Here(z) \cap D = {}
        BY <2>2, <2>3, <2>7, <3>2 DEF PlaceInv, Apart
      <4> QED BY <3>2, <4>1, <4>2
    <3> QED BY <3>1, <3>2
  <2>8. Apart' /\ Held' \subseteq Held \cup G
    BY <2>2, <2>4, <2>6, <2>7, Moved DEF PlaceInv
  <2>9. AggFree' => AggFree
    BY <1>0, <1>4 DEF AggFree, Goto
  <2>10. Held' \cup written' \cup dropped' \subseteq Held \cup written \cup dropped \cup {m}
    BY <2>4, <2>8 DEF G
  <2>11. UNCHANGED <<cache, ripe>> /\ m \notin Elems(cache)
    BY <1>1, <1>4 DEF plugin
  <2>12. {cache[i] : i \in ripe + 1 .. Len(cache)} \subseteq Elems(cache)
    <3>1. DOMAIN cache = 1 .. Len(cache) /\ ripe \in Nat /\ Len(cache) \in Nat
      BY <1>0
    <3> QED BY <3>1 DEF Elems
  <2>13. CacheApart'
    BY <2>4, <2>9, <2>10, <2>11, <2>12 DEF PlaceInv, CacheApart, Once
  <2>14. Known'
    BY <1>0, <2>4, <2>10, <2>11 DEF PlaceInv, Known, Accounted
  <2>15. ASSUME NEW k \in Held
         PROVE  k \in Held' \cup dropped'
    <3>1. PICK z \in Place : k \in Here(z)
      BY <2>15, HeldIs
    <3>2. CASE z = "metrics"
      BY <2>2, <2>3, <2>4, <3>1, <3>2, HeldIsNext
    <3>3. CASE z # "metrics"
      <4>1. Here(z)' = Here(z)
        BY <2>1, <3>1, <3>3 DEF Here
      <4> QED BY <3>1, <4>1, HeldIsNext
    <3> QED BY <3>2, <3>3
  <2> QED BY <2>4, <2>8, <2>11, <2>13, <2>14, <2>15 DEF Accounted
<1> QED BY <1>2, <1>3, <1>4 DEF AddMetric

(* Write begins: with an AggregatingOutput, the metrics that are ripe come *)
(* into its hands, while they stay in the cache.                           *)
LEMMA WriteStartsPlaces ==
  ASSUME IInv, PlaceInv, NEW p \in Flushers, WriteStarts(p)
  PROVE  Apart' /\ CacheApart' /\ Known' /\ Accounted \subseteq Accounted'
<1>0. /\ p \in Proc /\ pc[p] = "idle" /\ pc \in [Proc -> PCs] /\ hand \in [Proc -> Seq(Metric)]
      /\ cache \in Seq(Metric) /\ ripe \in 0 .. Len(cache)
      /\ UNCHANGED <<metrics, failMetrics, cache, ripe, arrived, filtered, written, dropped>>
  BY DEF WriteStarts, IInv, TypeOK, Proc, buffers, plugin, history
<1>1. CASE Goto(p, "lenEmpty") /\ UNCHANGED hand
  <2>1. AggFree' => AggFree
    BY <1>0, <1>1 DEF AggFree, Goto
  <2> QED BY <1>0, <1>1, <2>1, StillKept
<1>2. CASE /\ AggFree /\ hand' = [hand EXCEPT ![p] = SubSeq(cache, 1, ripe)]
           /\ Goto(p, IF ripe = 0 THEN "aggReset" ELSE "aggPushed")
  <2> DEFINE G == Elems(SubSeq(cache, 1, ripe))
             D == {}
  <2>1. /\ At(p)' = SubSeq(cache, 1, ripe) /\ Here(p)' = G /\ p \in Place
        /\ \A z \in Place \ {p} : At(z)' = At(z)
    BY <1>0, <1>2, AtIs, AtIsNext DEF Place, Here
  <2>2. Here(p) = {}
    BY <1>0, AtIs DEF PlaceInv, EmptyHands, Loaded, Here, Elems
  <2>3. Once(cache) /\ Elems(cache) \cap (Held \cup written \cup dropped \cup filtered) = {}
    BY <1>2 DEF PlaceInv, CacheApart
  <2>4. Once(At(p)') /\ G = {cache[i] : i \in 1 .. ripe}
    BY <1>0, <2>1, <2>3, OnceCut
  <2>5. DOMAIN cache = 1 .. Len(cache) /\ ripe \in Nat /\ Len(cache) \in Nat /\ ripe <= Len(cache)
    BY <1>0
  <2> HIDE DEF G
  <2>6. G \subseteq Elems(cache)
    BY <2>4, <2>5 DEF Elems
  <2>7. G \cap Held = {} /\ G \cap (written \cup dropped \cup filtered) = {}
    BY <2>3, <2>6
  <2>8. \A z \in Place : Once(At(z))'
    BY <2>1, <2>4 DEF PlaceInv, Apart, Once
  <2>9. ASSUME NEW z \in Place
        PROVE  Here(z)' \subseteq (IF z = p THEN Here(z) \cup G ELSE Here(z) \ G) \ D
    <3>1. CASE z # p
      <4>1. Here(z)' = Here(z) /\ Here(z) \cap G = {}
        BY <2>1, <2>7, <2>9, <3>1, HeldIs DEF Here
      <4> QED BY <3>1, <4>1
    <3> QED BY <2>1, <3>1
  <2>10. D \subseteq Held /\ written' = written \cup D /\ dropped' = dropped /\ filtered' = filtered
    BY <1>0
  <2> HIDE DEF D
  <2>11. Apart' /\ Held' \subseteq Held \cup G
    BY <2>1, <2>7, <2>8, <2>9, <2>10, Moved DEF PlaceInv
  <2>12. ~ AggFree'
    BY <1>0, <1>2 DEF AggFree, Goto
  <2>13. {cache[i] : i \in ripe + 1 .. Len(cache)} \cap G = {}
    <3>1. ASSUME NEW i \in ripe + 1 .. Len(cache), NEW j \in 1 .. ripe
          PROVE  cache[i] # cache[j]
      BY <2>3, <2>5 DEF Once
    <3> QED BY <2>4, <3>1
  <2>14. CacheApart'
    BY <1>0, <2>11, <2>12, <2>13 DEF PlaceInv, CacheApart, Once
  <2>15. Known'
    BY <1>0, <2>6, <2>11 DEF PlaceInv, Known, Accounted
  <2>16. ASSUME NEW k \in Held
         PROVE  k \in Held'
    <3>1. PICK z \in Place : k \in Here(z)
      BY <2>16, HeldIs
    <3>2. z # p /\ Here(z)' = Here(z)
      BY <2>1, <2>2, <3>1 DEF Here
    <3> QED BY <3>1, <3>2, HeldIsNext
  <2> QED BY <1>0, <2>11, <2>14, <2>15, <2>16 DEF Accounted
<1> QED BY <1>1, <1>2 DEF WriteStarts

(* The plugin's Reset, and the time that passes for its aggregates.        *)
LEMMA AggResetPlaces ==
  ASSUME IInv, PlaceInv, NEW p \in Flushers, AggReset(p)
  PROVE  Apart' /\ CacheApart' /\ Known'
<1>0. /\ cache \in Seq(Metric) /\ ripe \in 0 .. Len(cache)
      /\ cache' = SubSeq(cache, ripe + 1, Len(cache)) /\ ripe' = 0
      /\ UNCHANGED <<metrics, failMetrics, hand, arrived, filtered, written, dropped>>
  BY DEF AggReset, IInv, TypeOK, buffers, history
<1>1. \A x \in Place : At(x)' = At(x)
  BY <1>0, AtIs, AtIsNext DEF Place
<1>2. Held' = Held /\ \A x \in Place : Here(x)' = Here(x)
  BY <1>1 DEF Held, Here
<1>3. Apart'
  BY <1>0, <1>1, <1>2 DEF PlaceInv, Apart, Once
<1>4. Once(cache') /\ Elems(cache') = {cache[i] : i \in ripe + 1 .. Len(cache)}
  BY <1>0, OnceCut DEF PlaceInv, CacheApart
<1>5. DOMAIN cache = 1 .. Len(cache) /\ ripe \in Nat /\ Len(cache) \in Nat
  BY <1>0
<1>6. Elems(cache') \subseteq Elems(cache)
  BY <1>4, <1>5 DEF Elems
<1>7. Elems(cache') \cap (Held \cup written \cup dropped \cup filtered) = {}
  BY <1>4, <1>6 DEF PlaceInv, CacheApart
<1>8. {cache'[i] : i \in ripe' + 1 .. Len(cache')} \subseteq Elems(cache')
  <2>1. DOMAIN cache' = 1 .. Len(cache') /\ ripe' = 0
    BY <1>0
  <2> QED BY <2>1 DEF Elems
<1>9. CacheApart'
  BY <1>0, <1>2, <1>4, <1>7, <1>8 DEF CacheApart
<1>10. Known'
  BY <1>0, <1>2, <1>6 DEF PlaceInv, Known, Accounted
<1> QED BY <1>3, <1>9, <1>10

LEMMA RipenPlaces ==
  ASSUME IInv, PlaceInv, Ripen
  PROVE  Apart' /\ CacheApart' /\ Known' /\ Accounted \subseteq Accounted'
<1>0. /\ cache \in Seq(Metric) /\ ripe \in 0 .. Len(cache) /\ ripe' = ripe + 1
      /\ UNCHANGED <<metrics, failMetrics, hand, cache, arrived, filtered, written, dropped, pc>>
  BY DEF Ripen, IInv, TypeOK, buffers, history
<1>1. \A x \in Place : At(x)' = At(x)
  BY <1>0, AtIs, AtIsNext DEF Place
<1>2. Held' = Held /\ \A x \in Place : Here(x)' = Here(x)
  BY <1>1 DEF Held, Here
<1>3. Apart'
  BY <1>0, <1>1, <1>2 DEF PlaceInv, Apart, Once
<1>4. {cache[i] : i \in ripe' + 1 .. Len(cache)} \subseteq {cache[i] : i \in ripe + 1 .. Len(cache)}
  BY <1>0
<1>5. CacheApart'
  BY <1>0, <1>2, <1>4 DEF PlaceInv, CacheApart, Once, AggFree
<1>6. Known' /\ Accounted \subseteq Accounted'
  BY <1>0, <1>2 DEF PlaceInv, Known, Accounted
<1> QED BY <1>3, <1>5, <1>6

(* The steps that carry no metric.                                         *)
LEMMA OtherPlaces ==
  ASSUME IInv, PlaceInv, NEW p \in Proc,
         \/ Lock(p) \/ LenReadsEmpty(p) \/ LenReadsFirst(p) \/ LenReadsLast(p) \/ WriteFails(p)
         \/ AsksIsEmpty(p)
  PROVE  Apart' /\ CacheApart' /\ Known' /\ Accounted' = Accounted
<1>0. pc \in [Proc -> PCs]
  BY DEF IInv, TypeOK
<1>1. UNCHANGED <<metrics, failMetrics, hand, cache, ripe, arrived, filtered, written, dropped>>
  BY DEF Lock, LenReadsEmpty, LenReadsFirst, LenReadsLast, WriteFails, AsksIsEmpty, buffers,
     plugin, history
<1>2. AggFree' => AggFree
  <2>1. CASE Lock(p)
    <3>1. \/ pc[p] = "batch" /\ pc' = [pc EXCEPT ![p] = "inBatch"]
          \/ pc[p] = "write" /\ pc' = [pc EXCEPT ![p] = "writing"]
          \/ pc[p] = "failed" /\ pc' = [pc EXCEPT ![p] = "readd"]
          \/ pc[p] = "aggPushed" /\ pc' = [pc EXCEPT ![p] = "aggAdd"]
      BY <2>1 DEF Lock, Goto
    <3> QED BY <1>0, <3>1 DEF AggFree
  <2>2. CASE ~ Lock(p)
    <3>1. /\ pc[p] \in {"lenEmpty", "lenFirst", "lenLast", "writing", "isEmpty"}
          /\ \E w \in PCs : pc' = [pc EXCEPT ![p] = w]
      BY <2>2 DEF LenReadsEmpty, LenReadsFirst, LenReadsLast, WriteFails, AsksIsEmpty, LenIs,
         Goto, PCs
    <3> QED BY <1>0, <3>1 DEF AggFree
  <2> QED BY <2>1, <2>2
<1> QED BY <1>1, <1>2, StillKept

(* A hand is empty outside of the stretches in which it carries a batch:   *)
(* a batch that is written, added back or added is carried to its end.     *)
LEMMA HandsKept ==
  ASSUME IInv, EmptyHands, [Next]_vars
  PROVE  EmptyHands'
<1>0. /\ pc \in [Proc -> PCs] /\ hand \in [Proc -> Seq(Metric)] /\ Flushers \subseteq Proc
      /\ Adder \in Proc
  BY DEF IInv, TypeOK, Proc
<1>1. ASSUME NEW p \in Proc, NEW w \in PCs, pc' = [pc EXCEPT ![p] = w],
             \A q \in Proc \ {p} : hand'[q] = hand[q], w \notin Loaded => hand'[p] = <<>>
      PROVE  EmptyHands'
  BY <1>0, <1>1 DEF EmptyHands
<1>2. CASE UNCHANGED <<pc, hand>>
  BY <1>2 DEF EmptyHands
<1>3. ASSUME NEW p \in Proc, NEW w \in PCs, pc' = [pc EXCEPT ![p] = w], hand' = hand,
             pc[p] \notin Loaded \/ w \in Loaded
      PROVE  EmptyHands'
  BY <1>0, <1>3 DEF EmptyHands
<1>4. ASSUME NEW m \in Metric, AddMetric(m)
      PROVE  EmptyHands'
  BY <1>0, <1>2, <1>3, <1>4 DEF AddMetric, Goto, PCs, Loaded
<1>5. ASSUME NEW p \in Proc, Lock(p)
      PROVE  EmptyHands'
  BY <1>0, <1>3, <1>5 DEF Lock, Goto, PCs, Loaded
<1>6. ASSUME NEW p \in Proc,
             LenReadsEmpty(p) \/ LenReadsFirst(p) \/ LenReadsLast(p) \/ AsksIsEmpty(p)
      PROVE  EmptyHands'
  <2>1. /\ pc[p] \notin Loaded /\ hand' = hand
        /\ \E w \in PCs : pc' = [pc EXCEPT ![p] = w]
    BY <1>6 DEF LenReadsEmpty, LenReadsFirst, LenReadsLast, AsksIsEmpty, LenIs, Goto, PCs, Loaded
  <2> QED BY <1>3, <2>1
<1>7. ASSUME NEW p \in Proc, NextRound(p)
      PROVE  \E w \in PCs : pc' = [pc EXCEPT ![p] = w]
  BY <1>7 DEF NextRound, Goto, PCs
<1>8. ASSUME NEW p \in Proc, Batch(p)
      PROVE  EmptyHands'
  <2> DEFINE b == Ring(p)
             n == batchSize(p)
  <2>1. hand' = [hand EXCEPT ![p] = BatchOut(b, n)]
    BY <1>8 DEF Batch
  <2>2. CASE OutLen(b, n) = 0
    <3>1. hand'[p] = <<>>
      <4>1. BatchOut(b, n) = <<>>
        BY <2>2 DEF BatchOut
      <4> QED BY <1>0, <2>1, <4>1
    <3>2. \E w \in PCs : pc' = [pc EXCEPT ![p] = w]
      BY <1>7, <1>8, <2>2 DEF Batch
    <3> QED BY <1>0, <1>1, <2>1, <3>1, <3>2
  <2>3. CASE OutLen(b, n) # 0
    <3>1. \E w \in {"failed", "write"} : pc' = [pc EXCEPT ![p] = w]
      BY <1>8, <2>3 DEF Batch, Goto
    <3>2. {"failed", "write"} \subseteq PCs \cap Loaded
      BY DEF PCs, Loaded
    <3>3. \A q \in Proc \ {p} : hand'[q] = hand[q]
      BY <1>0, <2>1
    <3> QED BY <1>1, <3>1, <3>2, <3>3
  <2> QED BY <2>2, <2>3
<1>9. ASSUME NEW p \in Proc, WriteSucceeds(p) \/ WriteFails(p)
      PROVE  EmptyHands'
  <2>1. CASE WriteSucceeds(p)
    <3>1. hand'[p] = <<>> /\ \A q \in Proc \ {p} : hand'[q] = hand[q]
      BY <1>0, <2>1 DEF WriteSucceeds
    <3> QED BY <1>1, <1>7, <2>1, <3>1 DEF WriteSucceeds
  <2>2. CASE WriteFails(p)
    BY <1>3, <2>2 DEF WriteFails, Goto, PCs, Loaded
  <2> QED BY <1>9, <2>1, <2>2
<1>10. ASSUME NEW p \in Proc, Readd(p) \/ AggAdd(p)
       PROVE  EmptyHands'
  <2>1. /\ hand[p] \in Seq(Metric) /\ hand[p] # <<>> /\ hand' = [hand EXCEPT ![p] = Tail(@)]
    BY <1>0, <1>10 DEF Readd, AggAdd, IInv, Loaded
  <2>2. \A q \in Proc \ {p} : hand'[q] = hand[q]
    BY <1>0, <2>1
  <2>3. Len(hand[p]) = 1 => hand'[p] = <<>>
    <3>1. hand'[p] = Tail(hand[p])
      BY <1>0, <2>1
    <3>2. Tail(hand[p]) \in Seq(Metric) /\ Len(Tail(hand[p])) = Len(hand[p]) - 1
      BY <2>1
    <3> DEFINE t == Tail(hand[p])
    <3>3. Len(hand[p]) = 1 => t \in Seq(Metric) /\ Len(t) = 0
      BY <3>2
    <3> HIDE DEF t
    <3>4. Len(hand[p]) = 1 => t = <<>>
      BY <3>3, EmptySeq
    <3> QED BY <3>1, <3>4 DEF t
  <2>4. CASE Readd(p) /\ Len(hand[p]) # 1
    <3>1. pc' = [pc EXCEPT ![p] = "readd"]
      BY <1>0, <2>4 DEF Readd
    <3> QED BY <1>1, <2>2, <3>1 DEF PCs, Loaded
  <2>5. CASE Readd(p) /\ Len(hand[p]) = 1
    BY <1>1, <1>7, <2>2, <2>3, <2>5 DEF Readd
  <2>6. CASE AggAdd(p)
    <3>1. pc' = [pc EXCEPT ![p] = IF Len(hand[p]) = 1 THEN "aggReset" ELSE "aggAdd"]
      BY <2>6 DEF AggAdd, Goto
    <3> QED BY <1>1, <2>2, <2>3, <3>1 DEF PCs, Loaded
  <2> QED BY <1>10, <2>4, <2>5, <2>6
<1>11. ASSUME NEW p \in Flushers, WriteStarts(p)
       PROVE  EmptyHands'
  <2>1. CASE Goto(p, "lenEmpty") /\ UNCHANGED hand
    BY <1>0, <1>3, <1>11, <2>1 DEF WriteStarts, Goto, PCs, Loaded
  <2>2. CASE /\ hand' = [hand EXCEPT ![p] = SubSeq(cache, 1, ripe)]
             /\ Goto(p, IF ripe = 0 THEN "aggReset" ELSE "aggPushed")
    <3>1. hand'[p] = SubSeq(cache, 1, ripe) /\ \A q \in Proc \ {p} : hand'[q] = hand[q]
      BY <1>0, <2>2
    <3>2. ripe = 0 => SubSeq(cache, 1, ripe) = <<>>
      <4>1. cache \in Seq(Metric)
        BY DEF IInv, TypeOK
      <4> QED BY <4>1
    <3> QED BY <1>0, <1>1, <2>2, <3>1, <3>2 DEF Goto, PCs, Loaded
  <2> QED BY <1>11, <2>1, <2>2 DEF WriteStarts
<1>12. ASSUME NEW p \in Flushers, AggReset(p)
       PROVE  EmptyHands'
  BY <1>0, <1>3, <1>12 DEF AggReset, Goto, PCs, Loaded
<1>13. CASE Ripen \/ UNCHANGED vars
  BY <1>2, <1>13 DEF Ripen, vars
<1> QED BY <1>0, <1>4, <1>5, <1>6, <1>8, <1>9, <1>10, <1>11, <1>12, <1>13 DEF Next, Step, Flush

(* Every step keeps each metric in one place, and loses none but as the    *)
(* property says.                                                          *)
LEMMA NextPlaces ==
  ASSUME IInv, PlaceInv, [Next]_vars
  PROVE  /\ PlaceInv'
         /\ ~ (Accounted \subseteq Accounted') =>
              \/ \E p \in Proc : Batch(p) /\ batchSize(p) < BufLen(Ring(p))
              \/ \E p \in Flushers : AggReset(p)
<1> DEFINE Lossy == \/ \E p \in Proc : Batch(p) /\ batchSize(p) < BufLen(Ring(p))
                    \/ \E p \in Flushers : AggReset(p)
           Kept  == Apart' /\ CacheApart' /\ Known' /\ (Accounted \subseteq Accounted' \/ Lossy)
<1> SUFFICES Kept
  <2>1. EmptyHands'
    BY HandsKept DEF PlaceInv
  <2> QED BY <2>1 DEF PlaceInv
<1>0. Flushers \subseteq Proc
  BY DEF Proc
<1>1. ASSUME NEW m \in Metric, AddMetric(m) PROVE Kept
  BY <1>1, AddMetricPlaces
<1>2. ASSUME NEW p \in Proc, Batch(p) PROVE Kept
  BY <1>2, BatchPlaces
<1>3. ASSUME NEW p \in Proc, Readd(p) \/ AggAdd(p) PROVE Kept
  BY <1>3, ReaddPlaces
<1>4. ASSUME NEW p \in Proc, WriteSucceeds(p) PROVE Kept
  BY <1>4, WrittenPlaces
<1>5. ASSUME NEW p \in Proc,
             \/ Lock(p) \/ LenReadsEmpty(p) \/ LenReadsFirst(p) \/ LenReadsLast(p)
             \/ WriteFails(p) \/ AsksIsEmpty(p)
      PROVE  Kept
  BY <1>5, OtherPlaces
<1>6. ASSUME NEW p \in Flushers, WriteStarts(p) PROVE Kept
  BY <1>6, WriteStartsPlaces
<1>7. ASSUME NEW p \in Flushers, AggReset(p) PROVE Kept
  BY <1>7, AggResetPlaces
<1>8. CASE Ripen
  BY <1>8, RipenPlaces
<1>9. CASE UNCHANGED vars
  <2>1. AggFree' => AggFree
    BY <1>9 DEF vars, AggFree
  <2> QED BY <1>9, <2>1, StillKept DEF vars
<1> HIDE DEF Kept
<1> QED BY <1>0, <1>1, <1>2, <1>3, <1>4, <1>5, <1>6, <1>7, <1>8, <1>9 DEF Next, Step, Flush

LEMMA InitPlaces == Init => PlaceInv
<1> SUFFICES ASSUME Init PROVE PlaceInv
  OBVIOUS
<1>1. /\ metrics = NewBuffer(MetricBatchSize) /\ failMetrics = NewBuffer(MetricBufferLimit)
      /\ cache = <<>> /\ ripe = 0 /\ \A p \in Proc : hand[p] = <<>>
      /\ arrived = {} /\ filtered = {} /\ written = {} /\ dropped = {}
  BY DEF Init, NewRunningOutput
<1>2. \A x \in Place : DOMAIN At(x) = {}
  <2>1. DOMAIN Contents(metrics) = {} /\ DOMAIN Contents(failMetrics) = {}
    BY <1>1 DEF Contents, BufLen, LenOf, NewBuffer
  <2> QED BY <1>1, <2>1, AtIs DEF Place
<1>3. \A x \in Place : Here(x) = {} /\ Once(At(x))
  BY <1>2 DEF Here, Elems, Once
<1>4. Held = {}
  BY <1>3, HeldIs
<1>5. Elems(cache) = {} /\ Once(cache) /\ {cache[i] : i \in ripe + 1 .. Len(cache)} = {}
  BY <1>1 DEF Elems, Once
<1> QED BY <1>1, <1>3, <1>4, <1>5 DEF PlaceInv, Apart, CacheApart, Known, Accounted, EmptyHands

(* No metric is duplicated, whatever the sizes, the filter and the kind of *)
(* plugin, and however many calls of AddMetric and Write overlap and fail: *)
(* it is in one slot or one batch, and in none once it was settled.        *)
THEOREM NeverInTwoPlaces == Spec => []InOnePlace
<1>1. IInv /\ PlaceInv /\ [Next]_vars => PlaceInv'
  BY NextPlaces
<1> QED BY <1>1, InitIInv, NextIInv, InitPlaces, PlaceInvOnePlace, PTL DEF Spec

(* A RunningOutput loses a metric without counting it in two places only:  *)
(* in a Batch of part of a buffer, and in a Reset of an AggregatingOutput. *)
THEOREM LossesAreExplained == Spec => LostOnlyInBatchOrReset
<1>1. IInv /\ PlaceInv /\ [Next]_vars => PlaceInv'
  BY NextPlaces
<1>2. IInv /\ PlaceInv /\ [Next]_vars =>
        [~ (Accounted \subseteq Accounted') =>
           \/ \E p \in Proc : Batch(p) /\ batchSize(p) < BufLen(Ring(p))
           \/ \E p \in Flushers : AggReset(p)]_vars
  BY NextPlaces
<1> QED BY <1>1, <1>2, InitIInv, NextIInv, InitPlaces, PTL DEF Spec, LostOnlyInBatchOrReset

-----------------------------------------------------------------------------
(* The contract.  What a plain output that has lost nothing holds is what  *)
(* has arrived and is not settled, so the fate of a metric can be read off *)
(* the histories.                                                          *)
Plain == ~ Aggregating /\ cache = <<>>

FateRead(m) ==
  IF m \notin arrived THEN "new"
  ELSE IF m \in filtered THEN "filtered"
  ELSE IF m \in written THEN "written"
  ELSE IF m \in dropped THEN "dropped"
  ELSE "held"

LEMMA FateIsRead ==
  ASSUME PlaceInv, NoSilentLoss, Plain, NEW m \in Metric
  PROVE  FateOf(m) = FateRead(m)
<1>1. Elems(cache) = {}
  BY DEF Plain, Elems
<1>2. /\ arrived = Held \cup written \cup dropped \cup filtered
      /\ Held \cap (written \cup dropped \cup filtered) = {}
      /\ written \cap dropped = {} /\ (written \cup dropped) \cap filtered = {}
  BY <1>1 DEF PlaceInv, Known, NoSilentLoss, Accounted, Apart
<1>3. CASE m \notin arrived
  BY <1>1, <1>2, <1>3 DEF FateOf, FateRead
<1>4. CASE m \in Held
  BY <1>1, <1>2, <1>4 DEF FateOf, FateRead
<1>5. CASE m \in written
  BY <1>1, <1>2, <1>5 DEF FateOf, FateRead
<1>6. CASE m \in dropped
  BY <1>1, <1>2, <1>6 DEF FateOf, FateRead
<1>7. CASE m \in filtered
  BY <1>1, <1>2, <1>7 DEF FateOf, FateRead
<1> QED BY <1>2, <1>3, <1>4, <1>5, <1>6, <1>7

LEMMA FateIsReadNext ==
  ASSUME PlaceInv', NoSilentLoss', Plain', NEW m \in Metric
  PROVE  FateOf(m)' = FateRead(m)'
<1>1. (PlaceInv /\ NoSilentLoss /\ Plain => FateOf(m) = FateRead(m))'
  BY FateIsRead, PTL
<1> QED BY <1>1

(* What a step does to the histories: the contract's steps, and no others. *)
LEMMA HistorySteps ==
  ASSUME IInv, AddInv, PlaceInv, Plain, [Next]_vars
  PROVE  \/ UNCHANGED history
         \/ \E m \in Metric \ arrived :
              /\ arrived' = arrived \cup {m} /\ UNCHANGED <<written, dropped>>
              /\ filtered' \in {filtered, filtered \cup {m}}
         \/ \E D \in SUBSET Held :
              written' = written \cup D /\ UNCHANGED <<arrived, dropped, filtered>>
         \/ \E d \in Held :
              dropped' = dropped \cup {d} /\ UNCHANGED <<arrived, written, filtered>>
<1> USE DEF history
<1>1. ASSUME NEW m \in Metric, AddMetric(m)
      PROVE  /\ m \notin arrived /\ arrived' = arrived \cup {m} /\ UNCHANGED <<written, dropped>>
             /\ filtered' \in {filtered, filtered \cup {m}}
  <2>1. dropped' = dropped
    BY <1>1, RoomWhenFree
  <2> QED BY <1>1, <2>1 DEF AddMetric
<1>2. ASSUME NEW p \in Proc, WriteSucceeds(p)
      PROVE  \E D \in SUBSET Held :
               written' = written \cup D /\ UNCHANGED <<arrived, dropped, filtered>>
  <2>1. Elems(hand[p]) \subseteq Held
    BY AtIs, HeldIs DEF Here
  <2> QED BY <1>2, <2>1 DEF WriteSucceeds
<1>3. ASSUME NEW p \in Proc, Readd(p)
      PROVE  \/ UNCHANGED history
             \/ \E d \in Held :
                  dropped' = dropped \cup {d} /\ UNCHANGED <<arrived, written, filtered>>
  <2>0. hand[p] \in Seq(Metric) /\ hand[p] # <<>>
    BY <1>3 DEF IInv, TypeOK, Readd, Loaded
  <2>1. Head(hand[p]) \in Metric /\ Head(hand[p]) \in Here(p)
    BY <2>0, OnceTail, AtIs DEF Here
  <2>2. Once(Contents(failMetrics)) /\ Head(hand[p]) \notin Elems(Contents(failMetrics))
    BY <2>1, AtIs DEF PlaceInv, Apart, Here
  <2>3. Overwritten(failMetrics) \subseteq Elems(Contents(failMetrics))
    BY <2>1, <2>2, SizesAssumption, PushElems DEF IInv, TypeOK
  <2>4. Overwritten(failMetrics) \subseteq Held
    BY <2>3, AtIs, HeldIs DEF Here
  <2>5. CASE Overwrites(failMetrics)
    BY <1>3, <2>4, <2>5 DEF Readd, Overwritten
  <2>6. CASE ~ Overwrites(failMetrics)
    BY <1>3, <2>6 DEF Readd, Overwritten
  <2> QED BY <2>5, <2>6
<1>4. ASSUME NEW p \in Proc, Step(p), ~ WriteSucceeds(p), ~ Readd(p)
      PROVE  UNCHANGED history
  BY <1>4 DEF Step, Lock, LenReadsEmpty, LenReadsFirst, LenReadsLast, Batch, WriteFails
<1>5. ASSUME NEW p \in Flushers, Flush(p)
      PROVE  UNCHANGED history
  <2>1. ~ AggAdd(p)
    BY DEF AggAdd, AddInv, Plain, Proc
  <2> QED BY <1>5, <2>1 DEF Flush, WriteStarts, AggReset, AsksIsEmpty
<1>6. CASE Ripen \/ UNCHANGED vars
  BY <1>6 DEF Ripen, vars
<1> QED BY <1>1, <1>2, <1>3, <1>4, <1>5, <1>6 DEF Next

(* A plain output never has anything in the cache of a plugin.             *)
LEMMA PlainKept ==
  ASSUME IInv, Plain, [Next]_vars
  PROVE  Plain'
<1> USE DEF Plain, Aggregating, plugin
<1>1. ASSUME NEW m \in Metric, AddMetric(m) PROVE Plain'
  BY <1>1 DEF AddMetric
<1>2. ASSUME NEW p \in Proc, Step(p) PROVE Plain'
  BY <1>2 DEF Step, Lock, LenReadsEmpty, LenReadsFirst, LenReadsLast, Batch, WriteSucceeds,
     WriteFails, Readd
<1>3. ASSUME NEW p \in Flushers, Flush(p) PROVE Plain'
  <2>1. CASE AggReset(p)
    BY <2>1 DEF AggReset, IInv, TypeOK
  <2> QED BY <1>3, <2>1 DEF Flush, WriteStarts, AggAdd, AsksIsEmpty
<1>4. CASE Ripen \/ UNCHANGED vars
  BY <1>4 DEF Ripen, vars
<1> QED BY <1>1, <1>2, <1>3, <1>4 DEF Next


LEMMA ContractStep ==
  ASSUME IInv, AddInv, PlaceInv, Plain, NoSilentLoss,
         PlaceInv', Plain', NoSilentLoss', [Next]_vars
  PROVE  [Contract!Next]_([m \in Metric |-> FateOf(m)])
<1> DEFINE fate == [m \in Metric |-> FateRead(m)]
           moved == {m \in Metric : fate'[m] # fate[m]}
<1>1. /\ [m \in Metric |-> FateOf(m)] = fate
      /\ [m \in Metric |-> FateOf(m)]' = fate'
  BY FateIsRead, FateIsReadNext
<1>2. fate' \in [Metric -> Contract!Fates]
  BY DEF FateRead, Contract!Fates
<1>3. /\ arrived = Held \cup written \cup dropped \cup filtered
      /\ Held \cap (written \cup dropped \cup filtered) = {}
      /\ written \cap dropped = {} /\ (written \cup dropped) \cap filtered = {}
  <2>1. Elems(cache) = {}
    BY DEF Plain, Elems
  <2> QED BY <2>1 DEF PlaceInv, Known, NoSilentLoss, Accounted, Apart
<1>4. CASE UNCHANGED history
  <2>1. fate' = fate
    BY <1>4 DEF history, FateRead
  <2> QED BY <1>1, <2>1
<1>5. ASSUME NEW m \in Metric \ arrived,
             arrived' = arrived \cup {m}, UNCHANGED <<written, dropped>>,
             filtered' \in {filtered, filtered \cup {m}}
      PROVE  moved \subseteq {m} /\ <<fate[m], fate'[m]>> \in {Contract!Refuse, Contract!Keep}
  <2>1. ASSUME NEW x \in Metric, x # m PROVE FateRead(x)' = FateRead(x)
    BY <1>5, <2>1 DEF FateRead
  <2>2. FateRead(m) = "new" /\ FateRead(m)' \in {"filtered", "held"}
    BY <1>3, <1>5 DEF FateRead
  <2> QED BY <2>1, <2>2 DEF Contract!Refuse, Contract!Keep
<1>6. ASSUME NEW D \in SUBSET Held, written' = written \cup D,
             UNCHANGED <<arrived, dropped, filtered>>
      PROVE  \A m \in moved : <<fate[m], fate'[m]>> = Contract!Deliver
  <2>1. ASSUME NEW x \in Metric, x \notin D PROVE FateRead(x)' = FateRead(x)
    BY <1>6, <2>1 DEF FateRead
  <2>2. ASSUME NEW x \in Metric, x \in D
        PROVE  FateRead(x) = "held" /\ FateRead(x)' = "written"
    BY <1>3, <1>6, <2>2 DEF FateRead
  <2> QED BY <2>1, <2>2 DEF Contract!Deliver
<1>7. ASSUME NEW d \in Held, dropped' = dropped \cup {d},
             UNCHANGED <<arrived, written, filtered>>
      PROVE  /\ d \in Metric /\ moved \subseteq {d}
             /\ <<fate[d], fate'[d]>> = Contract!Overwrite
  <2>1. ASSUME NEW x \in Metric, x # d PROVE FateRead(x)' = FateRead(x)
    BY <1>7, <2>1 DEF FateRead
  <2>2. d \in Metric /\ FateRead(d) = "held" /\ FateRead(d)' = "dropped"
    BY <1>3, <1>7 DEF FateRead, IInv, TypeOK
  <2> QED BY <2>1, <2>2 DEF Contract!Overwrite
<1>8. CASE \E m \in Metric : /\ moved \subseteq {m}
                             /\ <<fate[m], fate'[m]>> \in
                                  {Contract!Refuse, Contract!Keep, Contract!Overwrite}
  <2> HIDE DEF fate
  <2> QED BY <1>1, <1>2, <1>8 DEF Contract!Next
<1>9. CASE \A m \in moved : <<fate[m], fate'[m]>> = Contract!Deliver
  <2> HIDE DEF fate
  <2> QED BY <1>1, <1>2, <1>9 DEF Contract!Next
<1>10. \/ UNCHANGED history
       \/ \E m \in Metric \ arrived :
            /\ arrived' = arrived \cup {m} /\ UNCHANGED <<written, dropped>>
            /\ filtered' \in {filtered, filtered \cup {m}}
       \/ \E D \in SUBSET Held :
            written' = written \cup D /\ UNCHANGED <<arrived, dropped, filtered>>
       \/ \E d \in Held :
            dropped' = dropped \cup {d} /\ UNCHANGED <<arrived, written, filtered>>
  BY HistorySteps
<1> HIDE DEF fate, moved
<1> QED BY <1>4, <1>5, <1>6, <1>7, <1>8, <1>9, <1>10

(* A plain output keeps its contract for as long as it loses nothing: what *)
(* it accepts it holds until it was written, once, in one batch with       *)
(* others, or overwritten by itself in a full failMetrics.                 *)
THEOREM KeepsContract ==
  ASSUME Kinds = {"plain"}
  PROVE  Spec /\ []NoSilentLoss => ContractSpec
<1>1. Init => Plain
  BY DEF Init, Plain, Aggregating
<1>2. IInv /\ Plain /\ [Next]_vars => Plain'
  BY PlainKept
<1>3. IInv /\ PlaceInv /\ [Next]_vars => PlaceInv'
  BY NextPlaces
<1>4. Init => Contract!Init
  <2> SUFFICES ASSUME Init PROVE [m \in Metric |-> FateOf(m)] = [m \in Metric |-> "new"]
    BY DEF Contract!Init
  <2>1. PlaceInv /\ Plain /\ arrived = {}
    BY <1>1, InitPlaces DEF Init
  <2>2. NoSilentLoss
    BY <2>1 DEF NoSilentLoss
  <2> QED BY <2>1, <2>2, FateIsRead DEF FateRead
<1>5. /\ IInv /\ AddInv /\ PlaceInv /\ Plain /\ NoSilentLoss
      /\ PlaceInv' /\ Plain' /\ NoSilentLoss' /\ [Next]_vars
      => [Contract!Next]_([m \in Metric |-> FateOf(m)])
  BY ContractStep
<1> QED
  BY <1>1, <1>2, <1>3, <1>4, <1>5, InitIInv, NextIInv, InitAddInv, NextAddInv, InitPlaces, PTL
     DEF Spec, ContractSpec, Contract!Spec

=============================================================================

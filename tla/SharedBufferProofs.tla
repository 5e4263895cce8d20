------------------------- MODULE SharedBufferProofs -------------------------
(***************************************************************************)
(* Theorems about SharedBuffer, for every size, batch size and bound.      *)
(***************************************************************************)
EXTENDS SharedBuffer, BufferLemmas

(* TypeOK is not inductive: Batch returns what the live slots hold.        *)
Inv == TypeOK /\ LiveSlotsWritten

(* NewBuffer satisfies the invariant.                                      *)
LEMMA InitInv == Init => Inv
<1> SUFFICES ASSUME Init PROVE Inv
  OBVIOUS
<1>1. NewBuffer(Size) \in BufferOf(Size)
  BY SizeAssumption DEF NewBuffer, BufferOf
<1>2. BufLen(NewBuffer(Size)) = 0
  BY DEF NewBuffer, BufLen, LenOf
<1> QED BY <1>1, <1>2 DEF Init, Inv, TypeOK, LiveSlotsWritten

(* One iteration of Add's loop preserves it.                               *)
LEMMA PushInv == Inv /\ PushNext => Inv'
<1> SUFFICES ASSUME Inv, PushNext PROVE Inv'
  OBVIOUS
<1> USE SizeAssumption
<1>1. /\ ring \in BufferOf(Size) /\ adding \in Seq(Metric) /\ adding # <<>>
      /\ Contents(ring) \in Seq(Metric)
  BY ContentsSeq DEF Inv, TypeOK, LiveSlotsWritten, PushNext
<1>2. Head(adding) \in Metric /\ Tail(adding) \in Seq(Metric)
  BY <1>1
<1>3. ring' \in BufferOf(Size)
  BY <1>1, <1>2, PushFields DEF PushNext
<1>4. BufLen(ring) \in 0 .. Size /\ Len(Contents(ring)) = BufLen(ring)
  BY <1>1, BufferFields, LenRange DEF Contents
<1>5. Contents(ring') \in Seq(Metric)
  <2>1. CASE BufLen(ring) = Size
    <3>1. Contents(ring') = Append(Tail(Contents(ring)), Head(adding))
      BY <1>1, <1>2, <2>1, PushContents DEF PushNext
    <3>2. Contents(ring) # <<>>
      BY <1>4, <2>1
    <3> QED BY <1>1, <1>2, <3>1, <3>2
  <2>2. CASE BufLen(ring) # Size
    <3>1. Contents(ring') = Append(Contents(ring), Head(adding))
      BY <1>1, <1>2, <2>2, PushContents DEF PushNext
    <3> QED BY <1>1, <1>2, <3>1
  <2> QED BY <2>1, <2>2
<1> QED BY <1>1, <1>2, <1>3, <1>5, ContentsSeq DEF Inv, TypeOK, LiveSlotsWritten, PushNext

(* Batch preserves it, whatever the batch size: it skips slots but moves no*)
(* index outside the live ones.                                            *)
LEMMA BatchInv ==
  ASSUME NEW n \in BatchSizes
  PROVE  Inv /\ Batch(n) => Inv'
<1> SUFFICES ASSUME Inv, Batch(n) PROVE Inv'
  OBVIOUS
<1> USE SizeAssumption, BatchAssumption
<1>1. ring \in BufferOf(Size) /\ \A k \in 1 .. BufLen(ring) : Contents(ring)[k] \in Metric
  BY DEF Inv, TypeOK, LiveSlotsWritten
<1>2. ring' \in BufferOf(Size) /\ ring'.buf = ring.buf
  BY <1>1, BatchTyped DEF Batch
<1>3. /\ BufLen(ring) \in Nat /\ OutLen(ring, n) \in 0 .. BufLen(ring)
      /\ batch' = [k \in 1 .. OutLen(ring, n) |-> Contents(ring)[k]]
  <2>1. BufLen(ring) \in Nat
    BY <1>1, BufferFields, LenRange
  <2> QED BY <1>1, <2>1, BatchPrefix DEF Batch
<1>4. batch' \in Seq(Metric) /\ Len(batch') \in Nat
  BY <1>1, <1>3
<1>5. ASSUME NEW k \in 1 .. BufLen(ring')
      PROVE  Contents(ring')[k] \in Metric
  <2>1. PICK skip \in {0, 1} :
           /\ BufLen(ring') = BufLen(ring) - OutLen(ring, n) - skip
           /\ Slot(ring', k) = Slot(ring, k + OutLen(ring, n) + skip)
    BY <1>1, <1>5, BatchSuffix DEF Batch
  <2>2. k + OutLen(ring, n) + skip \in 1 .. BufLen(ring)
    BY <1>3, <2>1
  <2> DEFINE j == k + OutLen(ring, n) + skip
  <2>3. Contents(ring')[k] = ring'.buf[Slot(ring', k)]
    BY DEF Contents
  <2>4. Contents(ring)[j] = ring.buf[Slot(ring, j)]
    BY <2>2 DEF Contents
  <2> QED BY <1>1, <1>2, <2>1, <2>2, <2>3, <2>4
<1> QED BY <1>2, <1>4, <1>5 DEF Inv, TypeOK, LiveSlotsWritten, Batch

(* The invariant holds in every reachable state.                           *)
LEMMA InvAlways == Spec => []Inv
<1>1. Init => Inv
  BY InitInv
<1>2. Inv /\ [Next]_vars => Inv'
  <2> SUFFICES ASSUME Inv, [Next]_vars PROVE Inv'
    OBVIOUS
  <2>1. ASSUME NEW k \in 1 .. MaxAdd, NEW ms \in [1 .. k -> Metric], Add(ms)
        PROVE  Inv'
    <3>1. ms \in Seq(Metric)
      BY BoundsAssumption
    <3> QED BY <2>1, <3>1 DEF Add, Inv, TypeOK, LiveSlotsWritten
  <2>2. CASE PushNext
    BY <2>2, PushInv
  <2>3. ASSUME NEW n \in BatchSizes, Batch(n) PROVE Inv'
    BY <2>3, BatchInv
  <2>4. CASE UNCHANGED vars
    BY <2>4 DEF Inv, TypeOK, LiveSlotsWritten, vars
  <2> QED BY <2>1, <2>2, <2>3, <2>4 DEF Next
<1> QED BY <1>1, <1>2, PTL DEF Spec

(* Whatever the sizes, the indices of a Buffer stay inside its array, and  *)
(* Batch returns metrics, never nil.                                       *)
THEOREM IndicesStayInside == Spec => []TypeOK
<1>1. Inv => TypeOK
  BY DEF Inv
<1> QED BY <1>1, InvAlways, PTL

(* Every slot that Len counts was written by push.                         *)
THEOREM SlotsAreWritten == Spec => []LiveSlotsWritten
<1>1. Inv => LiveSlotsWritten
  BY DEF Inv
<1> QED BY <1>1, InvAlways, PTL

(* Batch hands out the oldest metrics in order, for every size of the      *)
(* buffer and of the batch, wrapped or not.                                *)
THEOREM BatchesAreOldest == Spec => BatchIsPrefix
<1>1. Inv /\ [Next]_vars =>
        [\A n \in BatchSizes : Batch(n) =>
           batch' = SubSeq(Contents(ring), 1, min(n, BufLen(ring)))]_vars
  <2> SUFFICES ASSUME Inv, NEW n \in BatchSizes, Batch(n)
               PROVE  batch' = SubSeq(Contents(ring), 1, min(n, BufLen(ring)))
    OBVIOUS
  <2>1. /\ ring \in BufferOf(Size) /\ n \in Nat
        /\ Contents(ring) \in Seq(Metric)
    BY SizeAssumption, BatchAssumption, ContentsSeq DEF Inv, TypeOK, LiveSlotsWritten
  <2>2. /\ BufLen(ring) \in Nat /\ OutLen(ring, n) \in 0 .. BufLen(ring)
        /\ batch' = [k \in 1 .. OutLen(ring, n) |-> Contents(ring)[k]]
    <3>1. BufLen(ring) \in Nat
      BY <2>1, SizeAssumption, BufferFields, LenRange
    <3> QED BY <2>1, <3>1, SizeAssumption, BatchPrefix DEF Batch
  <2>3. OutLen(ring, n) = min(n, BufLen(ring))
    BY <2>1, <2>2 DEF OutLen, min
  <2>4. Len(Contents(ring)) = BufLen(ring)
    BY <2>2 DEF Contents
  <2> QED BY <2>1, <2>2, <2>3, <2>4
<1> QED BY <1>1, InvAlways, PTL DEF Spec, BatchIsPrefix

(* What Batch leaves is what it did not return, in order, short of at most *)
(* the one metric that a partial batch across the end of the array skips.  *)
THEOREM RestsAreSuffixes == Spec => RestIsSuffix
<1>1. Inv /\ [Next]_vars =>
        [\A n \in BatchSizes : Batch(n) =>
           \E skip \in {0, 1} :
             Contents(ring') = SubSeq(Contents(ring),
                                      Len(batch') + skip + 1, BufLen(ring))]_vars
  <2> SUFFICES ASSUME Inv, NEW n \in BatchSizes, Batch(n)
               PROVE  \E skip \in {0, 1} :
                        Contents(ring') = SubSeq(Contents(ring),
                                      Len(batch') + skip + 1, BufLen(ring))
    OBVIOUS
  <2> DEFINE o == OutLen(ring, n)
  <2>1. /\ ring \in BufferOf(Size) /\ n \in Nat
        /\ Contents(ring) \in Seq(Metric)
    BY SizeAssumption, BatchAssumption, ContentsSeq DEF Inv, TypeOK, LiveSlotsWritten
  <2>2. BufLen(ring) \in Nat
    BY <2>1, SizeAssumption, BufferFields, LenRange
  <2>3. o \in 0 .. BufLen(ring) /\ Len(batch') = o
    BY <2>1, <2>2, SizeAssumption, BatchPrefix DEF Batch
  <2>4. PICK skip \in {0, 1} :
           /\ BufLen(ring') = BufLen(ring) - o - skip
           /\ \A k \in 1 .. BufLen(ring') : Slot(ring', k) = Slot(ring, k + o + skip)
    BY <2>1, SizeAssumption, BatchSuffix DEF Batch
  <2>5. ring' \in BufferOf(Size) /\ ring'.buf = ring.buf
    BY <2>1, SizeAssumption, BatchTyped DEF Batch
  <2>6. BufLen(ring') \in Nat
    BY <2>5, SizeAssumption, BufferFields, LenRange
  <2> HIDE DEF o
  <2>7. Len(Contents(ring)) = BufLen(ring)
    BY <2>2 DEF Contents
  <2>8. \A k \in 1 .. BufLen(ring') :
          ring'.buf[Slot(ring', k)] = Contents(ring)[k + o + skip]
    BY <2>2, <2>3, <2>4, <2>5, <2>6 DEF Contents
  <2>9. Contents(ring') = [k \in 1 .. BufLen(ring') |-> Contents(ring)[k + o + skip]]
    BY <2>8 DEF Contents
  <2>10. SubSeq(Contents(ring), o + skip + 1, BufLen(ring))
           = [k \in 1 .. BufLen(ring') |-> Contents(ring)[k + o + skip]]
    BY <2>1, <2>2, <2>3, <2>4, <2>6, <2>7
  <2> QED BY <2>3, <2>9, <2>10
<1> QED BY <1>1, InvAlways, PTL DEF Spec, RestIsSuffix

-----------------------------------------------------------------------------
(* Every step keeps the counters in balance while batches are whole.       *)
LEMMA BalanceStep == Inv /\ Balance /\ [Next]_vars => Balance'
<1> SUFFICES ASSUME Inv, Balance, [Next]_vars, whole'
             PROVE  written' = dropped' + taken' + BufLen(ring')
  BY DEF Balance
<1> USE SizeAssumption
<1>1. /\ ring \in BufferOf(Size) /\ written \in Nat /\ dropped \in Nat /\ taken \in Nat
      /\ adding \in Seq(Metric) /\ Words(ring, Size)
  BY BufferFields DEF Inv, TypeOK
<1>2. BufLen(ring) \in 0 .. Size /\ (Overwrites(ring) <=> BufLen(ring) = Size)
  BY <1>1, LenRange, OverwritesWhenFull
<1>3. ASSUME NEW k \in 1 .. MaxAdd, NEW ms \in [1 .. k -> Metric], Add(ms)
      PROVE  written' = dropped' + taken' + BufLen(ring')
  BY <1>3 DEF Add, Balance
<1>4. CASE PushNext
  <2>1. Head(adding) \in Metric
    BY <1>1, <1>4 DEF PushNext
  <2>2. BufLen(ring') = IF BufLen(ring) = Size THEN Size ELSE BufLen(ring) + 1
    BY <1>1, <1>4, <2>1, PushLen DEF PushNext
  <2>3. /\ written' = written + 1 /\ taken' = taken /\ whole
        /\ dropped' = IF Overwrites(ring) THEN dropped + 1 ELSE dropped
    BY <1>4 DEF PushNext
  <2> QED BY <1>1, <1>2, <2>2, <2>3 DEF Balance
<1>5. ASSUME NEW n \in BatchSizes, Batch(n)
      PROVE  written' = dropped' + taken' + BufLen(ring')
  <2>1. whole /\ n \in Nat /\ n >= BufLen(ring)
    <3>1. whole /\ n >= Size
      BY <1>5, Zenon DEF Batch
    <3> QED BY <1>2, <3>1, BatchAssumption
  <2>2. batch' = Contents(ring) /\ BufLen(ring') = 0
    BY <1>1, <1>5, <2>1, BatchWhole DEF Batch
  <2>3. Len(batch') = BufLen(ring)
    BY <1>2, <2>2 DEF Contents
  <2> QED BY <1>1, <1>2, <1>5, <2>1, <2>2, <2>3 DEF Balance, Batch
<1>6. CASE UNCHANGED vars
  BY <1>6 DEF Balance, vars
<1> QED BY <1>3, <1>4, <1>5, <1>6 DEF Next

(* As long as every caller asked for the whole buffer, as for              *)
(* RunningOutput.metrics, the counters account for every metric added.     *)
THEOREM CountersBalance == Spec => []Balance
<1>1. Init => Balance
  BY DEF Init, Balance, NewBuffer, BufLen, LenOf
<1>2. Inv /\ Balance /\ [Next]_vars => Balance'
  BY BalanceStep
<1> QED BY <1>1, <1>2, InvAlways, PTL DEF Spec

(* Every step of the buffer is a step of the queue, or none, while batches *)
(* are whole.                                                              *)
LEMMA QueueStep == Inv /\ [Next]_vars => [whole' => Queue!Next]_Queue!vars
<1> SUFFICES ASSUME Inv, [Next]_vars, whole'
             PROVE  [Queue!Next]_Queue!vars
  OBVIOUS
<1> USE SizeAssumption
<1>1. /\ ring \in BufferOf(Size) /\ adding \in Seq(Metric) /\ Words(ring, Size)
      /\ Contents(ring) \in Seq(Metric)
  BY BufferFields, ContentsSeq DEF Inv, TypeOK, LiveSlotsWritten
<1>2. /\ BufLen(ring) \in 0 .. Size
      /\ Overwrites(ring) <=> BufLen(ring) = Size
      /\ Len(Contents(ring)) = BufLen(ring)
  BY <1>1, LenRange, OverwritesWhenFull DEF Contents
<1>3. ASSUME NEW k \in 1 .. MaxAdd, NEW ms \in [1 .. k -> Metric], Add(ms)
      PROVE  UNCHANGED Queue!vars
  BY <1>3 DEF Add, Queue!vars
<1>4. CASE PushNext
  <2>1. Head(adding) \in Metric
    BY <1>1, <1>4 DEF PushNext
  <2>2. Contents(ring') = IF BufLen(ring) = Size
                          THEN Append(Tail(Contents(ring)), Head(adding))
                          ELSE Append(Contents(ring), Head(adding))
    BY <1>1, <1>4, <2>1, PushContents DEF PushNext
  <2>3. batch' = batch /\ dropped' = IF Overwrites(ring) THEN dropped + 1 ELSE dropped
    BY <1>4 DEF PushNext
  <2>4. Queue!Put(Head(adding))
    BY <1>2, <2>2, <2>3 DEF Queue!Put
  <2> QED BY <2>1, <2>4 DEF Queue!Next
<1>5. ASSUME NEW n \in BatchSizes, Batch(n) PROVE Queue!Take(n)
  <2>1. n \in Nat /\ n >= BufLen(ring)
    <3>1. n >= Size
      BY <1>5, Zenon DEF Batch
    <3> QED BY <1>2, <3>1, BatchAssumption
  <2>2. batch' = Contents(ring) /\ BufLen(ring') = 0
    BY <1>1, <1>5, <2>1, BatchWhole DEF Batch
  <2>3. Contents(ring') = <<>>
    BY <2>2 DEF Contents
  <2>4. dropped' = dropped
    BY <1>5 DEF Batch
  <2>5. SubSeq(Contents(ring), 1, Len(Contents(ring))) = Contents(ring)
    BY <1>1
  <2>6. SubSeq(Contents(ring), Len(Contents(ring)) + 1, Len(Contents(ring))) = <<>>
    BY <1>1
  <2>7. (IF n < Len(Contents(ring)) THEN n ELSE Len(Contents(ring))) = Len(Contents(ring))
    BY <1>2, <2>1
  <2> QED BY <2>2, <2>3, <2>4, <2>5, <2>6, <2>7 DEF Queue!Take
<1>6. CASE UNCHANGED vars
  BY <1>6 DEF vars, Queue!vars
<1> QED BY <1>3, <1>4, <1>5, <1>6 DEF Next, Queue!Next

(* As long as every caller asks for the whole buffer, the ring implements  *)
(* the bounded queue that drops its oldest metric.                         *)
THEOREM ImplementsQueue == Spec => QueueSpec
<1>1. Init => Queue!Init
  BY DEF Init, Queue!Init, NewBuffer, Contents, BufLen, LenOf
<1>2. Inv /\ [Next]_vars => [whole' => Queue!Next]_Queue!vars
  BY QueueStep
<1> QED BY <1>1, <1>2, InvAlways, PTL DEF Spec, QueueSpec
=============================================================================

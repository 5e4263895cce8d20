---------------------------- MODULE BufferLemmas ----------------------------
(***************************************************************************)
(* What the operators of Buffer do to the abstract value of a buffer, for  *)
(* every size and every batch size.                                        *)
(***************************************************************************)
EXTENDS Buffer, TLAPS

(* The successor of an index, without the modulo of the code.              *)
LEMMA AfterWraps ==
  ASSUME NEW size \in Nat \ {0}, NEW i \in 0 .. size - 1
  PROVE  After(i, size) = IF i + 1 = size THEN 0 ELSE i + 1
<1>1. CASE i + 1 = size
  BY <1>1 DEF After
<1>2. CASE i + 1 # size
  BY <1>2 DEF After
<1> QED BY <1>1, <1>2

(* The index words of a buffer of a given size.                            *)
Words(b, size) ==
  /\ b.first \in 0 .. size - 1
  /\ b.last \in 0 .. size - 1
  /\ b.size = size
  /\ b.empty \in BOOLEAN

(* The fields of a buffer of a given size.                                 *)
LEMMA BufferFields ==
  ASSUME NEW size \in Nat \ {0}, NEW b \in BufferOf(size)
  PROVE  /\ Words(b, size)
         /\ b.buf \in [0 .. size - 1 -> Metric \cup {Nil}]
  BY DEF BufferOf, Words

(* Len lies between 0 and the size, and is 0 for an empty buffer only.     *)
LEMMA LenRange ==
  ASSUME NEW size \in Nat \ {0}, NEW b, Words(b, size)
  PROVE  /\ BufLen(b) \in 0 .. size
         /\ b.empty <=> BufLen(b) = 0
  BY DEF BufLen, LenOf, Words

(* push drops the oldest metric exactly when the buffer is full.           *)
LEMMA OverwritesWhenFull ==
  ASSUME NEW size \in Nat \ {0}, NEW b, Words(b, size)
  PROVE  Overwrites(b) <=> BufLen(b) = size
<1>1. After(b.last, size) = IF b.last + 1 = size THEN 0 ELSE b.last + 1
  BY AfterWraps DEF Words
<1> QED BY <1>1 DEF BufLen, LenOf, Overwrites, Words

(* The words push leaves, with the wraps spelled out.                      *)
LEMMA PushFields ==
  ASSUME NEW size \in Nat \ {0}, NEW b \in BufferOf(size), NEW m \in Metric
  PROVE  /\ Push(b, m) \in BufferOf(size)
         /\ Words(Push(b, m), size)
         /\ ~ Push(b, m).empty
         /\ Push(b, m).last = IF b.empty THEN b.first
                              ELSE IF b.last + 1 = size THEN 0 ELSE b.last + 1
         /\ Push(b, m).first = IF ~ Overwrites(b) THEN b.first
                               ELSE IF b.first + 1 = size THEN 0 ELSE b.first + 1
         /\ Push(b, m).buf = [b.buf EXCEPT ![Push(b, m).last] = m]
<1>1. Words(b, size) /\ b.buf \in [0 .. size - 1 -> Metric \cup {Nil}]
  BY BufferFields
<1>2. /\ After(b.last, size) = IF b.last + 1 = size THEN 0 ELSE b.last + 1
      /\ After(b.first, size) = IF b.first + 1 = size THEN 0 ELSE b.first + 1
  BY <1>1, AfterWraps DEF Words
<1>3. Overwrites(b) => ~ b.empty
  BY DEF Overwrites
<1>4. (IF b.empty THEN b.first ELSE After(b.last, b.size)) \in 0 .. size - 1
  BY <1>1, <1>2 DEF Words
<1> QED BY <1>1, <1>2, <1>3, <1>4 DEF BufferOf, Words, Push

(* push adds one to the length of a buffer that is not full.               *)
LEMMA PushLen ==
  ASSUME NEW size \in Nat \ {0}, NEW b \in BufferOf(size), NEW m \in Metric
  PROVE  BufLen(Push(b, m)) = IF BufLen(b) = size THEN size ELSE BufLen(b) + 1
<1>1. Words(b, size) /\ Words(Push(b, m), size)
  BY BufferFields, PushFields
<1>2. /\ ~ Push(b, m).empty
      /\ Push(b, m).last = IF b.empty THEN b.first
                           ELSE IF b.last + 1 = size THEN 0 ELSE b.last + 1
      /\ Push(b, m).first = IF ~ Overwrites(b) THEN b.first
                            ELSE IF b.first + 1 = size THEN 0 ELSE b.first + 1
  BY PushFields
<1>3. Overwrites(b) <=> BufLen(b) = size
  BY <1>1, OverwritesWhenFull
<1> QED BY <1>1, <1>2, <1>3 DEF BufLen, LenOf, Words

(* push appends, and drops the oldest metric of a full buffer.             *)
LEMMA PushContents ==
  ASSUME NEW size \in Nat \ {0}, NEW b \in BufferOf(size), NEW m \in Metric
  PROVE  Contents(Push(b, m)) = IF BufLen(b) = size
                                THEN Append(Tail(Contents(b)), m)
                                ELSE Append(Contents(b), m)
<1> DEFINE c == Push(b, m)
           n == BufLen(b)
<1>1. /\ Words(b, size) /\ Words(c, size)
      /\ n \in 0 .. size
      /\ n = IF b.empty THEN 0
             ELSE IF b.first <= b.last THEN b.last - b.first + 1
             ELSE size - (b.first - b.last - 1)
  BY BufferFields, PushFields, LenRange DEF BufLen, LenOf, Words
<1>2. /\ c.last = IF b.empty THEN b.first
                  ELSE IF b.last + 1 = size THEN 0 ELSE b.last + 1
      /\ c.first = IF n # size THEN b.first
                   ELSE IF b.first + 1 = size THEN 0 ELSE b.first + 1
      /\ BufLen(c) = IF n = size THEN size ELSE n + 1
  <2>1. Overwrites(b) <=> n = size
    BY <1>1, OverwritesWhenFull
  <2> HIDE DEF n
  <2> QED BY <2>1, PushFields, PushLen DEF n
<1>3. b.buf \in [0 .. size - 1 -> Metric \cup {Nil}] /\ c.buf = [b.buf EXCEPT ![c.last] = m]
  BY BufferFields, PushFields
<1> HIDE DEF c, n
<1>4. CASE n # size
  <2>1. Slot(c, n + 1) = c.last
    BY <1>1, <1>2, <1>4 DEF Slot, Words
  <2>2. ASSUME NEW k \in 1 .. n
        PROVE  Slot(c, k) = Slot(b, k) /\ Slot(b, k) # c.last /\ Slot(b, k) \in 0 .. size - 1
    <3>1. ~ b.empty
      BY <1>1
    <3>2. CASE b.first <= b.last
      BY <1>1, <1>2, <1>4, <3>1, <3>2 DEF Slot, Words
    <3>3. CASE b.first > b.last
      BY <1>1, <1>2, <1>4, <3>1, <3>3 DEF Slot, Words
    <3> QED BY <3>2, <3>3, <1>1 DEF Words
  <2>3. c.last \in 0 .. size - 1
    BY <1>1 DEF Words
  <2>4. c.buf[c.last] = m /\ \A k \in 1 .. n : c.buf[Slot(c, k)] = b.buf[Slot(b, k)]
    BY <1>3, <2>2, <2>3
  <2> QED BY <1>1, <1>2, <1>4, <2>1, <2>4 DEF Contents, n, c
<1>5. CASE n = size
  <2>1. Slot(c, size) = c.last
    BY <1>1, <1>2, <1>5 DEF Slot, Words
  <2>2. ASSUME NEW k \in 1 .. size - 1
        PROVE  Slot(c, k) = Slot(b, k + 1) /\ Slot(c, k) # c.last /\ Slot(c, k) \in 0 .. size - 1
    BY <1>1, <1>2, <1>5 DEF Slot, Words
  <2>3. c.last \in 0 .. size - 1
    BY <1>1 DEF Words
  <2>4. c.buf[c.last] = m /\ \A k \in 1 .. size - 1 : c.buf[Slot(c, k)] = b.buf[Slot(b, k + 1)]
    BY <1>3, <2>2, <2>3
  <2> QED BY <1>1, <1>2, <1>5, <2>1, <2>4 DEF Contents, n, c
<1> QED BY <1>4, <1>5 DEF c, n

(* The indices Batch computes, without a wrap and with one.                *)
LEMMA BatchIndices ==
  ASSUME NEW size \in Nat \ {0}, NEW b, Words(b, size),
         NEW n \in Nat, OutLen(b, n) # 0
  PROVE  /\ OutLen(b, n) \in 1 .. BufLen(b)
         /\ b.first + OutLen(b, n) <= size =>
              /\ Copied(b, n) = OutLen(b, n)
              /\ LastRead(b, n) = b.first + OutLen(b, n) - 1
         /\ b.first + OutLen(b, n) > size =>
              /\ Copied(b, n) = size - b.first
              /\ LastRead(b, n) = Right(b, n)
              /\ Right(b, n) = min(b.last, OutLen(b, n) - (size - b.first))
         /\ LastRead(b, n) \in 0 .. size - 1
<1> DEFINE o == OutLen(b, n)
<1>1. BufLen(b) \in 0 .. size /\ o \in 1 .. BufLen(b)
  BY LenRange DEF OutLen, min
<1> HIDE DEF o
<1>2. CASE b.first + o <= size
  <2>1. RightInd(b, n) = b.first + o - 1
    BY <1>1, <1>2 DEF RightInd, min, Words, o
  <2>2. Copied(b, n) = o
    BY <1>1, <2>1 DEF Copied, Words
  <2>3. LastRead(b, n) = b.first + o - 1
    BY <1>1, <2>1, <2>2 DEF LastRead, Wraps, o
  <2> QED BY <1>1, <1>2, <2>2, <2>3 DEF o, Words
<1>3. CASE b.first + o > size
  <2>1. RightInd(b, n) = size - 1
    BY <1>1, <1>3 DEF RightInd, min, Words, o
  <2>2. Copied(b, n) = size - b.first
    BY <1>1, <2>1 DEF Copied, Words
  <2>3. LastRead(b, n) = Right(b, n)
    BY <1>1, <1>3, <2>1, <2>2 DEF LastRead, Wraps, o, Words
  <2>4. Right(b, n) = min(b.last, o - (size - b.first))
    BY <2>2 DEF Right, o
  <2>5. Right(b, n) \in 0 .. size - 1
    BY <1>1, <1>3, <2>4 DEF min, Words
  <2> QED BY <1>1, <1>3, <2>2, <2>3, <2>4, <2>5 DEF o, Words
<1> QED BY <1>1, <1>2, <1>3 DEF o, Words

(* Batch leaves a buffer of the same size and writes no slot.              *)
LEMMA BatchTyped ==
  ASSUME NEW size \in Nat \ {0}, NEW b \in BufferOf(size), NEW n \in Nat
  PROVE  BatchRest(b, n) \in BufferOf(size) /\ BatchRest(b, n).buf = b.buf
<1>1. Words(b, size) /\ b.buf \in [0 .. size - 1 -> Metric \cup {Nil}]
  BY BufferFields
<1>2. CASE OutLen(b, n) = 0
  BY <1>2 DEF BatchRest
<1>3. CASE OutLen(b, n) # 0
  <2>1. LastRead(b, n) \in 0 .. size - 1
    BY <1>1, <1>3, BatchIndices
  <2>2. After(LastRead(b, n), size) \in 0 .. size - 1
    BY <2>1, AfterWraps
  <2> QED BY <1>1, <1>3, <2>2 DEF BatchRest, BufferOf, Words
<1> QED BY <1>2, <1>3

(* Batch returns the oldest metrics, in order, for every batch size.       *)
LEMMA BatchPrefix ==
  ASSUME NEW size \in Nat \ {0}, NEW b \in BufferOf(size), NEW n \in Nat
  PROVE  /\ OutLen(b, n) \in 0 .. BufLen(b)
         /\ BatchOut(b, n) = [k \in 1 .. OutLen(b, n) |-> Contents(b)[k]]
<1> DEFINE o == OutLen(b, n)
<1>1. Words(b, size)
  BY BufferFields
<1>2. BufLen(b) \in 0 .. size /\ o \in 0 .. BufLen(b)
  BY <1>1, LenRange DEF OutLen, min
<1> HIDE DEF o
<1>3. ASSUME NEW k \in 1 .. o
      PROVE  (IF k <= Copied(b, n) THEN b.buf[b.first + k - 1]
              ELSE IF k - Copied(b, n) <= Right(b, n) + 1
                   THEN b.buf[k - Copied(b, n) - 1] ELSE Nil) = b.buf[Slot(b, k)]
  <2>1. o # 0
    BY <1>2
  <2>2. CASE b.first + o <= size
    <3>1. Copied(b, n) = o
      BY <1>1, <2>1, <2>2, BatchIndices DEF o
    <3>2. Slot(b, k) = b.first + k - 1
      BY <1>1, <1>2, <2>2 DEF Slot, Words
    <3> QED BY <1>2, <3>1, <3>2
  <2>3. CASE b.first + o > size
    <3>1. Copied(b, n) = size - b.first /\ Right(b, n) = min(b.last, o - (size - b.first))
      BY <1>1, <2>1, <2>3, BatchIndices DEF o
    <3>2. o - (size - b.first) <= b.last + 1
      BY <1>1, <1>2, <2>1, <2>3 DEF BufLen, LenOf, Words
    <3>3. CASE k <= size - b.first
      <4>1. Slot(b, k) = b.first + k - 1
        BY <1>1, <1>2, <3>3 DEF Slot, Words
      <4> QED BY <3>1, <3>3, <4>1
    <3>4. CASE k > size - b.first
      <4>1. Slot(b, k) = k - (size - b.first) - 1
        BY <1>1, <1>2, <3>4 DEF Slot, Words
      <4>2. k - (size - b.first) <= Right(b, n) + 1
        BY <1>1, <1>2, <3>1, <3>2, <3>4 DEF min, Words
      <4>3. ~ (k <= Copied(b, n))
        BY <1>1, <1>2, <3>1, <3>4 DEF Words
      <4> QED BY <3>1, <4>1, <4>2, <4>3
    <3> QED BY <1>1, <1>2, <3>3, <3>4 DEF Words
  <2> QED BY <1>1, <1>2, <2>2, <2>3 DEF Words
<1>4. \A k \in 1 .. o : Contents(b)[k] = b.buf[Slot(b, k)]
  BY <1>2 DEF Contents
<1>5. BatchOut(b, n) = [k \in 1 .. o |-> Contents(b)[k]]
  BY <1>3, <1>4 DEF BatchOut, o
<1> QED BY <1>2, <1>5 DEF o

(* A batch at least as long as the buffer is all of it, and empties it.    *)
LEMMA BatchWhole ==
  ASSUME NEW size \in Nat \ {0}, NEW b \in BufferOf(size),
         NEW n \in Nat, n >= BufLen(b)
  PROVE  /\ BatchOut(b, n) = Contents(b)
         /\ BufLen(BatchRest(b, n)) = 0
<1>1. Words(b, size)
  BY BufferFields
<1>2. OutLen(b, n) = BufLen(b) /\ BufLen(b) \in 0 .. size
  BY <1>1, LenRange DEF OutLen, min
<1>3. BatchOut(b, n) = Contents(b)
  <2>1. BatchOut(b, n) = [k \in 1 .. BufLen(b) |-> Contents(b)[k]]
    BY <1>2, BatchPrefix
  <2>2. Contents(b) = [k \in 1 .. BufLen(b) |-> Contents(b)[k]]
    BY DEF Contents
  <2> QED BY <2>1, <2>2
<1>4. CASE BufLen(b) = 0
  <2>1. OutLen(b, n) = 0
    BY <1>2, <1>4
  <2>2. BatchRest(b, n) = b
    BY <2>1 DEF BatchRest
  <2> QED BY <1>3, <1>4, <2>2
<1>5. CASE BufLen(b) # 0
  <2>1. LastRead(b, n) = b.last
    BY <1>1, <1>2, <1>5, BatchIndices DEF min, BufLen, LenOf, Words
  <2>2. BatchRest(b, n).empty
    BY <1>2, <1>5, <2>1 DEF BatchRest
  <2>3. ASSUME NEW c, c.empty PROVE BufLen(c) = 0
    BY <2>3 DEF BufLen, LenOf
  <2> QED BY <1>3, <2>2, <2>3
<1> QED BY <1>3, <1>4, <1>5

(* What Batch leaves is a suffix of what it did not return: all of it, or  *)
(* all but the oldest metric.                                              *)
LEMMA BatchSuffix ==
  ASSUME NEW size \in Nat \ {0}, NEW b \in BufferOf(size), NEW n \in Nat
  PROVE  \E skip \in {0, 1} :
           /\ BufLen(BatchRest(b, n)) = BufLen(b) - OutLen(b, n) - skip
           /\ \A k \in 1 .. BufLen(BatchRest(b, n)) :
                Slot(BatchRest(b, n), k) = Slot(b, k + OutLen(b, n) + skip)
<1> DEFINE o == OutLen(b, n)
           c == BatchRest(b, n)
<1>1. Words(b, size) /\ Words(c, size)
  BY BufferFields, BatchTyped
<1>2. BufLen(b) \in 0 .. size /\ o \in 0 .. BufLen(b) /\ BufLen(c) \in 0 .. size
  BY <1>1, LenRange, BatchPrefix
<1>3. CASE o = 0
  <2>1. c = b
    BY <1>3 DEF BatchRest
  <2> QED BY <1>2, <1>3, <2>1
<1>4. CASE o # 0
  <2>1. /\ c.first = After(LastRead(b, n), size)
        /\ c.last = b.last
        /\ c.empty <=> LastRead(b, n) = b.last
    BY <1>1, <1>4 DEF BatchRest, Words
  <2>2. /\ LastRead(b, n) \in 0 .. size - 1
        /\ b.first + o <= size => LastRead(b, n) = b.first + o - 1
        /\ b.first + o > size => LastRead(b, n) = min(b.last, o - (size - b.first))
    BY <1>1, <1>4, BatchIndices
  <2>3. c.first = IF LastRead(b, n) + 1 = size THEN 0 ELSE LastRead(b, n) + 1
    BY <2>1, <2>2, AfterWraps
  <2>4. BufLen(b) = IF b.first <= b.last THEN b.last - b.first + 1
                    ELSE size - (b.first - b.last - 1)
    BY <1>1, <1>2, <1>4 DEF BufLen, LenOf, Words
  <2>5. BufLen(c) = IF LastRead(b, n) = b.last THEN 0
                    ELSE IF c.first <= c.last THEN c.last - c.first + 1
                    ELSE size - (c.first - c.last - 1)
    BY <1>1, <2>1 DEF BufLen, LenOf, Words
  <2> HIDE DEF o, c
  <2>6. CASE b.first + o <= size
    <3>1. BufLen(c) = BufLen(b) - o
      <4>1. /\ c.last = b.last /\ LastRead(b, n) = b.first + o - 1
            /\ b.first \in 0 .. size - 1 /\ b.last \in 0 .. size - 1
            /\ o \in 1 .. size
        BY <1>1, <1>2, <1>4, <2>1, <2>2, <2>6 DEF Words
      <4>2. CASE b.first <= b.last
        <5>1. BufLen(b) = b.last - b.first + 1 /\ LastRead(b, n) <= b.last
          BY <1>2, <2>4, <4>1, <4>2
        <5>2. CASE LastRead(b, n) = b.last
          BY <2>5, <4>1, <5>1, <5>2
        <5>3. CASE LastRead(b, n) < b.last
          <6>1. c.first = b.first + o /\ c.first <= c.last
            BY <2>3, <4>1, <5>3
          <6> QED BY <2>5, <4>1, <5>1, <5>3, <6>1
        <5> QED BY <4>1, <5>1, <5>2, <5>3
      <4>3. CASE b.first > b.last
        BY <1>2, <2>3, <2>4, <2>5, <2>6, <4>1, <4>3
      <4> QED BY <4>1, <4>2, <4>3
    <3>2. ASSUME NEW k \in 1 .. BufLen(c)
          PROVE  Slot(c, k) = Slot(b, k + o)
      BY <1>1, <1>2, <1>4, <2>2, <2>3, <2>6, <3>1 DEF Slot, Words
    <3> QED BY <1>2, <3>1, <3>2 DEF c, o
  <2>7. CASE b.first + o > size /\ b.last < o - (size - b.first)
    <3>1. LastRead(b, n) = b.last /\ BufLen(c) = 0 /\ BufLen(b) = o
      BY <1>1, <1>2, <1>4, <2>2, <2>4, <2>5, <2>7 DEF min, Words
    <3> QED BY <1>2, <3>1 DEF c, o
  <2>8. CASE b.first + o > size /\ b.last >= o - (size - b.first)
    <3>1. LastRead(b, n) = o - (size - b.first) /\ b.first > b.last
      BY <1>1, <1>2, <1>4, <2>2, <2>4, <2>8 DEF min, Words
    <3>2. BufLen(c) = BufLen(b) - o - 1
      BY <1>1, <1>2, <1>4, <2>1, <2>3, <2>4, <2>5, <2>8, <3>1 DEF Words
    <3>3. ASSUME NEW k \in 1 .. BufLen(c)
          PROVE  Slot(c, k) = Slot(b, k + o + 1)
      BY <1>1, <1>2, <1>4, <2>3, <2>4, <2>8, <3>1, <3>2 DEF Slot, Words
    <3> QED BY <1>2, <3>2, <3>3 DEF c, o
  <2> QED BY <1>1, <1>2, <2>6, <2>7, <2>8 DEF Words
<1> QED BY <1>2, <1>3, <1>4

(* A buffer whose live slots were all written holds a sequence of metrics. *)
LEMMA ContentsSeq ==
  ASSUME NEW size \in Nat \ {0}, NEW b \in BufferOf(size)
  PROVE  (\A k \in 1 .. BufLen(b) : Contents(b)[k] \in Metric)
           <=> Contents(b) \in Seq(Metric)
<1>1. BufLen(b) \in Nat
  BY BufferFields, LenRange
<1>2. Contents(b) = [k \in 1 .. BufLen(b) |-> Contents(b)[k]]
  BY DEF Contents
<1>3. ASSUME Contents(b) \in Seq(Metric) PROVE \A k \in 1 .. BufLen(b) : Contents(b)[k] \in Metric
  BY <1>1, <1>2, <1>3
<1>4. ASSUME \A k \in 1 .. BufLen(b) : Contents(b)[k] \in Metric PROVE Contents(b) \in Seq(Metric)
  BY <1>1, <1>2, <1>4
<1> QED BY <1>3, <1>4
=============================================================================

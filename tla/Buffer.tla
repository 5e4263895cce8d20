------------------------------- MODULE Buffer -------------------------------
(***************************************************************************)
(* The circular buffer of internal/buffer/buffer.go, as operators on the   *)
(* value of one Buffer object.  The object's mutex makes push and Batch    *)
(* atomic for one another; who holds it is the business of the modules     *)
(* that own a buffer.  Len and IsEmpty take no lock: LenOf is stated over  *)
(* the three words Len reads, so that an owner can read them one by one.   *)
(***************************************************************************)
EXTENDS Naturals, Sequences

CONSTANTS Metric,   \* the metrics that may be stored
          Nil       \* a slot of the backing array never written

ASSUME NilAssumption == Nil \notin Metric

(* The buffers of a given size, whatever their indices.                    *)
BufferOf(size) ==
  [buf   : [0 .. size - 1 -> Metric \cup {Nil}],
   first : 0 .. size - 1,
   last  : 0 .. size - 1,
   size  : {size},
   empty : BOOLEAN]

NewBuffer(size) ==
  [buf   |-> [i \in 0 .. size - 1 |-> Nil],
   first |-> 0,
   last  |-> 0,
   size  |-> size,
   empty |-> TRUE]

min(a, b) == IF b < a THEN b ELSE a

IsEmpty(b) == b.empty

(* Len, over the values it found in empty, first and last.                 *)
LenOf(empty, first, last, size) ==
  IF empty THEN 0
  ELSE IF first <= last THEN last - first + 1
  ELSE size - (first - last - 1)

BufLen(b) == LenOf(b.empty, b.first, b.last, b.size)

(* The slot after i, with the wrap of "++ ; %= size".                      *)
After(i, size) == (i + 1) % size

(* push will overwrite the oldest metric, and count it as dropped.         *)
Overwrites(b) == ~ b.empty /\ After(b.last, b.size) = b.first

Overwritten(b) == IF Overwrites(b) THEN {b.buf[b.first]} ELSE {}

(* Mutant: an empty buffer is filled from the slot after last.             *)
Push_noReset(b, m) ==
  [buf   |-> [b.buf EXCEPT ![After(b.last, b.size)] = m],
   first |-> IF Overwrites(b) THEN After(b.first, b.size) ELSE b.first,
   last  |-> After(b.last, b.size),
   size  |-> b.size,
   empty |-> FALSE]

Push(b, m) ==
  LET last == IF b.empty THEN b.first ELSE After(b.last, b.size)
  IN  [buf   |-> [b.buf EXCEPT ![last] = m],
       first |-> IF Overwrites(b) THEN After(b.first, b.size) ELSE b.first,
       last  |-> last,
       size  |-> b.size,
       empty |-> FALSE]

(* The metrics Batch returns and the buffer it leaves.  copied is what the *)
(* first copy takes, up to the end of the array; right is the last index   *)
(* the second copy reads.                                                  *)
OutLen(b, n)   == min(BufLen(b), n)
RightInd(b, n) == min(b.size, b.first + OutLen(b, n)) - 1
Copied(b, n)   == RightInd(b, n) + 1 - b.first
Wraps(b, n)    == Copied(b, n) < OutLen(b, n)
Right(b, n)    == min(b.last, OutLen(b, n) - Copied(b, n))

(* Mutant: the second copy starts one slot late.                           *)
BatchOut_offByOne(b, n) ==
  [k \in 1 .. OutLen(b, n) |->
     IF k <= Copied(b, n) THEN b.buf[b.first + k - 1] ELSE b.buf[k - Copied(b, n)]]

BatchOut(b, n) ==
  [k \in 1 .. OutLen(b, n) |->
     IF k <= Copied(b, n)
     THEN b.buf[b.first + k - 1]
     ELSE IF k - Copied(b, n) <= Right(b, n) + 1
          THEN b.buf[k - Copied(b, n) - 1]
          ELSE Nil]

LastRead(b, n) == IF Wraps(b, n) THEN Right(b, n) ELSE RightInd(b, n)

(* Mutants: first runs past the array; the emptied ring is not marked.     *)
BatchRest_noWrap(b, n) ==
  IF OutLen(b, n) = 0 THEN b
  ELSE [b EXCEPT !.first = LastRead(b, n) + 1, !.empty = LastRead(b, n) = b.last]

BatchRest_staysFull(b, n) ==
  IF OutLen(b, n) = 0 THEN b
  ELSE [b EXCEPT !.first = After(LastRead(b, n), b.size)]

BatchRest(b, n) ==
  IF OutLen(b, n) = 0 THEN b
  ELSE [buf   |-> b.buf,
        first |-> After(LastRead(b, n), b.size),
        last  |-> b.last,
        size  |-> b.size,
        empty |-> LastRead(b, n) = b.last]

(* The slot of the k-th oldest metric, and what the buffer holds, oldest   *)
(* first: the abstract value of a Buffer.                                  *)
Slot(b, k) ==
  IF b.first + k - 1 < b.size THEN b.first + k - 1 ELSE b.first + k - 1 - b.size

Contents(b) == [k \in 1 .. BufLen(b) |-> b.buf[Slot(b, k)]]
=============================================================================

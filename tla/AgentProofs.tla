---------------------------- MODULE AgentProofs -----------------------------
(***************************************************************************)
(* Theorems about Agent, for any inputs, number of outputs, capacity of    *)
(* the channels and configuration.                                         *)
(***************************************************************************)
EXTENDS Agent, TLAPS

Wheres == {"select", "range", "agg", "out", "push", "add", "write", "idle",
           "sleep", "flush", "loop", "wait", "starting", "stop", "returned"} \cup Ended

(* What the argument needs of the types.                                   *)
Typed ==
  /\ pc \in [Goroutines -> Wheres]
  /\ chan \in [Channels -> Seq(Nat)]
  /\ work \in [Pipeline -> Nat]
  /\ gathered \in Nat /\ pushed \in Nat
  /\ at \in Outputs
  /\ held \in [Outputs -> SUBSET Nat]
  /\ written \in [Outputs -> SUBSET Nat]
  /\ hand \in [Writers -> [Outputs -> SUBSET Nat]]
  /\ flush \in [Writers -> [Outputs -> {"no", "take", "write", "done"}]]

(* The last flush begins after O has left, and O does not come back.       *)
OLeftFirst == pc["flusher"] \in {"flush", "gone"} => pc["O"] = "gone"

(* A flush that is about to take a batch has none in its hands: it had     *)
(* none when it began, and finished with what it took since.               *)
HandsEmpty ==
  \A o \in Outputs :
    /\ flush["O"][o] = "no"
    /\ \A w \in {"T", "F"} : flush[w][o] \in {"take", "done"} => hand[w][o] = {}
    /\ pc["T"] \in {"idle", "sleep"} => flush["T"][o] = "no" /\ hand["T"][o] = {}
    /\ pc["flusher"] \in {"loop", "wait"} => flush["F"][o] = "no" /\ hand["F"][o] = {}

FlushInv == Typed /\ OLeftFirst /\ HandsEmpty

(* A step that leaves the outputs alone, keeps O out once it has left, and *)
(* lets a flush begin by its own steps only.                               *)
Apart ==
  /\ UNCHANGED <<held, written, hand, flush>>
  /\ pc'["T"] # pc["T"] => pc["T"] = "idle"
  /\ pc'["flusher"] # pc["flusher"] => pc["flusher"] = "loop" /\ pc'["flusher"] = "wait"
  /\ pc["O"] = "gone" => pc'["O"] = "gone"

(* Such a step preserves the invariant.                                    *)
LEMMA ApartFlushInv ==
  ASSUME FlushInv, Typed', Apart
  PROVE  FlushInv'
<1>1. OLeftFirst'
  BY DEF FlushInv, Apart, OLeftFirst
<1>2. HandsEmpty'
  BY DEF FlushInv, Apart, HandsEmpty
<1> QED BY <1>1, <1>2 DEF FlushInv

(* The first states satisfy the invariant.                                 *)
LEMMA InitFlushInv == Init => FlushInv
<1> SUFFICES ASSUME Init PROVE FlushInv
  OBVIOUS
<1>1. pc \in [Goroutines -> Wheres]
  BY DEF Init, Goroutines, Pipeline, Wheres, Ended
<1>a. pc["flusher"] = "loop"
  BY DEF Init, Goroutines, Pipeline
<1>2. chan \in [Channels -> Seq(Nat)] /\ work \in [Pipeline -> Nat]
  BY DEF Init
<1>3. held \in [Outputs -> SUBSET Nat] /\ written \in [Outputs -> SUBSET Nat]
  BY DEF Init
<1>4. /\ hand \in [Writers -> [Outputs -> SUBSET Nat]]
      /\ flush \in [Writers -> [Outputs -> {"no", "take", "write", "done"}]]
  <2>1. [o \in Outputs |-> {}] \in [Outputs -> SUBSET Nat]
    OBVIOUS
  <2>2. [o \in Outputs |-> "no"] \in [Outputs -> {"no", "take", "write", "done"}]
    OBVIOUS
  <2> QED BY <2>1, <2>2 DEF Init
<1>5. at \in Outputs /\ gathered \in Nat /\ pushed \in Nat
  BY CountsAssumption DEF Init, Outputs
<1>6. HandsEmpty
  BY DEF Init, HandsEmpty, Writers
<1> QED BY <1>1, <1>a, <1>2, <1>3, <1>4, <1>5, <1>6 DEF FlushInv, Typed,
           OLeftFirst

(* A channel of metrics stays one when it is received from or sent to.     *)
LEMMA Received ==
  ASSUME Typed, NEW c \in Channels, Ready(c)
  PROVE  /\ Head(chan[c]) \in Nat
         /\ Receive(c) => chan' \in [Channels -> Seq(Nat)]
<1>1. chan[c] \in Seq(Nat) /\ chan[c] # <<>>
  BY DEF Typed, Ready
<1>2. Head(chan[c]) \in Nat /\ Tail(chan[c]) \in Seq(Nat)
  BY <1>1
<1> QED BY <1>2 DEF Receive, Typed

(* Likewise for what is sent.                                              *)
LEMMA Sent ==
  ASSUME Typed, NEW c \in Channels, NEW m \in Nat, Send(c, m)
  PROVE  chan' \in [Channels -> Seq(Nat)]
<1>1. Append(chan[c], m) \in Seq(Nat)
  BY DEF Typed
<1> QED BY <1>1 DEF Send, Typed

(* The end of the process leaves no flush behind.                          *)
LEMMA EndsFlushInv ==
  ASSUME FlushInv, NEW how \in {"failed", "panicked"}, ProcessEnds(how)
  PROVE  FlushInv'
<1>1. Typed'
  <2>1. pc' \in [Goroutines -> Wheres]
    BY DEF ProcessEnds, Wheres, Ended
  <2>2. flush' \in [Writers -> [Outputs -> {"no", "take", "write", "done"}]]
    <3>1. [o \in Outputs |-> "no"] \in [Outputs -> {"no", "take", "write", "done"}]
      OBVIOUS
    <3> QED BY <3>1 DEF ProcessEnds
  <2> QED BY <2>1, <2>2 DEF ProcessEnds, FlushInv, Typed, count
<1>2. \A p \in Goroutines : pc'[p] = how
  BY DEF ProcessEnds, FlushInv, Typed
<1>3. \A w \in Writers, o \in Outputs : flush'[w][o] = "no"
  BY DEF ProcessEnds
<1> QED BY <1>1, <1>2, <1>3 DEF FlushInv, OLeftFirst, HandsEmpty, Goroutines,
           Pipeline, Writers

(* Closing shutdown, and metrics added by inputs, preserve it.             *)
LEMMA ShutdownFlushInv ==
  ASSUME FlushInv, Shutdown \/ AddFields
  PROVE  FlushInv'
<1>1. CASE Shutdown
  <2>1. Typed'
    BY <1>1 DEF Shutdown, FlushInv, Typed, Goroutines, Pipeline, Wheres, Ended,
       output, count
  <2>2. Apart
    BY <1>1 DEF Shutdown, Apart, FlushInv, Typed, Goroutines, Pipeline, output
  <2> QED BY <2>1, <2>2, ApartFlushInv
<1>2. CASE AddFields
  <2>1. Typed'
    <3>1. chan' \in [Channels -> Seq(Nat)] /\ gathered' \in Nat
      BY <1>2, Sent DEF AddFields, FlushInv, Typed, Channels
    <3> QED BY <1>2, <3>1 DEF AddFields, FlushInv, Typed, input, output
  <2>2. Apart
    BY <1>2 DEF AddFields, Apart, FlushInv, Typed, Goroutines, Pipeline,
       output
  <2> QED BY <2>1, <2>2, ApartFlushInv
<1> QED BY <1>1, <1>2 DEF Apart

(* Run preserves it, also when it ends the process.                        *)
LEMMA RunFlushInv ==
  ASSUME FlushInv, Run
  PROVE  FlushInv'
<1>1. CASE StartService
  <2>1. Typed'
    BY <1>1 DEF StartService, FlushInv, Typed, Goroutines, Pipeline, Wheres,
       Ended, output, count
  <2>2. Apart
    BY <1>1 DEF StartService, Apart, FlushInv, Typed, Goroutines, Pipeline,
       output
  <2> QED BY <2>1, <2>2, ApartFlushInv
<1>2. CASE StartFails
  BY <1>2, EndsFlushInv DEF StartFails
<1>3. CASE StartInputs
  <2>1. Typed'
    BY <1>3 DEF StartInputs, FlushInv, Typed, Goroutines, Pipeline, Wheres,
       Ended, output, count, Goto
  <2>2. Apart
    BY <1>3 DEF StartInputs, Apart, FlushInv, Typed, Goroutines, Pipeline,
       output, Goto
  <2> QED BY <2>1, <2>2, ApartFlushInv
<1>4. CASE RunCloses \/ RunReturns
  <2>1. Typed'
    BY <1>4 DEF RunCloses, RunReturns, FlushInv, Typed, Goroutines, Pipeline,
       Wheres, Ended, input, output, count, Goto
  <2>2. Apart
    BY <1>4 DEF RunCloses, RunReturns, Apart, FlushInv, Typed, Goroutines,
       Pipeline, output, Goto
  <2> QED BY <2>1, <2>2, ApartFlushInv
<1> QED BY <1>1, <1>2, <1>3, <1>4 DEF Run

(* The gatherers never touch the outputs.                                  *)
LEMMA GathererFlushInv ==
  ASSUME FlushInv, NEW i \in Inputs, Gatherer(i) \/ LeakedReturns(i)
  PROVE  FlushInv'
<1>1. Typed'
  BY DEF Gatherer, StartGather, GatherReturns, AbandonGather, NextInterval,
     GathererStops, LeakedReturns, FlushInv, Typed, output, count
<1>2. Apart
  BY DEF Gatherer, StartGather, GatherReturns, AbandonGather, NextInterval,
     GathererStops, LeakedReturns, Apart, output
<1> QED BY <1>1, <1>2, ApartFlushInv

(* Nor does P.                                                             *)
LEMMA PFlushInv ==
  ASSUME FlushInv, P
  PROVE  FlushInv'
<1>1. CASE PReceives
  <2>1. Typed'
    <3>1. chan' \in [Channels -> Seq(Nat)] /\ Head(chan["metricC"]) \in Nat
      BY <1>1, Received DEF PReceives, FlushInv, Channels
    <3> QED BY <1>1, <3>1 DEF PReceives, FlushInv, Typed, Holds, Goto,
              Goroutines, Pipeline, Wheres, output, count
  <2>2. Apart
    BY <1>1 DEF PReceives, Apart, FlushInv, Typed, Goroutines, Pipeline, Goto,
       output
  <2> QED BY <2>1, <2>2, ApartFlushInv
<1>2. CASE PAggregates
  <2>1. Typed'
    <3>1. chan' \in [Channels -> Seq(Nat)]
      <4>1. work["P"] \in Nat
        BY DEF FlushInv, Typed, Pipeline
      <4> QED BY <1>2, <4>1, Sent DEF PAggregates, FlushInv, Channels
    <3> QED BY <1>2, <3>1 DEF PAggregates, FlushInv, Typed, Holds, Goto,
              Goroutines, Pipeline, Wheres, output, count
  <2>2. Apart
    BY <1>2 DEF PAggregates, Apart, FlushInv, Typed, Goroutines, Pipeline,
       Goto, output
  <2> QED BY <2>1, <2>2, ApartFlushInv
<1>3. CASE PSends
  <2>1. Typed'
    <3>1. chan' \in [Channels -> Seq(Nat)]
      <4>1. work["P"] \in Nat
        BY DEF FlushInv, Typed, Pipeline
      <4> QED BY <1>3, <4>1, Sent DEF PSends, FlushInv, Channels
    <3> QED BY <1>3, <3>1 DEF PSends, FlushInv, Typed, Holds, Goto,
              Goroutines, Pipeline, Wheres, output, count
  <2>2. Apart
    BY <1>3 DEF PSends, Apart, FlushInv, Typed, Goroutines, Pipeline, Goto,
       output
  <2> QED BY <2>1, <2>2, ApartFlushInv
<1>4. CASE PStops
  <2>1. Typed'
    BY <1>4 DEF PStops, FlushInv, Typed, Goroutines, Pipeline, Wheres, Ended,
       Goto, Ready, output, count, Channels
  <2>2. Apart
    BY <1>4 DEF PStops, Apart, FlushInv, Typed, Goroutines, Pipeline, Goto,
       output
  <2> QED BY <2>1, <2>2, ApartFlushInv
<1> QED BY <1>1, <1>2, <1>3, <1>4 DEF P

(* Nor does G.                                                             *)
LEMMA GFlushInv ==
  ASSUME FlushInv, G
  PROVE  FlushInv'
<1>1. CASE GReceives
  <2>1. Typed'
    <3>1. chan' \in [Channels -> Seq(Nat)] /\ Head(chan["aggMetricC"]) \in Nat
      BY <1>1, Received DEF GReceives, FlushInv, Channels
    <3> QED BY <1>1, <3>1 DEF GReceives, FlushInv, Typed, Holds, Goto,
              Goroutines, Pipeline, Wheres, output, count
  <2>2. Apart
    BY <1>1 DEF GReceives, Apart, FlushInv, Typed, Goroutines, Pipeline, Goto,
       output
  <2> QED BY <2>1, <2>2, ApartFlushInv
<1>2. CASE GSends
  <2>1. Typed'
    <3>1. chan' \in [Channels -> Seq(Nat)]
      <4>1. work["G"] \in Nat
        BY DEF FlushInv, Typed, Pipeline
      <4> QED BY <1>2, <4>1, Sent DEF GSends, FlushInv, Channels
    <3> QED BY <1>2, <3>1 DEF GSends, FlushInv, Typed, Holds, Goto,
              Goroutines, Pipeline, Wheres, output, count
  <2>2. Apart
    BY <1>2 DEF GSends, Apart, FlushInv, Typed, Goroutines, Pipeline, Goto,
       output
  <2> QED BY <2>1, <2>2, ApartFlushInv
<1>3. CASE GStops
  <2>1. Typed'
    BY <1>3 DEF GStops, FlushInv, Typed, Goroutines, Pipeline, Wheres, Ended,
       Goto, Ready, output, count, Channels
  <2>2. Apart
    BY <1>3 DEF GStops, Apart, FlushInv, Typed, Goroutines, Pipeline, Goto,
       output
  <2> QED BY <2>1, <2>2, ApartFlushInv
<1> QED BY <1>1, <1>2, <1>3 DEF G

(* Nor does the aggregator, unless its panic ends the process.             *)
LEMMA AFlushInv ==
  ASSUME FlushInv, A
  PROVE  FlushInv'
<1>1. CASE AReceives
  <2>1. Typed'
    <3>1. chan' \in [Channels -> Seq(Nat)] /\ Head(chan["aggC"]) \in Nat
      BY <1>1, Received DEF AReceives, FlushInv, Channels
    <3> QED BY <1>1, <3>1 DEF AReceives, FlushInv, Typed, output, count
  <2>2. Apart
    BY <1>1 DEF AReceives, Apart, FlushInv, Typed, Goroutines, Pipeline,
       output
  <2> QED BY <2>1, <2>2, ApartFlushInv
<1>2. CASE ATicks
  <2>1. Typed'
    BY <1>2, CountsAssumption DEF ATicks, FlushInv, Typed, Goroutines,
       Pipeline, Wheres, Ended, Goto, Holds, output, Channels
  <2>2. Apart
    BY <1>2 DEF ATicks, Apart, FlushInv, Typed, Goroutines, Pipeline, Goto,
       output
  <2> QED BY <2>1, <2>2, ApartFlushInv
<1>3. CASE APushes
  <2>1. Typed'
    <3>1. chan' \in [Channels -> Seq(Nat)]
      <4>1. work["A"] \in Nat
        BY DEF FlushInv, Typed, Pipeline
      <4> QED BY <1>3, <4>1, Sent DEF APushes, FlushInv, Channels
    <3> QED BY <1>3, <3>1 DEF APushes, FlushInv, Typed, Holds, Goto,
              Goroutines, Pipeline, Wheres, output, count
  <2>2. Apart
    BY <1>3 DEF APushes, Apart, FlushInv, Typed, Goroutines, Pipeline, Goto,
       output
  <2> QED BY <2>1, <2>2, ApartFlushInv
<1>4. CASE APanics
  BY <1>4, EndsFlushInv DEF APanics
<1>5. CASE AStops
  <2>1. Typed'
    BY <1>5 DEF AStops, FlushInv, Typed, Goroutines, Pipeline, Wheres, Ended,
       Goto, Ready, output, count, Channels
  <2>2. Apart
    BY <1>5 DEF AStops, Apart, FlushInv, Typed, Goroutines, Pipeline, Goto,
       output
  <2> QED BY <2>1, <2>2, ApartFlushInv
<1> QED BY <1>1, <1>2, <1>3, <1>4, <1>5 DEF A

(* A step of O before it has left may move metrics about, but not those in *)
(* the hands of a flush.                                                   *)
LEMMA OWritesFlushInv ==
  ASSUME FlushInv, Typed', pc["O"] # "gone",
         UNCHANGED <<flush, pc["T"], pc["flusher"]>>,
         \A w \in {"T", "F"} : hand'[w] = hand[w]
  PROVE  FlushInv'
<1>1. pc["flusher"] \notin {"flush", "gone"}
  BY DEF FlushInv, OLeftFirst
<1>2. OLeftFirst'
  BY <1>1 DEF OLeftFirst
<1>3. HandsEmpty'
  BY DEF FlushInv, HandsEmpty
<1> QED BY <1>2, <1>3 DEF FlushInv

(* So O preserves the invariant.                                           *)
LEMMA OFlushInv ==
  ASSUME FlushInv, O
  PROVE  FlushInv'
<1> USE DEF FlushInv
<1>1. CASE OReceives
  <2>1. Typed'
    <3>2. chan' \in [Channels -> Seq(Nat)] /\ Head(chan["outMetricC"]) \in Nat
      BY <1>1, Received DEF OReceives, Channels
    <3>3. work' \in [Pipeline -> Nat]
      BY <1>1, <3>2 DEF OReceives, Holds, Typed
    <3>4. pc' \in [Goroutines -> Wheres]
      BY <1>1 DEF OReceives, Goto, Typed, Wheres
    <3>5. at' \in Outputs
      BY <1>1, CountsAssumption DEF OReceives, Outputs
    <3> QED BY <1>1, <3>2, <3>3, <3>4, <3>5 DEF OReceives, Typed, count
  <2>2. Apart
    BY <1>1 DEF OReceives, Apart, Typed, Goroutines, Pipeline, Goto
  <2> QED BY <2>1, <2>2, ApartFlushInv
<1>2. ASSUME OGoesOn, at \in Outputs, pc \in [Goroutines -> Wheres],
             work \in [Pipeline -> Nat]
      PROVE  /\ at' \in Outputs /\ pc' \in [Goroutines -> Wheres]
             /\ work' \in [Pipeline -> Nat]
             /\ UNCHANGED <<pc["T"], pc["flusher"]>>
  BY <1>2, CountsAssumption DEF OGoesOn, Goto, Holds, Outputs, Goroutines,
     Pipeline, Wheres, Ended
<1>3. CASE OAdds
  <2>0. /\ pc["O"] # "gone" /\ UNCHANGED <<chan, gathered, pushed, flush, written>>
        /\ at \in Outputs /\ pc \in [Goroutines -> Wheres]
        /\ work \in [Pipeline -> Nat] /\ work["O"] \in Nat
    BY <1>3 DEF OAdds, Typed, count, Pipeline
  <2>1. CASE /\ held' = [held EXCEPT ![at] = @ \cup {work["O"]}]
             /\ OGoesOn
             /\ UNCHANGED hand
    <3>1. held' \in [Outputs -> SUBSET Nat]
      BY <2>0, <2>1 DEF Typed
    <3>2. Typed'
      BY <2>0, <2>1, <1>2, <3>1 DEF Typed
    <3> QED BY <2>0, <2>1, <1>2, <3>2, OWritesFlushInv
  <2>2. ASSUME NEW rest \in SUBSET held[at],
               hand' = [hand EXCEPT !["O"][at] = rest \cup {work["O"]}],
               held' = [held EXCEPT ![at] = @ \ rest],
               Goto("O", "write"), UNCHANGED <<at, work>>
        PROVE  FlushInv'
    <3>1. held' \in [Outputs -> SUBSET Nat]
      BY <2>0, <2>2 DEF Typed
    <3>2. hand' \in [Writers -> [Outputs -> SUBSET Nat]]
      <4>1. rest \cup {work["O"]} \in SUBSET Nat
        BY <2>0 DEF Typed
      <4>2. [hand["O"] EXCEPT ![at] = rest \cup {work["O"]}] \in [Outputs -> SUBSET Nat]
        BY <4>1 DEF Typed, Writers
      <4> QED BY <2>2, <4>2 DEF Typed
    <3>3. \A w \in {"T", "F"} : hand'[w] = hand[w]
      BY <2>2 DEF Typed, Writers
    <3>4. pc' \in [Goroutines -> Wheres] /\ UNCHANGED <<pc["T"], pc["flusher"]>>
      BY <2>0, <2>2 DEF Goto, Goroutines, Pipeline, Wheres
    <3>5. Typed'
      BY <2>0, <2>2, <3>1, <3>2, <3>4 DEF Typed
    <3> QED BY <2>0, <3>3, <3>4, <3>5, OWritesFlushInv
  <2> QED BY <1>3, <2>1, <2>2 DEF OAdds
<1>4. CASE OWriteReturns
  <2>1. held' \in [Outputs -> SUBSET Nat] /\ written' \in [Outputs -> SUBSET Nat]
    <3>1. hand["O"][at] \subseteq Nat
      BY DEF Typed, Writers
    <3>2. CASE Took("O", at)
      BY <3>1, <3>2 DEF Typed, Took
    <3>3. CASE Refused("O", at)
      BY <3>1, <3>3 DEF Typed, Refused
    <3> QED BY <1>4, <3>2, <3>3 DEF OWriteReturns
  <2>2. hand' \in [Writers -> [Outputs -> SUBSET Nat]]
    <3>1. [hand["O"] EXCEPT ![at] = {}] \in [Outputs -> SUBSET Nat]
      BY DEF Typed, Writers
    <3> QED BY <1>4, <3>1 DEF OWriteReturns, Typed
  <2>3. /\ pc["O"] # "gone" /\ OGoesOn
        /\ UNCHANGED <<chan, gathered, pushed, flush>>
        /\ \A w \in {"T", "F"} : hand'[w] = hand[w]
    BY <1>4 DEF OWriteReturns, Typed, count, Writers
  <2>4. Typed'
    BY <2>1, <2>2, <2>3, <1>2 DEF Typed
  <2>5. UNCHANGED <<pc["T"], pc["flusher"]>>
    BY <2>3, <1>2 DEF Typed
  <2> QED BY <2>3, <2>4, <2>5, OWritesFlushInv
<1>5. CASE OStops
  <2>1. Typed'
    BY <1>5 DEF OStops, Typed, Goroutines, Pipeline, Wheres, Ended, Goto,
       input, output, count
  <2>2. Apart
    BY <1>5 DEF OStops, Apart, Typed, Goroutines, Pipeline, Goto, output
  <2> QED BY <2>1, <2>2, ApartFlushInv
<1> QED BY <1>1, <1>3, <1>4, <1>5 DEF O

(* What a step of a flush changes: the flush and its batch for one output. *)
LEMMA FlushStep ==
  ASSUME FlushInv, NEW w \in Writers, NEW o \in Outputs, Flush(w, o)
  PROVE  /\ w \in {"T", "F"} /\ UNCHANGED <<pc, chan, work, gathered, pushed, at>>
         /\ held' \in [Outputs -> SUBSET Nat] /\ written' \in [Outputs -> SUBSET Nat]
         /\ flush[w][o] \in {"take", "write"}
         /\ \E h \in SUBSET Nat, f \in {"write", "done"} :
              /\ hand' = [hand EXCEPT ![w][o] = h]
              /\ flush' = [flush EXCEPT ![w][o] = f]
              /\ f = "done" => h = {}
<1> USE DEF FlushInv
<1>1. flush[w][o] \in {"take", "write"}
  BY DEF Flush, FlushTakes, FlushSucceeds, FlushFails, Finish
<1>2. w \in {"T", "F"}
  BY <1>1 DEF HandsEmpty, Writers
<1>3. held[o] \in SUBSET Nat /\ hand[w][o] \in SUBSET Nat
  BY DEF Typed
<1>4. CASE FlushTakes(w, o)
  <2>1. held' \in [Outputs -> SUBSET Nat] /\ written' \in [Outputs -> SUBSET Nat]
    BY <1>4 DEF FlushTakes, Typed
  <2> QED BY <1>1, <1>2, <1>3, <1>4, <2>1 DEF FlushTakes, count
<1>5. CASE FlushSucceeds(w, o) \/ FlushFails(w, o)
  <2>1. CASE FlushSucceeds(w, o)
    <3>1. held' \in [Outputs -> SUBSET Nat] /\ written' \in [Outputs -> SUBSET Nat]
      BY <1>3, <2>1 DEF FlushSucceeds, Took, Typed
    <3> QED BY <1>1, <1>2, <2>1, <3>1 DEF FlushSucceeds, Finish, count
  <2>2. CASE FlushFails(w, o)
    <3>1. held' \in [Outputs -> SUBSET Nat] /\ written' \in [Outputs -> SUBSET Nat]
      BY <1>3, <2>2 DEF FlushFails, Refused, Typed
    <3> QED BY <1>1, <1>2, <2>2, <3>1 DEF FlushFails, Finish, count
  <2> QED BY <1>5, <2>1, <2>2
<1> QED BY <1>4, <1>5 DEF Flush

(* The steps of a flush preserve the invariant: a flush that is done with  *)
(* an output has nothing in its hands.                                     *)
LEMMA FlushFlushInv ==
  ASSUME FlushInv, NEW w \in Writers, NEW o \in Outputs, Flush(w, o)
  PROVE  FlushInv'
<1> USE DEF FlushInv
<1>1. PICK h \in SUBSET Nat, f \in {"write", "done"} :
             /\ hand' = [hand EXCEPT ![w][o] = h]
             /\ flush' = [flush EXCEPT ![w][o] = f]
             /\ f = "done" => h = {}
  BY FlushStep
<1>2. /\ w \in {"T", "F"} /\ UNCHANGED <<pc, chan, work, gathered, pushed, at>>
      /\ held' \in [Outputs -> SUBSET Nat] /\ written' \in [Outputs -> SUBSET Nat]
      /\ flush[w][o] # "no"
  BY FlushStep
<1>3. Typed'
  <2>1. [hand[w] EXCEPT ![o] = h] \in [Outputs -> SUBSET Nat]
    BY DEF Typed
  <2>2. [flush[w] EXCEPT ![o] = f] \in [Outputs -> {"no", "take", "write", "done"}]
    BY DEF Typed
  <2>3. hand' \in [Writers -> [Outputs -> SUBSET Nat]]
    BY <1>1, <2>1 DEF Typed
  <2>4. flush' \in [Writers -> [Outputs -> {"no", "take", "write", "done"}]]
    BY <1>1, <2>2 DEF Typed
  <2> QED BY <1>2, <2>3, <2>4 DEF Typed
<1>4. \A v \in Writers, x \in Outputs :
        /\ hand'[v][x]  = IF v = w /\ x = o THEN h ELSE hand[v][x]
        /\ flush'[v][x] = IF v = w /\ x = o THEN f ELSE flush[v][x]
  BY <1>1 DEF Typed
<1>5. OLeftFirst'
  BY <1>2 DEF OLeftFirst
<1>6. ASSUME NEW x \in Outputs
      PROVE  /\ flush'["O"][x] = "no"
             /\ \A v \in {"T", "F"} : flush'[v][x] \in {"take", "done"} => hand'[v][x] = {}
             /\ pc["T"] \in {"idle", "sleep"} =>
                  flush'["T"][x] = "no" /\ hand'["T"][x] = {}
             /\ pc["flusher"] \in {"loop", "wait"} =>
                  flush'["F"][x] = "no" /\ hand'["F"][x] = {}
  BY <1>1, <1>2, <1>4 DEF HandsEmpty, Writers
<1> QED BY <1>2, <1>3, <1>5, <1>6 DEF HandsEmpty

(* A flush begins and ends with empty hands.                               *)
LEMMA BoundaryFlushInv ==
  ASSUME FlushInv, NEW w \in {"T", "F"}, NEW s \in {"take", "no"},
         flush' = [flush EXCEPT ![w] = [o \in Outputs |-> s]],
         UNCHANGED <<chan, work, gathered, pushed, at, held, written, hand>>,
         pc' \in [Goroutines -> Wheres],
         \A o \in Outputs : hand[w][o] = {},
         w = "T" => /\ UNCHANGED <<pc["O"], pc["flusher"]>>
                    /\ pc'["T"] \in {"idle", "sleep"} => s = "no",
         w = "F" => /\ UNCHANGED <<pc["O"], pc["T"]>> /\ pc["O"] = "gone"
                    /\ pc'["flusher"] \in {"flush", "gone"}
  PROVE  FlushInv'
<1> USE DEF FlushInv
<1>1. Typed'
  <2>1. [o \in Outputs |-> s] \in [Outputs -> {"no", "take", "write", "done"}]
    OBVIOUS
  <2>2. flush' \in [Writers -> [Outputs -> {"no", "take", "write", "done"}]]
    BY <2>1 DEF Typed
  <2> QED BY <2>2 DEF Typed
<1>2. OLeftFirst'
  BY DEF OLeftFirst
<1>3. \A v \in Writers, x \in Outputs :
        flush'[v][x] = IF v = w THEN s ELSE flush[v][x]
  BY DEF Typed
<1>4. HandsEmpty'
  BY <1>3 DEF HandsEmpty, Writers
<1> QED BY <1>1, <1>2, <1>4

(* So the flusher preserves the invariant.                                 *)
LEMMA FlusherFlushInv ==
  ASSUME FlushInv, Flusher
  PROVE  FlushInv'
<1> USE DEF FlushInv
<1>1. CASE Tick
  <2>1. Typed'
    BY <1>1 DEF Tick, Typed, Goroutines, Pipeline, Wheres, Ended, Goto, output,
       count
  <2>2. Apart
    BY <1>1 DEF Tick, Apart, Typed, Goroutines, Pipeline, Goto, output
  <2> QED BY <2>1, <2>2, ApartFlushInv
<1>2. CASE TStarts
  <2>1. /\ pc' \in [Goroutines -> Wheres] /\ pc'["T"] = "flush"
        /\ UNCHANGED <<pc["O"], pc["flusher"]>>
    BY <1>2 DEF TStarts, Goto, Typed, Goroutines, Pipeline, Wheres
  <2>2. \A o \in Outputs : hand["T"][o] = {}
    BY <1>2 DEF TStarts, HandsEmpty
  <2> QED BY <1>2, <2>1, <2>2, BoundaryFlushInv DEF TStarts, StartFlush, count
<1>3. CASE TEnds
  <2>1. /\ pc' \in [Goroutines -> Wheres] /\ UNCHANGED <<pc["O"], pc["flusher"]>>
    BY <1>3 DEF TEnds, Goto, Typed, Goroutines, Pipeline, Wheres
  <2>2. \A o \in Outputs : hand["T"][o] = {}
    BY <1>3 DEF TEnds, FlushDone, HandsEmpty
  <2> QED BY <1>3, <2>1, <2>2, BoundaryFlushInv DEF TEnds, EndFlush, count
<1>4. CASE FlusherStops
  <2>1. Typed'
    BY <1>4 DEF FlusherStops, Typed, Goroutines, Pipeline, Wheres, Ended, Goto,
       output, count
  <2>2. Apart
    BY <1>4 DEF FlusherStops, Apart, Typed, Goroutines, Pipeline, Goto, output
  <2> QED BY <2>1, <2>2, ApartFlushInv
<1>5. CASE LastFlush
  <2>1. /\ pc' \in [Goroutines -> Wheres] /\ UNCHANGED <<pc["O"], pc["T"]>>
        /\ pc["O"] = "gone" /\ pc'["flusher"] = "flush"
    BY <1>5 DEF LastFlush, Goto, Typed, Goroutines, Pipeline, Wheres
  <2>2. \A o \in Outputs : hand["F"][o] = {}
    BY <1>5 DEF LastFlush, HandsEmpty
  <2> QED BY <1>5, <2>1, <2>2, BoundaryFlushInv DEF LastFlush, StartFlush,
             count
<1>6. CASE FlusherReturns
  <2>1. /\ pc' \in [Goroutines -> Wheres] /\ UNCHANGED <<pc["O"], pc["T"]>>
        /\ pc["O"] = "gone" /\ pc'["flusher"] = "gone"
    BY <1>6 DEF FlusherReturns, Goto, Typed, Goroutines, Pipeline, Wheres,
       Ended, OLeftFirst
  <2>2. \A o \in Outputs : hand["F"][o] = {}
    BY <1>6 DEF FlusherReturns, FlushDone, HandsEmpty
  <2> QED BY <1>6, <2>1, <2>2, BoundaryFlushInv DEF FlusherReturns, EndFlush,
             count
<1> QED BY <1>1, <1>2, <1>3, <1>4, <1>5, <1>6 DEF Flusher

(* Every step preserves the invariant, and it always holds.                *)
LEMMA NextFlushInv == FlushInv /\ [Next]_vars => FlushInv'
<1> SUFFICES ASSUME FlushInv, [Next]_vars
             PROVE  FlushInv'
  OBVIOUS
<1>1. CASE Run
  BY <1>1, RunFlushInv
<1>2. CASE Shutdown \/ AddFields
  BY <1>2, ShutdownFlushInv
<1>3. CASE P
  BY <1>3, PFlushInv
<1>4. CASE G
  BY <1>4, GFlushInv
<1>5. CASE A
  BY <1>5, AFlushInv
<1>6. CASE O
  BY <1>6, OFlushInv
<1>7. CASE Flusher
  BY <1>7, FlusherFlushInv
<1>8. CASE \E i \in Inputs : Gatherer(i) \/ LeakedReturns(i)
  BY <1>8, GathererFlushInv
<1>9. CASE \E w \in Writers, o \in Outputs : Flush(w, o)
  BY <1>9, FlushFlushInv
<1>10. CASE UNCHANGED vars
  BY <1>10 DEF vars, FlushInv, Typed, OLeftFirst, HandsEmpty
<1> QED BY <1>1, <1>2, <1>3, <1>4, <1>5, <1>6, <1>7, <1>8, <1>9, <1>10 DEF Next

(* The invariant holds in every state of every behaviour.                  *)
LEMMA FlushInvAlways == Spec => []FlushInv
BY InitFlushInv, NextFlushInv, PTL DEF Spec

(* A step that is neither O's nor a flush's leaves the outputs alone.      *)
LEMMA OthersLeaveOutputs ==
  ASSUME [Next]_vars, ~ O, \A w \in Writers, o \in Outputs : ~ Flush(w, o)
  PROVE  UNCHANGED <<held, hand, written>>
<1>1. CASE Run
  BY <1>1 DEF Run, StartService, StartFails, ProcessEnds, StartInputs,
     RunCloses, RunReturns, output
<1>2. CASE Shutdown \/ AddFields
  BY <1>2 DEF Shutdown, AddFields, output
<1>3. CASE P
  BY <1>3 DEF P, PReceives, PAggregates, PSends, PStops, output
<1>4. CASE G
  BY <1>4 DEF G, GReceives, GSends, GStops, output
<1>5. CASE A
  BY <1>5 DEF A, AReceives, ATicks, APushes, APanics, ProcessEnds, AStops,
     output
<1>6. CASE Flusher
  BY <1>6 DEF Flusher, Tick, TStarts, TEnds, FlusherStops, LastFlush,
     FlusherReturns, output
<1>7. CASE \E i \in Inputs : Gatherer(i) \/ LeakedReturns(i)
  BY <1>7 DEF Gatherer, StartGather, GatherReturns, AbandonGather,
     NextInterval,
              GathererStops, LeakedReturns, output
<1>8. CASE UNCHANGED vars
  BY <1>8 DEF vars
<1> QED BY <1>1, <1>2, <1>3, <1>4, <1>5, <1>6, <1>7, <1>8 DEF Next

(* A flush moves metrics between the buffers, a batch and what is written, *)
(* and neither adds to them nor loses one.                                 *)
LEMMA FlushKeepsReached ==
  ASSUME FlushInv, NEW w \in Writers, NEW o \in Outputs, Flush(w, o),
         NEW x \in Outputs
  PROVE  Reached(x)' = Reached(x)
<1> USE DEF FlushInv
<1>1. /\ held \in [Outputs -> SUBSET Nat] /\ written \in [Outputs -> SUBSET Nat]
      /\ hand \in [Writers -> [Outputs -> SUBSET Nat]]
  BY DEF Typed
<1>2. Reached(x) = held[x] \cup hand["O"][x] \cup hand["T"][x] \cup hand["F"][x]
                     \cup written[x]
  BY DEF Reached, InHand, Writers
<1>3. Reached(x)' = held'[x] \cup hand'["O"][x] \cup hand'["T"][x] \cup hand'["F"][x]
                      \cup written'[x]
  BY DEF Reached, InHand, Writers
<1>4. w \in {"T", "F"}
  BY FlushStep
<1>5. CASE FlushTakes(w, o)
  <2>1. hand[w][o] = {}
    BY <1>4, <1>5 DEF FlushTakes, HandsEmpty
  <2>2. \A v \in Writers, y \in Outputs :
          hand'[v][y] = IF v = w /\ y = o THEN held[o] ELSE hand[v][y]
    BY <1>1, <1>5 DEF FlushTakes
  <2>3. \A y \in Outputs : /\ held'[y] = IF y = o THEN {} ELSE held[y]
                           /\ written'[y] = written[y]
    BY <1>1, <1>5 DEF FlushTakes
  <2>4. CASE x = o
    BY <1>2, <1>3, <1>4, <2>1, <2>2, <2>3, <2>4 DEF Writers
  <2>5. CASE x # o
    BY <1>2, <1>3, <1>4, <2>2, <2>3, <2>5 DEF Writers
  <2> QED BY <2>4, <2>5
<1>6. CASE FlushSucceeds(w, o) \/ FlushFails(w, o)
  <2>1. \A v \in Writers, y \in Outputs :
          hand'[v][y] = IF v = w /\ y = o THEN {} ELSE hand[v][y]
    <3>1. hand' = [hand EXCEPT ![w][o] = {}]
      BY <1>6 DEF FlushSucceeds, FlushFails, Finish
    <3> QED BY <1>1, <3>1
  <2>2. \/ \A y \in Outputs :
             /\ written'[y] = IF y = o THEN written[o] \cup hand[w][o] ELSE written[y]
             /\ held'[y] = held[y]
        \/ \A y \in Outputs :
             /\ held'[y] = IF y = o THEN held[o] \cup hand[w][o] ELSE held[y]
             /\ written'[y] = written[y]
    BY <1>1, <1>6 DEF FlushSucceeds, FlushFails, Took, Refused
  <2>3. CASE x = o
    BY <1>2, <1>3, <1>4, <2>1, <2>2, <2>3 DEF Writers
  <2>4. CASE x # o
    BY <1>2, <1>3, <1>4, <2>1, <2>2, <2>4 DEF Writers
  <2> QED BY <2>3, <2>4
<1> QED BY <1>5, <1>6 DEF Flush

(* The last flush is the last: once the flusher has begun it, no step adds *)
(* a metric to an output or takes one from it for nothing.  O, the only    *)
(* goroutine that adds any, is gone by then, and a flush that takes a      *)
(* batch drops none, because its hands are empty.                          *)
THEOREM LastFlushIsLast == Spec => NothingAfterLastFlush
<1>1. ASSUME FlushInv, [Next]_vars, pc["flusher"] \in {"flush", "gone"},
             NEW x \in Outputs
      PROVE  Reached(x)' = Reached(x)
  <2>1. ~ O
    BY <1>1 DEF FlushInv, OLeftFirst, O, OReceives, OAdds, OWriteReturns,
       OStops
  <2>2. CASE \E w \in Writers, o \in Outputs : Flush(w, o)
    BY <1>1, <2>2, FlushKeepsReached
  <2>3. CASE \A w \in Writers, o \in Outputs : ~ Flush(w, o)
    <3>1. UNCHANGED <<held, hand, written>>
      BY <1>1, <2>1, <2>3, OthersLeaveOutputs
    <3> QED BY <3>1 DEF Reached, InHand
  <2> QED BY <2>2, <2>3
<1>2. FlushInv /\ [Next]_vars =>
        [pc["flusher"] \in {"flush", "gone"} =>
           \A o \in Outputs : Reached(o)' = Reached(o)]_vars
  BY <1>1
<1> QED BY <1>2, FlushInvAlways, PTL DEF Spec, NothingAfterLastFlush

-----------------------------------------------------------------------------
(* Types, and that no output gets a metric twice.                          *)

(***************************************************************************)
(* The pipeline, seen as a chain of stages: channels and the goroutines    *)
(* that carry a metric from one to the next.  The channel to the           *)
(* aggregator holds copies, and is no stage.                               *)
(***************************************************************************)
Stages     == (Channels \ {"aggC"}) \cup Pipeline
In(c)      == {chan[c][i] : i \in 1 .. Len(chan[c])}
Carried(s) == IF s \in Channels THEN In(s) ELSE {work[s]} \ {0}

(* Where each goroutine may be.                                            *)
Places ==
  /\ pc["P"] \in {"select", "agg", "out"} \cup Ended
  /\ pc["G"] \in {"range", "out"} \cup Ended
  /\ pc["O"] \in {"select", "add", "write"} \cup Ended
  /\ pc["A"] \in {"select", "push"} \cup Ended
  /\ pc["T"] \in {"idle", "sleep", "flush"} \cup Ended
  /\ pc["flusher"] \in {"loop", "wait", "flush"} \cup Ended
  /\ pc["run"] \in {"starting", "wait", "stop", "returned"} \cup Ended

Switches == {shutdown, aggClosed, service} \subseteq BOOLEAN

(* Only a gatherer that has left room for it may abandon one more call.    *)
Gathering ==
  /\ gatherer \in [Inputs -> {"new", "sleep", "gathering", "select"} \cup Ended]
  /\ call \in [Inputs -> {"none", "running"}]
  /\ leaked \in [Inputs -> 0 .. MaxLeaks]
  /\ \A i \in Inputs :
       /\ gatherer[i] \in {"new", "sleep", "gathering"} => leaked[i] < MaxLeaks
       /\ call[i] = "running" => gatherer[i] = "gathering"
       /\ pc["run"] = "starting" => gatherer[i] = "new"

(* No channel is overfull, a goroutine that is past its receive holds a    *)
(* metric, and what was kept back or copied for the aggregator was         *)
(* gathered or pushed.                                                     *)
Carrying ==
  /\ \A c \in Channels : Len(chan[c]) <= ChanSize
  /\ pc["P"] \in {"agg", "out"} => work["P"] # 0
  /\ pc["G"] = "out" => work["G"] # 0
  /\ pc["A"] = "push" => work["A"] # 0
  /\ pc["O"] \in {"add", "write"} => work["O"] # 0
  /\ In("aggC") \cup cache \cup settled \subseteq Produced

(* Every push uses up a metric that was gathered.                          *)
Waiting == Len(chan["metricC"])
Copied  == Len(chan["aggC"])
AtAgg   == IF pc["P"] = "agg" THEN 1 ELSE 0
Caching == IF cache # {} /\ pc["A"] = "select" THEN 1 ELSE 0
Budget ==
  /\ gathered <= MaxMetrics
  /\ pushed + Waiting + AtAgg + Copied + Caching <= gathered

(* Every metric in the pipeline was gathered or pushed, and none is in two *)
(* stages, or twice in one.                                                *)
Once(s) == \A i, j \in 1 .. Len(s) : s[i] = s[j] => i = j
Apiece ==
  /\ \A c \in Channels \ {"aggC"} : Once(chan[c])
  /\ \A s \in Stages : Carried(s) \subseteq Produced
  /\ \A s, t \in Stages : s # t => Carried(s) \cap Carried(t) = {}

(* An output has not got what is on its way to it.                         *)
Ahead ==
  \A o \in Outputs :
    /\ Reached(o) \subseteq Produced
    /\ \A s \in Stages \ {"O"} : Carried(s) \cap Reached(o) = {}
    /\ o > at \/ (o = at /\ pc["O"] = "add") => work["O"] \notin Reached(o)

PipeInv == FlushInv /\ Places /\ Switches /\ Gathering /\ Carrying /\ Budget
             /\ Apiece /\ Ahead /\ OncePerOutput

-----------------------------------------------------------------------------
(* The first states satisfy the invariant.                                 *)
LEMMA InitPipeInv == Init => PipeInv
<1> SUFFICES ASSUME Init PROVE PipeInv
  OBVIOUS
<1>1. FlushInv
  BY InitFlushInv
<1>2. Places
  BY DEF Init, Places, Goroutines, Pipeline, Ended
<1>3. Gathering
  BY CountsAssumption DEF Init, Gathering, Ended
<1>a. Switches
  BY Zenon DEF Init, Switches
<1>4. /\ \A c \in Channels : chan[c] = <<>> /\ Len(chan[c]) = 0 /\ In(c) = {}
      /\ \A p \in Pipeline : work[p] = 0
  BY DEF Init, In
<1>5. Carrying
  <2>1. /\ pc["P"] = "select" /\ pc["G"] = "range" /\ pc["O"] = "select"
        /\ pc["A"] \in {"select", "gone"} /\ cache = {} /\ settled = {}
    BY DEF Init, Goroutines, Pipeline
  <2> QED BY <1>4, <2>1, CountsAssumption DEF Carrying, Channels
<1>6. Budget
  <2>1. pc["P"] # "agg" /\ cache = {} /\ pushed = 0 /\ gathered = 0
    BY DEF Init, Goroutines, Pipeline
  <2>2. AtAgg = 0 /\ Caching = 0
    BY <2>1 DEF AtAgg, Caching
  <2>3. Waiting = 0 /\ Copied = 0
    BY <1>4 DEF Channels, Waiting, Copied
  <2> QED BY <2>1, <2>2, <2>3, CountsAssumption DEF Budget
<1>7. \A s \in Stages : Carried(s) = {}
  BY <1>4 DEF Stages, Carried
<1>8. Apiece
  BY <1>4, <1>7 DEF Apiece, Once
<1>9. \A o \in Outputs : held[o] = {} /\ written[o] = {} /\ \A w \in Writers : hand[w][o] = {}
  BY DEF Init
<1>10. \A o \in Outputs : InHand(o) = {} /\ Reached(o) = {}
  BY <1>9 DEF InHand, Reached
<1>11. Ahead
  BY <1>10 DEF Ahead
<1>12. OncePerOutput
  BY <1>9, <1>10 DEF OncePerOutput
<1> QED BY <1>1, <1>2, <1>3, <1>5, <1>6, <1>8, <1>11, <1>12, <1>a DEF PipeInv

(* Where the goroutines are.                                               *)
LEMMA PlacesKept ==
  ASSUME FlushInv, Places, Next
  PROVE  Places'
<1> USE DEF Places, Ended
<1>0. pc \in [Goroutines -> Wheres] /\ {"P", "G", "O", "A", "T", "flusher", "run"} \subseteq Goroutines
  BY DEF FlushInv, Typed, Goroutines, Pipeline
<1>1. ASSUME NEW p \in {"P", "G", "O", "A", "T", "flusher", "run"}, NEW w \in Wheres,
             \/ p = "P" /\ w \in {"select", "agg", "out", "gone"}
             \/ p = "G" /\ w \in {"range", "out", "gone"}
             \/ p = "O" /\ w \in {"select", "add", "write", "gone"}
             \/ p = "A" /\ w \in {"select", "push", "gone"}
             \/ p = "T" /\ w \in {"idle", "sleep", "flush", "gone"}
             \/ p = "flusher" /\ w \in {"loop", "wait", "flush", "gone"}
             \/ p = "run" /\ w \in {"starting", "wait", "stop", "returned"},
             Goto(p, w)
      PROVE  Places'
  BY <1>0, <1>1 DEF Goto
<1>2. ASSUME NEW how \in {"failed", "panicked"}, ProcessEnds(how)
      PROVE  Places'
  BY <1>0, <1>2 DEF ProcessEnds
<1>3. CASE UNCHANGED pc
  BY <1>3
<1>4. CASE Run
  BY <1>1, <1>2, <1>3, <1>4 DEF Run, StartService, StartFails, StartInputs, RunCloses, RunReturns, Wheres
<1>5. CASE P
  BY <1>1, <1>3, <1>5 DEF P, PReceives, PAggregates, PSends, PStops, Wheres
<1>6. CASE G
  BY <1>1, <1>6 DEF G, GReceives, GSends, GStops, Wheres
<1>7. CASE A
  BY <1>1, <1>2, <1>3, <1>7 DEF A, AReceives, ATicks, APushes, APanics, AStops, Wheres
<1>8. CASE O
  BY <1>1, <1>3, <1>8 DEF O, OReceives, OAdds, OWriteReturns, OGoesOn, OStops, Wheres
<1>9. CASE Flusher
  BY <1>1, <1>9 DEF Flusher, Tick, TStarts, TEnds, FlusherStops, LastFlush, FlusherReturns, Wheres
<1>10. CASE \E i \in Inputs : Gatherer(i) \/ LeakedReturns(i)
  BY <1>3, <1>10 DEF Gatherer, StartGather, GatherReturns, AbandonGather, NextInterval,
     GathererStops, LeakedReturns
<1>11. CASE \E w \in Writers, o \in Outputs : Flush(w, o)
  BY <1>3, <1>11 DEF Flush, FlushTakes, FlushSucceeds, FlushFails, Finish
<1>12. CASE Shutdown \/ AddFields
  BY <1>3, <1>12 DEF Shutdown, AddFields
<1> QED BY <1>4, <1>5, <1>6, <1>7, <1>8, <1>9, <1>10, <1>11, <1>12 DEF Next

(* The inputs.                                                             *)
LEMMA GatheringKept ==
  ASSUME FlushInv, Gathering, Next
  PROVE  Gathering'
<1> USE CountsAssumption DEF Gathering, Ended
<1>0. pc \in [Goroutines -> Wheres] /\ Pipeline \cup {"T", "flusher", "run"} = Goroutines
  BY DEF FlushInv, Typed, Goroutines
<1>1. ASSUME NEW how \in {"failed", "panicked"}, ProcessEnds(how)
      PROVE  Gathering'
  BY <1>0, <1>1 DEF ProcessEnds
<1>3. CASE StartInputs
  <2>1. pc'["run"] = "wait"
    BY <1>0, <1>3 DEF StartInputs, Goto
  <2> QED BY <1>3, <2>1 DEF StartInputs
<1>4. ASSUME NEW i \in Inputs, Gatherer(i) \/ LeakedReturns(i)
      PROVE  Gathering'
  BY <1>4 DEF Gatherer, StartGather, GatherReturns, AbandonGather, NextInterval,
     GathererStops, LeakedReturns
<1>5. ASSUME UNCHANGED <<gatherer, call, leaked>>, pc'["run"] = "starting" => pc["run"] = "starting"
      PROVE  Gathering'
  BY <1>5
<1>6. ASSUME UNCHANGED <<gatherer, call, leaked>>,
             \/ UNCHANGED pc
             \/ \E p \in Pipeline \cup {"T", "flusher"}, w \in Wheres : Goto(p, w)
      PROVE  Gathering'
  <2>1. UNCHANGED pc["run"]
    BY <1>0, <1>6 DEF Goto, Pipeline
  <2> QED BY <1>5, <1>6, <2>1
<1>7. CASE P \/ G \/ A
  BY <1>1, <1>6, <1>7 DEF P, PReceives, PAggregates, PSends, PStops, G, GReceives,
     GSends, GStops, A, AReceives, ATicks, APushes, APanics, AStops, input, Pipeline, Wheres
<1>8. CASE O \/ Flusher \/ AddFields \/ Shutdown
  BY <1>6, <1>8 DEF O, OReceives, OAdds, OWriteReturns, OGoesOn, OStops, Flusher, Tick,
     TStarts, TEnds, FlusherStops, LastFlush, FlusherReturns, AddFields, Shutdown, input,
     Pipeline, Wheres
<1>9. CASE \E w \in Writers, o \in Outputs : Flush(w, o)
  BY <1>6, <1>9 DEF Flush, FlushTakes, FlushSucceeds, FlushFails, Finish, input
<1>10. CASE StartService \/ RunCloses \/ RunReturns
  BY <1>0, <1>5, <1>10 DEF StartService, RunCloses, RunReturns, Goto, input
<1> QED BY <1>1, <1>3, <1>4, <1>7, <1>8, <1>9, <1>10 DEF Next, Run, StartFails

LEMMA SwitchesKept ==
  ASSUME Switches, Next
  PROVE  Switches'
<1> USE DEF Switches
<1>1. CASE UNCHANGED <<shutdown, aggClosed, service>>
  BY <1>1
<1>2. CASE Run
  BY <1>2 DEF Run, StartService, StartFails, ProcessEnds, StartInputs, RunCloses, RunReturns, input
<1>3. CASE Shutdown \/ AddFields
  BY <1>3 DEF Shutdown, AddFields, input
<1>4. CASE P \/ G \/ A
  BY <1>4 DEF P, PReceives, PAggregates, PSends, PStops, G, GReceives, GSends, GStops,
     A, AReceives, ATicks, APushes, APanics, ProcessEnds, AStops, input
<1>5. CASE O \/ Flusher
  BY <1>1, <1>5 DEF O, OReceives, OAdds, OWriteReturns, OStops, Flusher, Tick, TStarts,
     TEnds, FlusherStops, LastFlush, FlusherReturns, input
<1>6. CASE \E i \in Inputs : Gatherer(i) \/ LeakedReturns(i)
  BY <1>1, <1>6 DEF Gatherer, StartGather, GatherReturns, AbandonGather, NextInterval,
     GathererStops, LeakedReturns
<1>7. CASE \E w \in Writers, o \in Outputs : Flush(w, o)
  BY <1>1, <1>7 DEF Flush, FlushTakes, FlushSucceeds, FlushFails, Finish, input
<1> QED BY <1>2, <1>3, <1>4, <1>5, <1>6, <1>7 DEF Next

-----------------------------------------------------------------------------
(* What a receive and a send do to the metrics in a channel.               *)
LEMMA ReceivedFrom ==
  ASSUME Typed, NEW c \in Channels, Ready(c), Receive(c)
  PROVE  /\ Head(chan[c]) \in In(c) /\ In(c)' \subseteq In(c)
         /\ Len(chan'[c]) = Len(chan[c]) - 1
         /\ Once(chan[c]) => Once(chan'[c]) /\ Head(chan[c]) \notin In(c)'
         /\ \A d \in Channels \ {c} : chan'[d] = chan[d] /\ In(d)' = In(d)
<1> DEFINE s == chan[c]
<1>1. s \in Seq(Nat) /\ s # <<>> /\ chan'[c] = Tail(s)
  BY DEF Typed, Ready, Receive
<1>2. /\ Len(s) \in Nat \ {0} /\ Len(Tail(s)) = Len(s) - 1 /\ Head(s) = s[1]
      /\ \A i \in 1 .. Len(s) - 1 : Tail(s)[i] = s[i + 1] /\ i + 1 \in 2 .. Len(s)
  BY <1>1
<1>3. Head(s) \in In(c)
  BY <1>2 DEF In
<1>4. In(c)' = {s[i + 1] : i \in 1 .. Len(s) - 1}
  BY <1>1, <1>2 DEF In
<1>5. In(c)' \subseteq In(c)
  <2>1. ASSUME NEW i \in 1 .. Len(s) - 1
        PROVE  s[i + 1] \in In(c)
    <3>1. i + 1 \in 1 .. Len(s)
      BY <1>2
    <3> QED BY <3>1 DEF In
  <2> QED BY <1>4, <2>1
<1>6. ASSUME Once(s)
      PROVE  Once(Tail(s)) /\ Head(s) \notin In(c)'
  <2>1. \A i, j \in 1 .. Len(s) - 1 : s[i + 1] = s[j + 1] => i = j
    BY <1>2, <1>6 DEF Once
  <2>2. \A i \in 1 .. Len(s) - 1 : s[i + 1] # s[1]
    BY <1>2, <1>6 DEF Once
  <2> QED BY <1>2, <1>4, <2>1, <2>2 DEF Once
<1>7. \A d \in Channels \ {c} : chan'[d] = chan[d] /\ In(d)' = In(d)
  BY DEF Typed, Receive, In
<1> QED BY <1>1, <1>2, <1>3, <1>5, <1>6, <1>7

LEMMA SentTo ==
  ASSUME Typed, NEW c \in Channels, NEW m \in Nat, Send(c, m)
  PROVE  /\ In(c)' = In(c) \cup {m} /\ Len(chan'[c]) = Len(chan[c]) + 1
         /\ Once(chan[c]) /\ m \notin In(c) => Once(chan'[c])
         /\ \A d \in Channels \ {c} : chan'[d] = chan[d] /\ In(d)' = In(d)
<1> DEFINE s == chan[c]
<1>1. s \in Seq(Nat) /\ chan'[c] = Append(s, m)
  BY DEF Typed, Send
<1>2. /\ Len(s) \in Nat /\ Len(Append(s, m)) = Len(s) + 1
      /\ \A i \in 1 .. Len(s) + 1 : Append(s, m)[i] = IF i = Len(s) + 1 THEN m ELSE s[i]
  BY <1>1
<1>3. In(c)' = {Append(s, m)[i] : i \in 1 .. Len(s) + 1}
  BY <1>1, <1>2 DEF In
<1>4. In(c)' = In(c) \cup {m}
  <2>1. Len(s) + 1 \in 1 .. Len(s) + 1 /\ \A i \in 1 .. Len(s) : i \in 1 .. Len(s) + 1 /\ i # Len(s) + 1
    BY <1>2
  <2>2. ASSUME NEW i \in 1 .. Len(s) + 1
        PROVE  Append(s, m)[i] \in In(c) \cup {m}
    <3>1. CASE i = Len(s) + 1
      BY <1>2, <3>1
    <3>2. CASE i # Len(s) + 1
      <4>1. i \in 1 .. Len(s) /\ Append(s, m)[i] = s[i]
        BY <1>2, <3>2
      <4> QED BY <4>1 DEF In
    <3> QED BY <3>1, <3>2
  <2>3. In(c) \subseteq In(c)'
    BY <1>2, <1>3, <2>1 DEF In
  <2>4. m \in In(c)'
    BY <1>2, <1>3, <2>1
  <2> QED BY <1>3, <2>2, <2>3, <2>4
<1>5. ASSUME Once(s), m \notin In(c)
      PROVE  Once(Append(s, m))
  <2>1. \A i \in 1 .. Len(s) : s[i] # m
    BY <1>5 DEF In
  <2>2. \A i \in 1 .. Len(s) + 1 : i = Len(s) + 1 \/ i \in 1 .. Len(s)
    BY <1>2
  <2> QED BY <1>2, <1>5, <2>1, <2>2 DEF Once
<1>6. \A d \in Channels \ {c} : chan'[d] = chan[d] /\ In(d)' = In(d)
  BY DEF Typed, Send, In
<1> QED BY <1>1, <1>2, <1>4, <1>5, <1>6

(* A metric that goes to stage t and is then in no other, or leaves the    *)
(* pipeline, keeps every metric in one stage at most.                      *)
Moves(t, m) ==
  \A u \in Stages :
    Carried(u)' \subseteq IF u = t THEN Carried(u) \cup {m} ELSE Carried(u) \ {m}

LEMMA MovesApart ==
  ASSUME Apiece, Ahead, NEW t \in Stages, NEW m, Moves(t, m), m \in Produced',
         Produced \subseteq Produced',
         \A c \in Channels \ {"aggC"} : Once(chan'[c]),
         \A o \in Outputs : Reached(o)' \subseteq Reached(o) /\ m \notin Reached(o)
  PROVE  /\ Apiece'
         /\ \A o \in Outputs : /\ Reached(o)' \subseteq Produced'
                               /\ \A s \in Stages \ {"O"} : Carried(s)' \cap Reached(o)' = {}
<1>1. \A s \in Stages : Carried(s)' \subseteq Produced'
  BY DEF Moves, Apiece
<1>2. ASSUME NEW s \in Stages, NEW u \in Stages, s # u
      PROVE  Carried(s)' \cap Carried(u)' = {}
  <2>1. Carried(s) \cap Carried(u) = {}
    BY <1>2 DEF Apiece
  <2> QED BY <1>2, <2>1 DEF Moves
<1>3. ASSUME NEW o \in Outputs
      PROVE  /\ Reached(o)' \subseteq Produced'
             /\ \A s \in Stages \ {"O"} : Carried(s)' \cap Reached(o)' = {}
  <2>1. Reached(o) \subseteq Produced /\ \A s \in Stages \ {"O"} : Carried(s) \cap Reached(o) = {}
    BY DEF Ahead
  <2> QED BY <2>1 DEF Moves
<1> QED BY <1>1, <1>2, <1>3 DEF Apiece

(* Likewise if metrics only leave the stages.                              *)
LEMMA LeavesApart ==
  ASSUME Apiece, Ahead, \A u \in Stages : Carried(u)' \subseteq Carried(u),
         Produced \subseteq Produced',
         \A c \in Channels \ {"aggC"} : Once(chan'[c]),
         \A o \in Outputs : Reached(o)' \subseteq Reached(o)
  PROVE  /\ Apiece'
         /\ \A o \in Outputs : /\ Reached(o)' \subseteq Produced'
                               /\ \A s \in Stages \ {"O"} : Carried(s)' \cap Reached(o)' = {}
<1>1. \A s \in Stages : Carried(s)' \subseteq Produced'
  BY DEF Apiece
<1>2. \A s, u \in Stages : s # u => Carried(s)' \cap Carried(u)' = {}
  BY DEF Apiece
<1>3. ASSUME NEW o \in Outputs
      PROVE  /\ Reached(o)' \subseteq Produced'
             /\ \A s \in Stages \ {"O"} : Carried(s)' \cap Reached(o)' = {}
  BY DEF Ahead
<1> QED BY <1>1, <1>2, <1>3 DEF Apiece

(* A goroutine takes a metric from a channel, or puts it into one.         *)
LEMMA TakeMoves ==
  ASSUME Typed, Apiece, NEW c \in Channels \ {"aggC"}, NEW p \in Pipeline,
         Ready(c), Receive(c), Holds(p, Head(chan[c]))
  PROVE  /\ Moves(p, Head(chan[c])) /\ Head(chan[c]) \in Carried(c)
         /\ \A d \in Channels \ {"aggC"} : Once(chan'[d])
<1> DEFINE m == Head(chan[c])
<1>1. /\ m \in In(c) /\ In(c)' \subseteq In(c) /\ m \notin In(c)' /\ Once(chan'[c])
      /\ \A d \in Channels \ {c} : chan'[d] = chan[d] /\ In(d)' = In(d)
  BY ReceivedFrom DEF Apiece
<1>2. \A d \in Channels \ {"aggC"} : Once(chan'[d])
  BY <1>1 DEF Apiece
<1>3. m \in Carried(c) /\ c \in Stages
  BY <1>1 DEF Carried, Stages
<1>4. ASSUME NEW u \in Stages
      PROVE  Carried(u)' \subseteq IF u = p THEN Carried(u) \cup {m} ELSE Carried(u) \ {m}
  <2>1. CASE u = c
    <3>1. u # p /\ Carried(u) = In(c) /\ Carried(u)' = In(c)'
      BY <2>1 DEF Carried, Channels, Pipeline
    <3> QED BY <1>1, <3>1
  <2>2. CASE u = p
    <3>1. Carried(u)' = {m} \ {0}
      BY <2>2 DEF Carried, Holds, Typed, Channels, Pipeline
    <3> QED BY <2>2, <3>1
  <2>3. CASE u # c /\ u # p
    <3>1. m \notin Carried(u)
      BY <1>3, <2>3 DEF Apiece
    <3>2. Carried(u)' = Carried(u)
      BY <1>1, <2>3 DEF Carried, Holds, Typed, Stages
    <3> QED BY <2>3, <3>1, <3>2
  <2> QED BY <2>1, <2>2, <2>3
<1> QED BY <1>2, <1>3, <1>4 DEF Moves

LEMMA PutMoves ==
  ASSUME Typed, Apiece, NEW c \in Channels \ {"aggC"}, NEW p \in Pipeline,
         work[p] # 0, Send(c, work[p]), Holds(p, 0)
  PROVE  /\ Moves(c, work[p]) /\ work[p] \in Carried(p)
         /\ \A d \in Channels \ {"aggC"} : Once(chan'[d])
<1> DEFINE m == work[p]
<1>1. m \in Nat /\ m \in Carried(p) /\ p \in Stages /\ c \in Stages /\ p # c
  BY DEF Typed, Carried, Stages, Channels, Pipeline
<1>2. m \notin In(c)
  BY <1>1 DEF Apiece, Carried
<1>3. /\ In(c)' = In(c) \cup {m} /\ Once(chan'[c])
      /\ \A d \in Channels \ {c} : chan'[d] = chan[d] /\ In(d)' = In(d)
  BY <1>1, <1>2, SentTo DEF Apiece
<1>4. \A d \in Channels \ {"aggC"} : Once(chan'[d])
  BY <1>3 DEF Apiece
<1>5. ASSUME NEW u \in Stages
      PROVE  Carried(u)' \subseteq IF u = c THEN Carried(u) \cup {m} ELSE Carried(u) \ {m}
  <2>1. CASE u = c
    BY <1>3, <2>1 DEF Carried
  <2>2. CASE u = p
    <3>1. Carried(u)' = {}
      BY <2>2 DEF Carried, Holds, Typed, Channels, Pipeline
    <3> QED BY <1>1, <2>2, <3>1
  <2>3. CASE u # c /\ u # p
    <3>1. m \notin Carried(u)
      BY <1>1, <2>3 DEF Apiece
    <3>2. Carried(u)' = Carried(u)
      BY <1>3, <2>3 DEF Carried, Holds, Typed, Stages
    <3> QED BY <2>3, <3>1, <3>2
  <2> QED BY <2>1, <2>2, <2>3
<1> QED BY <1>1, <1>4, <1>5 DEF Moves

(* What was produced stays so.                                             *)
LEMMA ProducedGrows ==
  ASSUME Typed, gathered' \in {gathered, gathered + 1}, pushed' \in {pushed, pushed + 1}
  PROVE  Produced \subseteq Produced'
<1>1. (1 .. gathered) \subseteq 1 .. gathered' /\ (1 .. pushed) \subseteq 1 .. pushed'
  BY DEF Typed
<1> QED BY <1>1 DEF Produced

LEMMA SameReached ==
  ASSUME UNCHANGED <<held, hand, written>>
  PROVE  \A o \in Outputs : Reached(o)' = Reached(o)
BY DEF Reached, InHand

LEMMA SameCarried ==
  ASSUME UNCHANGED <<chan, work>>
  PROVE  /\ \A s \in Stages : Carried(s)' = Carried(s)
         /\ In("aggC")' = In("aggC")
BY DEF Carried, In

(* A step of another goroutine than O, that moves a metric or loses one.   *)
Elsewhere ==
  /\ UNCHANGED <<at, held, hand, written>>
  /\ work'["O"] = work["O"]
  /\ pc'["O"] = "add" => pc["O"] = "add"

LEMMA ElsewhereKept ==
  ASSUME Apiece, Ahead, Elsewhere, Produced \subseteq Produced',
         \A c \in Channels \ {"aggC"} : Once(chan'[c]),
         \/ \A u \in Stages : Carried(u)' \subseteq Carried(u)
         \/ \E t \in Stages, m \in Produced' :
              Moves(t, m) /\ \A o \in Outputs : m \notin Reached(o)
  PROVE  Apiece' /\ Ahead'
<1>1. \A o \in Outputs : Reached(o)' = Reached(o)
  BY SameReached DEF Elsewhere
<1>2. /\ Apiece'
      /\ \A o \in Outputs : /\ Reached(o)' \subseteq Produced'
                            /\ \A s \in Stages \ {"O"} : Carried(s)' \cap Reached(o)' = {}
  BY <1>1, MovesApart, LeavesApart
<1>3. ASSUME NEW o \in Outputs, o > at' \/ (o = at' /\ pc'["O"] = "add")
      PROVE  work'["O"] \notin Reached(o)'
  BY <1>1, <1>3 DEF Elsewhere, Ahead
<1> QED BY <1>2, <1>3 DEF Ahead

Flow == Carrying /\ Budget /\ Apiece /\ Ahead

(* What the goroutines and the channels are called.                        *)
LEMMA Names ==
  /\ Channels \cap Pipeline = {} /\ Stages \subseteq Channels \cup Pipeline
  /\ {"metricC", "outMetricC", "aggMetricC"} \subseteq Channels \ {"aggC"} /\ "aggC" \in Channels
  /\ Channels \ {"aggC"} \subseteq Stages /\ Pipeline \subseteq Stages
  /\ Channels = {"metricC", "aggC", "aggMetricC", "outMetricC"}
  /\ Pipeline = {"P", "G", "O", "A"} /\ Pipeline \subseteq Goroutines
BY DEF Channels, Pipeline, Stages, Goroutines

LEMMA ProducedPositive ==
  ASSUME Typed, NEW m \in Produced
  PROVE  m \in Nat \ {0}
BY CountsAssumption DEF Produced, Typed

LEMMA Lengths ==
  ASSUME Typed
  PROVE  \A c \in Channels : Len(chan[c]) \in Nat
BY DEF Typed

(* P: what it receives goes on, into settled, or to the aggregator.        *)
LEMMA PReceivesFlow ==
  ASSUME FlushInv, Flow, PReceives
  PROVE  Flow'
<1> DEFINE m == Head(chan["metricC"])
<1>0. Typed
  BY DEF FlushInv
<1>1. /\ m \in In("metricC") /\ In("metricC")' \subseteq In("metricC")
      /\ Len(chan'["metricC"]) = Len(chan["metricC"]) - 1
      /\ Once(chan'["metricC"])
      /\ \A d \in Channels \ {"metricC"} : chan'[d] = chan[d] /\ In(d)' = In(d)
  BY <1>0, Names, ReceivedFrom DEF PReceives, Flow, Apiece
<1>2. m \in Carried("metricC") /\ m \in Produced /\ m \in Nat \ {0}
  <2>1. m \in Carried("metricC") /\ m \in Produced
    BY <1>1, Names DEF Carried, Flow, Apiece
  <2> QED BY <1>0, <2>1, ProducedPositive
<1>3. Produced' = Produced
  BY DEF PReceives, Produced
<1>4. \A c \in Channels : Len(chan'[c]) <= ChanSize
  BY <1>0, <1>1, Lengths, Names, CountsAssumption DEF Flow, Carrying
<1>8. Waiting \in Nat /\ Copied \in Nat /\ gathered \in Nat /\ pushed \in Nat
  BY <1>0, Lengths, Names DEF Typed, Waiting, Copied
<1>9. Waiting' = Waiting - 1 /\ Copied' = Copied
  BY <1>1, Names DEF Waiting, Copied
<1>5. UNCHANGED <<at, held, hand, written, cache, gathered, pushed>> /\ pc["P"] = "select"
  BY DEF PReceives, output
<1>6. CASE settled' = settled \cup {m} /\ UNCHANGED <<pc, work>>
  <2>1. Carrying'
    BY <1>1, <1>2, <1>3, <1>4, <1>5, <1>6, Names DEF Flow, Carrying
  <2>2. AtAgg' = AtAgg /\ AtAgg \in {0, 1} /\ Caching' = Caching /\ Caching \in {0, 1}
    BY <1>5, <1>6 DEF AtAgg, Caching
  <2>3. Budget'
    BY <1>5, <1>8, <1>9, <2>2, CountsAssumption DEF Flow, Budget
  <2>4. \A u \in Stages : Carried(u)' \subseteq Carried(u)
    BY <1>1, <1>6, Names DEF Carried
  <2>5. \A c \in Channels \ {"aggC"} : Once(chan'[c])
    BY <1>1, Names DEF Flow, Apiece
  <2> QED BY <1>3, <1>5, <1>6, <2>1, <2>3, <2>4, <2>5, ElsewhereKept DEF Flow, Elsewhere
<1>7. ASSUME NEW w \in {"out", "agg"}, Holds("P", m), Goto("P", w), UNCHANGED settled
      PROVE  Flow'
  <2>1. /\ work'["P"] = m /\ \A p \in Pipeline \ {"P"} : work'[p] = work[p]
        /\ pc'["P"] = w /\ \A p \in Pipeline \ {"P"} : pc'[p] = pc[p]
    BY <1>0, <1>7, Names DEF Holds, Goto, Typed
  <2>2. Carrying'
    BY <1>1, <1>2, <1>3, <1>4, <1>5, <1>7, <2>1, Names DEF Flow, Carrying
  <2>3. Caching' = Caching /\ Caching \in {0, 1}
    BY <1>5, <2>1, Names DEF Caching
  <2>4. Budget'
    BY <1>5, <1>8, <1>9, <2>1, <2>3, CountsAssumption DEF Flow, Budget, AtAgg
  <2>5. Moves("P", m) /\ \A d \in Channels \ {"aggC"} : Once(chan'[d])
    BY <1>0, <1>7, Names, TakeMoves DEF PReceives, Flow
  <2>6. \A o \in Outputs : m \notin Reached(o)
    BY <1>2, Names DEF Flow, Ahead
  <2>7. Elsewhere
    BY <1>5, <2>1, Names DEF Elsewhere
  <2> QED BY <1>2, <1>3, <2>2, <2>4, <2>5, <2>6, <2>7, Names, ElsewhereKept DEF Flow
<1> QED BY <1>6, <1>7 DEF PReceives

LEMMA PAggregatesFlow ==
  ASSUME FlushInv, Flow, PAggregates
  PROVE  Flow'
<1> DEFINE m == work["P"]
<1>0. Typed
  BY DEF FlushInv
<1>1. m \in Produced /\ m \in Nat \ {0} /\ pc["P"] = "agg"
  <2>1. m # 0 /\ m \in Carried("P") /\ pc["P"] = "agg"
    BY Names DEF PAggregates, Flow, Carrying, Carried
  <2>2. m \in Produced
    BY <2>1, Names DEF Flow, Apiece
  <2> QED BY <1>0, <2>1, <2>2, ProducedPositive
<1>2. /\ In("aggC")' = In("aggC") \cup {m} /\ Len(chan'["aggC"]) = Len(chan["aggC"]) + 1
      /\ \A d \in Channels \ {"aggC"} : chan'[d] = chan[d] /\ In(d)' = In(d)
  BY <1>0, <1>1, Names, SentTo DEF PAggregates
<1>3. Produced' = Produced
  BY DEF PAggregates, Produced
<1>4. \A c \in Channels : Len(chan'[c]) <= ChanSize
  BY <1>0, <1>2, Lengths, Names, CountsAssumption DEF Flow, Carrying, PAggregates, HasRoom
<1>5. UNCHANGED <<at, held, hand, written, cache, gathered, pushed>>
  BY DEF PAggregates, output
<1>6. Waiting \in Nat /\ Copied \in Nat /\ gathered \in Nat /\ pushed \in Nat
  BY <1>0, Lengths, Names DEF Typed, Waiting, Copied
<1>7. Waiting' = Waiting /\ Copied' = Copied + 1
  BY <1>2, Names DEF Waiting, Copied
<1>8. /\ \A p \in Pipeline : work'[p] \in {work[p], 0} /\ (p # "P" => work'[p] = work[p])
      /\ pc'["P"] \in {"select", "out"} /\ (pc'["P"] = "out" => work'["P"] = m)
      /\ \A p \in Pipeline \ {"P"} : pc'[p] = pc[p]
      /\ settled' \subseteq settled \cup {m}
  BY <1>0, Names DEF PAggregates, Holds, Goto, Typed
<1>9. Carrying'
  BY <1>1, <1>2, <1>3, <1>4, <1>5, <1>8, Names DEF Flow, Carrying
<1>10. Budget'
  <2>1. Caching' = Caching /\ Caching \in {0, 1}
    BY <1>5, <1>8, Names DEF Caching
  <2> QED BY <1>1, <1>5, <1>6, <1>7, <1>8, <2>1, CountsAssumption DEF Flow, Budget, AtAgg
<1>11. \A u \in Stages : Carried(u)' \subseteq Carried(u)
  BY <1>2, <1>8, Names DEF Carried, Stages
<1>12. \A c \in Channels \ {"aggC"} : Once(chan'[c])
  BY <1>2 DEF Flow, Apiece
<1>13. Elsewhere
  BY <1>5, <1>8, Names DEF Elsewhere
<1> QED BY <1>3, <1>9, <1>10, <1>11, <1>12, <1>13, ElsewhereKept DEF Flow

(* A goroutine that holds a metric sends it on.                            *)
LEMMA PutFlow ==
  ASSUME FlushInv, Flow, NEW c \in {"outMetricC", "aggMetricC"}, NEW p \in {"P", "G", "A"},
         NEW w \in {"select", "range"}, pc[p] \in {"out", "push"}, work[p] # 0,
         HasRoom(c), Send(c, work[p]), Holds(p, 0), Goto(p, w),
         cache' = IF p = "A" THEN {} ELSE cache,
         UNCHANGED <<at, held, hand, written, gathered, pushed, settled>>
  PROVE  Flow'
<1> DEFINE m == work[p]
<1>0. Typed /\ p \in Pipeline /\ c \in Channels \ {"aggC"} /\ c \in Stages
  BY Names DEF FlushInv
<1>1. /\ Moves(c, m) /\ m \in Carried(p)
      /\ \A d \in Channels \ {"aggC"} : Once(chan'[d])
  BY <1>0, PutMoves DEF Flow
<1>2. m \in Produced /\ \A o \in Outputs : m \notin Reached(o)
  BY <1>0, <1>1, Names DEF Flow, Apiece, Ahead
<1>3. m \in Nat
  BY <1>0 DEF Typed
<1>4. /\ Len(chan'[c]) = Len(chan[c]) + 1
      /\ \A d \in Channels \ {c} : chan'[d] = chan[d] /\ In(d)' = In(d)
  BY <1>0, <1>3, SentTo
<1>5. Produced' = Produced
  BY DEF Produced
<1>6. \A d \in Channels : Len(chan'[d]) <= ChanSize
  BY <1>0, <1>4, Lengths, CountsAssumption DEF Flow, Carrying, HasRoom
<1>7. Waiting' = Waiting /\ Copied' = Copied
  BY <1>0, <1>4, Names DEF Waiting, Copied
<1>8. Waiting \in Nat /\ Copied \in Nat /\ gathered \in Nat /\ pushed \in Nat
  BY <1>0, Lengths, Names DEF Typed, Waiting, Copied
<1>9. /\ work'[p] = 0 /\ \A q \in Pipeline \ {p} : work'[q] = work[q]
      /\ pc'[p] = w /\ \A q \in Pipeline \ {p} : pc'[q] = pc[q]
  BY <1>0, Names DEF Holds, Goto, Typed
<1>10. Carrying'
  BY <1>0, <1>4, <1>5, <1>6, <1>9, Names DEF Flow, Carrying
<1>11. Budget'
  <2>1. AtAgg' = AtAgg /\ AtAgg \in {0, 1}
    BY <1>9, Names DEF AtAgg
  <2> QED BY <1>7, <1>8, <1>9, <2>1, CountsAssumption, Names DEF Flow, Budget, Caching
<1>12. Elsewhere
  BY <1>9, Names DEF Elsewhere
<1> QED BY <1>0, <1>1, <1>2, <1>5, <1>10, <1>11, <1>12, ElsewhereKept DEF Flow

(* Steps that carry nothing, and at most end a goroutine.                  *)
LEMMA IdleFlow ==
  ASSUME FlushInv, Flow,
         UNCHANGED <<chan, work, cache, settled, gathered, pushed, at, held, hand, written>>,
         \A p \in Pipeline : pc'[p] \in {pc[p]} \cup Ended
  PROVE  Flow'
<1>0. Typed
  BY DEF FlushInv
<1>1. Produced' = Produced
  BY DEF Produced
<1>2. Carrying'
  BY <1>1, Names DEF Flow, Carrying, Ended, In
<1>3. Waiting' = Waiting /\ Copied' = Copied
  BY DEF Waiting, Copied
<1>4. Waiting \in Nat /\ Copied \in Nat /\ gathered \in Nat /\ pushed \in Nat
  BY <1>0, Lengths, Names DEF Typed, Waiting, Copied
<1>5. Budget'
  BY <1>3, <1>4, Names, CountsAssumption DEF Flow, Budget, AtAgg, Caching, Ended
<1>6. Elsewhere
  BY Names DEF Elsewhere, Ended
<1>7. /\ \A u \in Stages : Carried(u)' \subseteq Carried(u)
      /\ \A c \in Channels \ {"aggC"} : Once(chan'[c])
  BY SameCarried DEF Flow, Apiece
<1> QED BY <1>1, <1>2, <1>5, <1>6, <1>7, ElsewhereKept DEF Flow

(* An input adds a metric: its number is a new one.                        *)
LEMMA AddFieldsFlow ==
  ASSUME FlushInv, Flow, AddFields
  PROVE  Flow'
<1> DEFINE m == gathered'
<1>0. Typed /\ gathered \in Nat /\ pushed \in Nat
  BY DEF FlushInv, Typed
<1>1. /\ gathered' = gathered + 1 /\ gathered' <= MaxMetrics /\ m \in Nat
      /\ UNCHANGED <<pc, work, cache, pushed, settled, at, held, hand, written>>
  BY <1>0, CountsAssumption DEF AddFields, output
<1>2. Produced \subseteq Produced' /\ m \in Produced' /\ m \notin Produced
  <2>1. Produced \subseteq Produced'
    BY <1>0, <1>1, ProducedGrows
  <2>2. m \in 1 .. gathered' /\ m \notin 1 .. gathered
    BY <1>0, <1>1
  <2>3. \A k \in 1 .. pushed : MaxMetrics + k # m
    BY <1>0, <1>1, CountsAssumption
  <2> QED BY <2>1, <2>2, <2>3 DEF Produced
<1>3. m \notin In("metricC") /\ \A u \in Stages : m \notin Carried(u)
  BY <1>2, Names DEF Flow, Apiece, Carried
<1>4. /\ In("metricC")' = In("metricC") \cup {m} /\ Once(chan'["metricC"])
      /\ Len(chan'["metricC"]) = Len(chan["metricC"]) + 1
      /\ \A d \in Channels \ {"metricC"} : chan'[d] = chan[d] /\ In(d)' = In(d)
  BY <1>0, <1>1, <1>3, Names, SentTo DEF AddFields, Flow, Apiece
<1>5. \A d \in Channels : Len(chan'[d]) <= ChanSize
  BY <1>0, <1>4, Lengths, Names, CountsAssumption DEF Flow, Carrying, HasRoom, AddFields
<1>6. Carrying'
  BY <1>1, <1>2, <1>4, <1>5, Names DEF Flow, Carrying
<1>7. Waiting' = Waiting + 1 /\ Copied' = Copied
  BY <1>4, Names DEF Waiting, Copied
<1>8. Waiting \in Nat /\ Copied \in Nat
  BY <1>0, Lengths, Names DEF Waiting, Copied
<1>9. Budget'
  <2>1. AtAgg' = AtAgg /\ AtAgg \in {0, 1} /\ Caching' = Caching /\ Caching \in {0, 1}
    BY <1>1 DEF AtAgg, Caching
  <2> QED BY <1>0, <1>1, <1>7, <1>8, <2>1, CountsAssumption DEF Flow, Budget
<1>10. Moves("metricC", m)
  BY <1>1, <1>3, <1>4, Names DEF Moves, Carried
<1>11. /\ \A d \in Channels \ {"aggC"} : Once(chan'[d])
       /\ \A o \in Outputs : m \notin Reached(o)
  BY <1>2, <1>4 DEF Flow, Apiece, Ahead
<1>12. Elsewhere
  BY <1>1 DEF Elsewhere
<1> QED BY <1>2, <1>6, <1>9, <1>10, <1>11, <1>12, Names, ElsewhereKept DEF Flow

(* The aggregator caches a copy, and makes an aggregate with a new number. *)
LEMMA AReceivesFlow ==
  ASSUME FlushInv, Flow, AReceives
  PROVE  Flow'
<1>0. Typed
  BY DEF FlushInv
<1>1. /\ Head(chan["aggC"]) \in In("aggC") /\ In("aggC")' \subseteq In("aggC")
      /\ Len(chan'["aggC"]) = Len(chan["aggC"]) - 1
      /\ \A d \in Channels \ {"aggC"} : chan'[d] = chan[d] /\ In(d)' = In(d)
  BY <1>0, Names, ReceivedFrom DEF AReceives
<1>2. /\ UNCHANGED <<pc, work, gathered, pushed, settled, at, held, hand, written>>
      /\ pc["A"] = "select" /\ cache' \subseteq cache \cup In("aggC")
  BY <1>1 DEF AReceives, output, count
<1>3. Produced' = Produced
  BY <1>2 DEF Produced
<1>4. \A d \in Channels : Len(chan'[d]) <= ChanSize
  BY <1>0, <1>1, Lengths, Names, CountsAssumption DEF Flow, Carrying
<1>5. Carrying'
  BY <1>1, <1>2, <1>3, <1>4, Names DEF Flow, Carrying
<1>6. Waiting' = Waiting /\ Copied' = Copied - 1
  BY <1>1, Names DEF Waiting, Copied
<1>7. Waiting \in Nat /\ Copied \in Nat /\ gathered \in Nat /\ pushed \in Nat
  BY <1>0, Lengths, Names DEF Typed, Waiting, Copied
<1>8. Budget'
  <2>1. AtAgg' = AtAgg /\ AtAgg \in {0, 1}
    BY <1>2 DEF AtAgg
  <2>2. cache = {} \/ Caching = 1
    BY <1>2 DEF Caching
  <2> QED BY <1>2, <1>6, <1>7, <2>1, CountsAssumption DEF Flow, Budget, Caching
<1>9. /\ \A u \in Stages : Carried(u)' \subseteq Carried(u)
      /\ \A c \in Channels \ {"aggC"} : Once(chan'[c])
  BY <1>1, <1>2, Names DEF Carried, Stages, Flow, Apiece
<1>10. Elsewhere
  BY <1>2 DEF Elsewhere
<1> QED BY <1>3, <1>5, <1>8, <1>9, <1>10, ElsewhereKept DEF Flow

LEMMA ATicksFlow ==
  ASSUME FlushInv, Flow, ATicks
  PROVE  Flow'
<1> DEFINE m == MaxMetrics + pushed'
<1>0. Typed /\ gathered \in Nat /\ pushed \in Nat
  BY DEF FlushInv, Typed
<1>1. /\ pushed' = pushed + 1 /\ m \in Nat \ {0} /\ pc["A"] = "select" /\ cache # {}
      /\ UNCHANGED <<chan, cache, gathered, settled, at, held, hand, written>>
  BY <1>0, CountsAssumption DEF ATicks, output
<1>2. Produced \subseteq Produced' /\ m \in Produced' /\ m \notin Produced
  <2>1. Produced \subseteq Produced'
    BY <1>0, <1>1, ProducedGrows
  <2>2. pushed' \in 1 .. pushed' /\ \A k \in 1 .. pushed : MaxMetrics + k # m
    BY <1>0, <1>1, CountsAssumption
  <2>3. m \notin 1 .. gathered
    BY <1>0, <1>1, CountsAssumption DEF Flow, Budget
  <2> QED BY <2>1, <2>2, <2>3 DEF Produced
<1>3. \A u \in Stages : m \notin Carried(u)
  BY <1>2 DEF Flow, Apiece
<1>4. /\ work'["A"] = m /\ \A q \in Pipeline \ {"A"} : work'[q] = work[q]
      /\ pc'["A"] = "push" /\ \A q \in Pipeline \ {"A"} : pc'[q] = pc[q]
  BY <1>0, Names DEF ATicks, Holds, Goto, Typed
<1>5. Carrying'
  BY <1>1, <1>2, <1>4, Names DEF Flow, Carrying, In
<1>6. Waiting' = Waiting /\ Copied' = Copied
  BY <1>1 DEF Waiting, Copied
<1>7. Waiting \in Nat /\ Copied \in Nat
  BY <1>0, Lengths, Names DEF Waiting, Copied
<1>8. Budget'
  <2>1. AtAgg' = AtAgg /\ AtAgg \in {0, 1}
    BY <1>4, Names DEF AtAgg
  <2> QED BY <1>0, <1>1, <1>4, <1>6, <1>7, <2>1, CountsAssumption DEF Flow, Budget, Caching
<1>9. Moves("A", m)
  <2>1. Carried("A")' \subseteq {m}
    BY <1>4, Names DEF Carried
  <2>2. ASSUME NEW u \in Stages, u # "A"
        PROVE  Carried(u)' = Carried(u)
    <3>1. In(u)' = In(u)
      BY <1>1 DEF In
    <3>2. u \in Channels \/ u \in Pipeline \ {"A"}
      BY <2>2, Names
    <3> QED BY <1>4, <3>1, <3>2, Names DEF Carried
  <2> QED BY <1>3, <2>1, <2>2 DEF Moves
<1>10. /\ \A d \in Channels \ {"aggC"} : Once(chan'[d])
       /\ \A o \in Outputs : m \notin Reached(o)
  BY <1>1, <1>2 DEF Flow, Apiece, Ahead
<1>11. Elsewhere
  BY <1>1, <1>4, Names DEF Elsewhere
<1> QED BY <1>2, <1>5, <1>8, <1>9, <1>10, <1>11, Names, ElsewhereKept DEF Flow

LEMMA GReceivesFlow ==
  ASSUME FlushInv, Flow, GReceives
  PROVE  Flow'
<1> DEFINE m == Head(chan["aggMetricC"])
<1>0. Typed
  BY DEF FlushInv
<1>1. Moves("G", m) /\ m \in Carried("aggMetricC") /\ \A d \in Channels \ {"aggC"} : Once(chan'[d])
  BY <1>0, Names, TakeMoves DEF GReceives, Flow
<1>2. /\ Len(chan'["aggMetricC"]) = Len(chan["aggMetricC"]) - 1
      /\ \A d \in Channels \ {"aggMetricC"} : chan'[d] = chan[d] /\ In(d)' = In(d)
  BY <1>0, Names, ReceivedFrom DEF GReceives
<1>3. /\ m \in Produced /\ m # 0 /\ \A o \in Outputs : m \notin Reached(o)
  <2>1. m \in Produced /\ \A o \in Outputs : m \notin Reached(o)
    BY <1>1, Names DEF Flow, Apiece, Ahead
  <2> QED BY <1>0, <2>1, ProducedPositive
<1>4. UNCHANGED <<cache, gathered, pushed, settled, at, held, hand, written>>
  BY DEF GReceives, output, count
<1>5. Produced' = Produced
  BY <1>4 DEF Produced
<1>6. \A d \in Channels : Len(chan'[d]) <= ChanSize
  BY <1>0, <1>2, Lengths, Names, CountsAssumption DEF Flow, Carrying
<1>7. /\ work'["G"] = m /\ \A q \in Pipeline \ {"G"} : work'[q] = work[q]
      /\ \A q \in Pipeline \ {"G"} : pc'[q] = pc[q]
  BY <1>0, Names DEF GReceives, Holds, Goto, Typed
<1>8. Carrying'
  BY <1>2, <1>3, <1>4, <1>5, <1>6, <1>7, Names DEF Flow, Carrying
<1>9. Waiting' = Waiting /\ Copied' = Copied /\ AtAgg' = AtAgg /\ Caching' = Caching
  BY <1>2, <1>4, <1>7, Names DEF Waiting, Copied, AtAgg, Caching
<1>10. Budget'
  BY <1>4, <1>9 DEF Flow, Budget
<1>11. Elsewhere
  BY <1>4, <1>7, Names DEF Elsewhere
<1> QED BY <1>1, <1>3, <1>5, <1>8, <1>10, <1>11, Names, ElsewhereKept DEF Flow

(* O takes a metric that no output has got.                                *)
LEMMA OReceivesFlow ==
  ASSUME FlushInv, Flow, OReceives
  PROVE  Flow'
<1> DEFINE m == Head(chan["outMetricC"])
<1>0. Typed
  BY DEF FlushInv
<1>1. Moves("O", m) /\ m \in Carried("outMetricC") /\ \A d \in Channels \ {"aggC"} : Once(chan'[d])
  BY <1>0, Names, TakeMoves DEF OReceives, Flow
<1>2. /\ Len(chan'["outMetricC"]) = Len(chan["outMetricC"]) - 1
      /\ \A d \in Channels \ {"outMetricC"} : chan'[d] = chan[d] /\ In(d)' = In(d)
  BY <1>0, Names, ReceivedFrom DEF OReceives
<1>3. /\ m \in Produced /\ m # 0 /\ \A o \in Outputs : m \notin Reached(o)
  <2>1. m \in Produced /\ \A o \in Outputs : m \notin Reached(o)
    BY <1>1, Names DEF Flow, Apiece, Ahead
  <2> QED BY <1>0, <2>1, ProducedPositive
<1>4. UNCHANGED <<cache, gathered, pushed, settled, held, hand, written>>
  BY DEF OReceives, count
<1>5. Produced' = Produced /\ \A o \in Outputs : Reached(o)' = Reached(o)
  BY <1>4, SameReached DEF Produced
<1>6. \A d \in Channels : Len(chan'[d]) <= ChanSize
  BY <1>0, <1>2, Lengths, Names, CountsAssumption DEF Flow, Carrying
<1>7. /\ work'["O"] = m /\ \A q \in Pipeline \ {"O"} : work'[q] = work[q]
      /\ \A q \in Pipeline \ {"O"} : pc'[q] = pc[q]
  BY <1>0, Names DEF OReceives, Holds, Goto, Typed
<1>8. Carrying'
  BY <1>2, <1>3, <1>4, <1>5, <1>6, <1>7, Names DEF Flow, Carrying
<1>9. Waiting' = Waiting /\ Copied' = Copied /\ AtAgg' = AtAgg /\ Caching' = Caching
  BY <1>2, <1>4, <1>7, Names DEF Waiting, Copied, AtAgg, Caching
<1>10. Budget'
  BY <1>4, <1>9 DEF Flow, Budget
<1>11. /\ Apiece'
       /\ \A o \in Outputs : /\ Reached(o)' \subseteq Produced'
                             /\ \A s \in Stages \ {"O"} : Carried(s)' \cap Reached(o)' = {}
  BY <1>1, <1>3, <1>5, Names, MovesApart DEF Flow
<1>12. Ahead'
  BY <1>3, <1>5, <1>7, <1>11 DEF Ahead
<1> QED BY <1>8, <1>10, <1>11, <1>12 DEF Flow

(* O gives it to one output after the other.                               *)
LEMMA OGivesFlow ==
  ASSUME FlushInv, Flow, work["O"] # 0,
         UNCHANGED <<chan, cache, settled, gathered, pushed>>,
         \A q \in Pipeline \ {"O"} : pc'[q] = pc[q] /\ work'[q] = work[q],
         \A o \in Outputs :
           Reached(o)' \subseteq IF o = at THEN Reached(o) \cup {work["O"]} ELSE Reached(o),
         \/ at' = at + 1 /\ work'["O"] = work["O"] /\ pc'["O"] = "add"
         \/ at' = 1 /\ work'["O"] = 0 /\ pc'["O"] = "select"
         \/ at' = at /\ work'["O"] = work["O"] /\ pc'["O"] = "write"
  PROVE  Flow'
<1> DEFINE m == work["O"]
<1>0. Typed /\ at \in Nat /\ Outputs \subseteq Nat
  BY CountsAssumption DEF FlushInv, Typed, Outputs
<1>1. m \in Carried("O") /\ m \in Produced
  BY Names DEF Carried, Flow, Apiece
<1>2. Produced' = Produced /\ In("aggC")' = In("aggC")
  BY DEF Produced, In
<1>3. Carrying'
  BY <1>2, Names DEF Flow, Carrying
<1>4. Waiting' = Waiting /\ Copied' = Copied /\ AtAgg' = AtAgg /\ Caching' = Caching
  BY Names DEF Waiting, Copied, AtAgg, Caching
<1>5. Budget'
  BY <1>4 DEF Flow, Budget
<1>6. \A u \in Stages : Carried(u)' \subseteq Carried(u)
  BY Names DEF Carried, In
<1>7. \A c \in Channels \ {"aggC"} : Once(chan'[c])
  BY DEF Flow, Apiece
<1>8. Apiece'
  BY <1>2, <1>6, <1>7 DEF Flow, Apiece
<1>9. ASSUME NEW o \in Outputs
      PROVE  /\ Reached(o)' \subseteq Produced'
             /\ \A s \in Stages \ {"O"} : Carried(s)' \cap Reached(o)' = {}
             /\ o > at' \/ (o = at' /\ pc'["O"] = "add") => work'["O"] \notin Reached(o)'
  <2>1. Reached(o)' \subseteq Produced'
    BY <1>1, <1>2 DEF Flow, Ahead
  <2>2. ASSUME NEW s \in Stages \ {"O"}
        PROVE  Carried(s)' \cap Reached(o)' = {}
    <3>1. m \notin Carried(s)
      BY <1>1, <2>2, Names DEF Flow, Apiece
    <3>2. Carried(s) \cap Reached(o) = {}
      BY <2>2 DEF Flow, Ahead
    <3> QED BY <1>6, <2>2, <3>1, <3>2
  <2>3. ASSUME o > at' \/ (o = at' /\ pc'["O"] = "add")
        PROVE  work'["O"] \notin Reached(o)'
    <3>1. CASE work'["O"] = 0
      <4>1. 0 \notin Produced
        BY <1>0, ProducedPositive
      <4> QED BY <1>2, <2>1, <3>1, <4>1
    <3>2. CASE work'["O"] # 0
      <4>1. o > at /\ work'["O"] = m
        BY <1>0, <2>3, <3>2
      <4>2. m \notin Reached(o) /\ o # at
        BY <1>0, <4>1 DEF Flow, Ahead
      <4> QED BY <4>1, <4>2
    <3> QED BY <3>1, <3>2
  <2> QED BY <2>1, <2>2, <2>3
<1>10. Ahead'
  BY <1>9 DEF Ahead
<1> QED BY <1>3, <1>5, <1>8, <1>10 DEF Flow

(* What OncePerOutput says of one output, with the batches named.          *)
Parts(h, a, t, f, w) ==
  /\ h \cap a = {} /\ h \cap t = {} /\ h \cap f = {} /\ h \cap w = {}
  /\ a \cap t = {} /\ a \cap f = {} /\ a \cap w = {}
  /\ t \cap f = {} /\ t \cap w = {} /\ f \cap w = {}

PartsOf(o) == Parts(held[o], hand["O"][o], hand["T"][o], hand["F"][o], written[o])

LEMMA OnceIsParts == OncePerOutput <=> \A o \in Outputs : PartsOf(o)
<1>1. ASSUME NEW o \in Outputs
      PROVE  InHand(o) = hand["O"][o] \cup hand["T"][o] \cup hand["F"][o]
  BY DEF InHand, Writers
<1>2. ASSUME NEW o \in Outputs
      PROVE  (/\ held[o] \cap (InHand(o) \cup written[o]) = {}
              /\ InHand(o) \cap written[o] = {}
              /\ \A v, w \in Writers : v # w => hand[v][o] \cap hand[w][o] = {})
             <=> PartsOf(o)
  <2>1. (\A v, w \in Writers : v # w => hand[v][o] \cap hand[w][o] = {})
        <=> /\ hand["O"][o] \cap hand["T"][o] = {} /\ hand["O"][o] \cap hand["F"][o] = {}
            /\ hand["T"][o] \cap hand["F"][o] = {}
    BY DEF Writers
  <2> QED BY <1>1, <2>1 DEF PartsOf, Parts
<1> QED BY <1>2 DEF OncePerOutput

LEMMA OnceIsPartsNext == (\A o \in Outputs : PartsOf(o))' => OncePerOutput'
BY OnceIsParts, PTL

LEMMA ReachedParts ==
  ASSUME NEW o \in Outputs
  PROVE  Reached(o) = held[o] \cup hand["O"][o] \cup hand["T"][o] \cup hand["F"][o]
                        \cup written[o]
BY DEF Reached, InHand, Writers

LEMMA ReachedPartsNext ==
  ASSUME NEW o \in Outputs
  PROVE  Reached(o)' = held'[o] \cup hand'["O"][o] \cup hand'["T"][o] \cup hand'["F"][o]
                        \cup written'[o]
BY DEF Reached, InHand, Writers

(* Only one output is touched.                                             *)
LEMMA OneOutput ==
  ASSUME OncePerOutput, NEW o \in Outputs, PartsOf(o)',
         \A x \in Outputs \ {o} : /\ held'[x] = held[x] /\ written'[x] = written[x]
                                  /\ \A w \in Writers : hand'[w][x] = hand[w][x]
  PROVE  /\ OncePerOutput'
         /\ \A x \in Outputs \ {o} : Reached(x)' = Reached(x)
<1>1. ASSUME NEW x \in Outputs, x # o
      PROVE  PartsOf(x)' /\ Reached(x)' = Reached(x)
  <2>1. PartsOf(x)
    BY OnceIsParts
  <2>2. /\ held'[x] = held[x] /\ written'[x] = written[x] /\ hand'["O"][x] = hand["O"][x]
        /\ hand'["T"][x] = hand["T"][x] /\ hand'["F"][x] = hand["F"][x]
    BY <1>1 DEF Writers
  <2>3. PartsOf(x)'
    BY <2>1, <2>2 DEF PartsOf
  <2> QED BY <2>2, <2>3, ReachedParts, ReachedPartsNext
<1>2. \A x \in Outputs : PartsOf(x)'
  BY <1>1
<1> QED BY <1>1, <1>2, OnceIsPartsNext

(* O adds a metric to the output at: to its buffer, or to a batch with     *)
(* some of it.                                                             *)
LEMMA OAddsFlow ==
  ASSUME FlushInv, Flow, OncePerOutput, OAdds
  PROVE  Flow' /\ OncePerOutput'
<1> DEFINE m == work["O"]
<1>0. /\ Typed /\ m # 0 /\ pc["O"] = "add"
      /\ held \in [Outputs -> SUBSET Nat] /\ hand \in [Writers -> [Outputs -> SUBSET Nat]]
      /\ UNCHANGED <<chan, cache, settled, gathered, pushed, written>>
  BY DEF FlushInv, Typed, OAdds, Flow, Carrying, count
<1>1. PICK o \in Outputs : o = at
  BY DEF FlushInv, Typed
<1>2. m \notin Reached(o) /\ PartsOf(o)
  BY <1>0, <1>1, OnceIsParts DEF Flow, Ahead
<1>3. /\ m \notin held[o] /\ m \notin written[o]
      /\ m \notin hand["O"][o] /\ m \notin hand["T"][o] /\ m \notin hand["F"][o]
  BY <1>2, ReachedParts
<1>4. /\ \A x \in Outputs \ {o} : /\ held'[x] = held[x] /\ written'[x] = written[x]
                                  /\ \A w \in Writers : hand'[w][x] = hand[w][x]
      /\ hand'["T"][o] = hand["T"][o] /\ hand'["F"][o] = hand["F"][o]
      /\ \/ held'[o] = held[o] \cup {m} /\ hand'["O"][o] = hand["O"][o]
         \/ \E rest \in SUBSET held[o] :
              held'[o] = held[o] \ rest /\ hand'["O"][o] = rest \cup {m}
  <2>1. CASE held' = [held EXCEPT ![o] = @ \cup {m}] /\ UNCHANGED hand
    BY <1>0, <2>1
  <2>2. ASSUME NEW rest \in SUBSET held[o],
               hand' = [hand EXCEPT !["O"][o] = rest \cup {m}],
               held' = [held EXCEPT ![o] = @ \ rest]
        PROVE  /\ \A x \in Outputs \ {o} : /\ held'[x] = held[x] /\ written'[x] = written[x]
                                           /\ \A w \in Writers : hand'[w][x] = hand[w][x]
               /\ hand'["T"][o] = hand["T"][o] /\ hand'["F"][o] = hand["F"][o]
               /\ held'[o] = held[o] \ rest /\ hand'["O"][o] = rest \cup {m}
    <3>1. \A w \in Writers, x \in Outputs :
            hand'[w][x] = IF w = "O" /\ x = o THEN rest \cup {m} ELSE hand[w][x]
      BY <1>0, <2>2
    <3> QED BY <1>0, <2>2, <3>1 DEF Writers
  <2> QED BY <1>1, <2>1, <2>2 DEF OAdds
<1>5. written'[o] = written[o]
  BY <1>0
<1>6. PartsOf(o)' /\ Reached(o)' \subseteq Reached(o) \cup {m}
  <2>1. CASE held'[o] = held[o] \cup {m} /\ hand'["O"][o] = hand["O"][o]
    BY <1>2, <1>3, <1>4, <1>5, <2>1, ReachedParts, ReachedPartsNext DEF PartsOf, Parts
  <2>2. ASSUME NEW rest \in SUBSET held[o],
               held'[o] = held[o] \ rest, hand'["O"][o] = rest \cup {m}
        PROVE  PartsOf(o)' /\ Reached(o)' \subseteq Reached(o) \cup {m}
    BY <1>2, <1>3, <1>4, <1>5, <2>2, ReachedParts, ReachedPartsNext DEF PartsOf, Parts
  <2> QED BY <1>4, <2>1, <2>2
<1>7. OncePerOutput' /\ \A x \in Outputs \ {o} : Reached(x)' = Reached(x)
  BY <1>4, <1>6, OneOutput
<1>8. /\ \A q \in Pipeline \ {"O"} : pc'[q] = pc[q] /\ work'[q] = work[q]
      /\ \/ at' = at + 1 /\ work'["O"] = work["O"] /\ pc'["O"] = "add"
         \/ at' = 1 /\ work'["O"] = 0 /\ pc'["O"] = "select"
         \/ at' = at /\ work'["O"] = work["O"] /\ pc'["O"] = "write"
  BY <1>0, Names DEF OAdds, OGoesOn, Goto, Holds, Typed
<1>9. Flow'
  BY <1>0, <1>1, <1>6, <1>7, <1>8, OGivesFlow
<1> QED BY <1>7, <1>9

(* A batch that was written, or was refused and is held again.             *)
LEMMA Settles ==
  ASSUME FlushInv, OncePerOutput, NEW w \in Writers, NEW o \in Outputs,
         Took(w, o) \/ Refused(w, o), hand' = [hand EXCEPT ![w][o] = {}]
  PROVE  OncePerOutput' /\ \A x \in Outputs : Reached(x)' \subseteq Reached(x)
<1>0. /\ held \in [Outputs -> SUBSET Nat] /\ written \in [Outputs -> SUBSET Nat]
      /\ hand \in [Writers -> [Outputs -> SUBSET Nat]]
  BY DEF FlushInv, Typed
<1>1. PartsOf(o)
  BY OnceIsParts
<1>2. \A v \in Writers, x \in Outputs :
        hand'[v][x] = IF v = w /\ x = o THEN {} ELSE hand[v][x]
  BY <1>0
<1>3. \A x \in Outputs \ {o} : held'[x] = held[x] /\ written'[x] = written[x]
  BY <1>0 DEF Took, Refused
<1>4. \/ held'[o] = held[o] /\ written'[o] = written[o] \cup hand[w][o]
      \/ held'[o] = held[o] \cup hand[w][o] /\ written'[o] = written[o]
  BY <1>0 DEF Took, Refused
<1>5. PartsOf(o)' /\ Reached(o)' \subseteq Reached(o)
  <2> USE <1>1, <1>2, <1>4, ReachedParts, ReachedPartsNext DEF PartsOf, Parts, Writers
  <2>1. CASE w = "O"
    BY <2>1
  <2>2. CASE w = "T"
    BY <2>2
  <2>3. CASE w = "F"
    BY <2>3
  <2> QED BY <2>1, <2>2, <2>3
<1> QED BY <1>2, <1>3, <1>5, OneOutput

LEMMA OWriteReturnsFlow ==
  ASSUME FlushInv, Flow, OncePerOutput, OWriteReturns
  PROVE  Flow' /\ OncePerOutput'
<1>0. /\ Typed /\ work["O"] # 0
      /\ UNCHANGED <<chan, cache, settled, gathered, pushed>>
  BY DEF FlushInv, OWriteReturns, Flow, Carrying, count
<1>1. PICK o \in Outputs : o = at
  BY DEF FlushInv, Typed
<1>2. OncePerOutput' /\ \A x \in Outputs : Reached(x)' \subseteq Reached(x)
  BY <1>1, Settles DEF OWriteReturns, Writers
<1>3. /\ \A q \in Pipeline \ {"O"} : pc'[q] = pc[q] /\ work'[q] = work[q]
      /\ \/ at' = at + 1 /\ work'["O"] = work["O"] /\ pc'["O"] = "add"
         \/ at' = 1 /\ work'["O"] = 0 /\ pc'["O"] = "select"
  BY <1>0, Names DEF OWriteReturns, OGoesOn, Goto, Holds, Typed
<1>4. Flow'
  BY <1>0, <1>2, <1>3, OGivesFlow
<1> QED BY <1>2, <1>4

(* A flush moves metrics about in an output.                               *)
LEMMA FlushFlow ==
  ASSUME FlushInv, Flow, OncePerOutput, NEW w \in Writers, NEW o \in Outputs, Flush(w, o)
  PROVE  Flow' /\ OncePerOutput'
<1>0. /\ held \in [Outputs -> SUBSET Nat] /\ hand \in [Writers -> [Outputs -> SUBSET Nat]]
      /\ UNCHANGED <<chan, work, pc, at, cache, settled, gathered, pushed>>
  BY DEF FlushInv, Typed, Flush, FlushTakes, FlushSucceeds, FlushFails, Finish, count
<1>1. OncePerOutput' /\ \A x \in Outputs : Reached(x)' \subseteq Reached(x)
  <2>1. CASE FlushSucceeds(w, o) \/ FlushFails(w, o)
    BY <2>1, Settles DEF FlushSucceeds, FlushFails, Finish
  <2>2. CASE FlushTakes(w, o)
    <3>1. PartsOf(o)
      BY OnceIsParts
    <3>2. \A v \in Writers, x \in Outputs :
            hand'[v][x] = IF v = w /\ x = o THEN held[o] ELSE hand[v][x]
      BY <1>0, <2>2 DEF FlushTakes
    <3>3. \A x \in Outputs : /\ held'[x] = IF x = o THEN {} ELSE held[x]
                             /\ written'[x] = written[x]
      BY <1>0, <2>2 DEF FlushTakes
    <3>4. PartsOf(o)' /\ Reached(o)' \subseteq Reached(o)
      <4> USE <3>1, <3>2, <3>3, ReachedParts, ReachedPartsNext DEF PartsOf, Parts, Writers
      <4>1. CASE w = "O"
        BY <4>1
      <4>2. CASE w = "T"
        BY <4>2
      <4>3. CASE w = "F"
        BY <4>3
      <4> QED BY <4>1, <4>2, <4>3
    <3> QED BY <3>2, <3>3, <3>4, OneOutput
  <2> QED BY <2>1, <2>2 DEF Flush
<1>2. Produced' = Produced
  BY <1>0 DEF Produced
<1>3. Carrying'
  BY <1>0, <1>2 DEF Flow, Carrying, In
<1>4. Budget'
  BY <1>0 DEF Flow, Budget, Waiting, Copied, AtAgg, Caching
<1>5. /\ \A u \in Stages : Carried(u)' \subseteq Carried(u)
      /\ \A c \in Channels \ {"aggC"} : Once(chan'[c])
  BY <1>0, SameCarried DEF Flow, Apiece
<1>6. /\ Apiece'
      /\ \A x \in Outputs : /\ Reached(x)' \subseteq Produced'
                            /\ \A s \in Stages \ {"O"} : Carried(s)' \cap Reached(x)' = {}
  BY <1>1, <1>2, <1>5, LeavesApart DEF Flow
<1>7. Ahead'
  BY <1>0, <1>1, <1>6 DEF Flow, Ahead
<1> QED BY <1>1, <1>3, <1>4, <1>6, <1>7 DEF Flow

-----------------------------------------------------------------------------
(* The steps that leave the pipeline alone.                                *)
LEMMA OthersFlow ==
  ASSUME FlushInv, Flow,
         \/ Run \/ Shutdown \/ Flusher \/ PStops \/ GStops \/ AStops \/ APanics \/ OStops
         \/ \E i \in Inputs : Gatherer(i) \/ LeakedReturns(i)
         \/ UNCHANGED vars
  PROVE  Flow' /\ UNCHANGED <<held, hand, written>>
<1> DEFINE Still == UNCHANGED <<chan, work, cache, settled, gathered, pushed, at, held, hand,
                                written>>
           Ends  == \A p \in Pipeline : pc'[p] \in {pc[p]} \cup Ended
<1>0. pc \in [Goroutines -> Wheres] /\ Goroutines = Pipeline \cup {"T", "flusher", "run"}
  BY DEF FlushInv, Typed, Goroutines
<1>1. ASSUME UNCHANGED pc
      PROVE  Ends
  BY <1>1
<1>2. ASSUME NEW how \in {"failed", "panicked"}, ProcessEnds(how)
      PROVE  Still /\ Ends
  BY <1>0, <1>2 DEF ProcessEnds, count, Ended
<1>3. ASSUME NEW p \in Goroutines, NEW w \in Wheres, Goto(p, w), p \notin Pipeline \/ w = "gone"
      PROVE  Ends
  BY <1>0, <1>3 DEF Goto, Ended
<1>4. CASE Run
  <2>1. {"wait", "stop", "returned"} \subseteq Wheres /\ "run" \in Goroutines /\ "run" \notin Pipeline
    BY <1>0 DEF Wheres, Pipeline
  <2>2. Still
    BY <1>2, <1>4 DEF Run, StartService, StartFails, StartInputs, RunCloses, RunReturns, output, count
  <2>3. Ends
    BY <1>1, <1>2, <1>3, <1>4, <2>1 DEF Run, StartService, StartFails, StartInputs, RunCloses, RunReturns
  <2> QED BY <2>2, <2>3, IdleFlow
<1>5. CASE Shutdown \/ \E i \in Inputs : Gatherer(i) \/ LeakedReturns(i)
  <2>1. Still /\ UNCHANGED pc
    BY <1>5 DEF Shutdown, Gatherer, StartGather, GatherReturns, AbandonGather, NextInterval,
       GathererStops, LeakedReturns, output, count
  <2> QED BY <1>1, <2>1, IdleFlow
<1>6. CASE Flusher
  <2>1. /\ {"sleep", "flush", "idle", "wait", "gone"} \subseteq Wheres
        /\ {"T", "flusher"} \subseteq Goroutines \ Pipeline
    BY <1>0 DEF Wheres, Pipeline, Ended
  <2>2. Still
    BY <1>6 DEF Flusher, Tick, TStarts, TEnds, FlusherStops, LastFlush, FlusherReturns,
       output, count
  <2>3. Ends
    BY <1>3, <1>6, <2>1 DEF Flusher, Tick, TStarts, TEnds, FlusherStops, LastFlush, FlusherReturns
  <2> QED BY <2>2, <2>3, IdleFlow
<1>7. CASE PStops \/ GStops \/ AStops \/ OStops
  <2>1. "gone" \in Wheres /\ Pipeline \subseteq Goroutines
    BY <1>0 DEF Wheres, Ended
  <2>2. Still
    BY <1>7 DEF PStops, GStops, AStops, OStops, output, count
  <2>3. Ends
    BY <1>3, <1>7, <2>1, Names DEF PStops, GStops, AStops, OStops
  <2> QED BY <2>2, <2>3, IdleFlow
<1>8. CASE APanics
  BY <1>2, <1>8, IdleFlow DEF APanics
<1>9. CASE UNCHANGED vars
  BY <1>1, <1>9, IdleFlow DEF vars
<1> QED BY <1>4, <1>5, <1>6, <1>7, <1>8, <1>9

(* What P, G and A send is a metric they hold.                             *)
LEMMA SendsFlow ==
  ASSUME FlushInv, Flow, PSends \/ GSends \/ APushes
  PROVE  Flow'
<1>1. CASE PSends
  <2>1. work["P"] # 0
    BY <1>1 DEF PSends, Flow, Carrying
  <2> QED BY <1>1, <2>1, PutFlow DEF PSends, output, count
<1>2. CASE GSends
  <2>1. work["G"] # 0
    BY <1>2 DEF GSends, Flow, Carrying
  <2> QED BY <1>2, <2>1, PutFlow DEF GSends, output, count
<1>3. CASE APushes
  <2>1. work["A"] # 0
    BY <1>3 DEF APushes, Flow, Carrying
  <2> QED BY <1>3, <2>1, PutFlow DEF APushes, output, count
<1> QED BY <1>1, <1>2, <1>3

(* Every step keeps the stages and the outputs in order.                   *)
LEMMA NextFlow ==
  ASSUME FlushInv, Flow, OncePerOutput, [Next]_vars
  PROVE  Flow' /\ OncePerOutput'
<1>0. ASSUME UNCHANGED <<held, hand, written>>
      PROVE  OncePerOutput'
  BY <1>0 DEF OncePerOutput, InHand
<1>1. CASE \E w \in Writers, o \in Outputs : Flush(w, o)
  BY <1>1, FlushFlow
<1>2. CASE OAdds \/ OWriteReturns
  BY <1>2, OAddsFlow, OWriteReturnsFlow
<1>3. CASE PReceives \/ PAggregates \/ GReceives \/ AReceives \/ ATicks \/ AddFields
  <2>1. Flow'
    BY <1>3, PReceivesFlow, PAggregatesFlow, GReceivesFlow, AReceivesFlow, ATicksFlow,
       AddFieldsFlow
  <2>2. UNCHANGED <<held, hand, written>>
    BY <1>3 DEF PReceives, PAggregates, GReceives, AReceives, ATicks, AddFields, output
  <2> QED BY <1>0, <2>1, <2>2
<1>4. CASE PSends \/ GSends \/ APushes
  <2>1. UNCHANGED <<held, hand, written>>
    BY <1>4 DEF PSends, GSends, APushes, output
  <2> QED BY <1>0, <1>4, <2>1, SendsFlow
<1>5. CASE OReceives
  <2>1. UNCHANGED <<held, hand, written>>
    BY <1>5 DEF OReceives
  <2> QED BY <1>0, <1>5, <2>1, OReceivesFlow
<1>6. CASE \/ Run \/ Shutdown \/ Flusher \/ PStops \/ GStops \/ AStops \/ APanics \/ OStops
           \/ \E i \in Inputs : Gatherer(i) \/ LeakedReturns(i)
           \/ UNCHANGED vars
  BY <1>0, <1>6, OthersFlow
<1> QED BY <1>1, <1>2, <1>3, <1>4, <1>5, <1>6 DEF Next, P, G, A, O

LEMMA NextPipeInv == PipeInv /\ [Next]_vars => PipeInv'
<1> SUFFICES ASSUME PipeInv, [Next]_vars PROVE PipeInv'
  OBVIOUS
<1>1. /\ FlushInv /\ Places /\ Switches /\ Gathering
      /\ Carrying /\ Budget /\ Apiece /\ Ahead /\ OncePerOutput
  BY DEF PipeInv
<1>2. FlushInv'
  BY <1>1, NextFlushInv
<1>3. Flow' /\ OncePerOutput'
  BY <1>1, NextFlow DEF Flow
<1>4. Places' /\ Switches' /\ Gathering'
  <2>1. CASE Next
    BY <1>1, <2>1, PlacesKept, SwitchesKept, GatheringKept
  <2>2. CASE UNCHANGED vars
    BY <1>1, <2>2 DEF vars, Places, Switches, Gathering
  <2> QED BY <2>1, <2>2
<1> QED BY <1>2, <1>3, <1>4 DEF PipeInv, Flow

LEMMA PipeInvAlways == Spec => []PipeInv
BY InitPipeInv, NextPipeInv, PTL DEF Spec

(* No output gets a metric twice, whatever O, the flush of a tick and the  *)
(* last flush are doing to it at once: what is in its buffers, in their    *)
(* batches and written is apart, for a metric comes to an output once.     *)
THEOREM NeverTwiceToAnOutput == Spec => []OncePerOutput
<1>1. PipeInv => OncePerOutput
  BY DEF PipeInv
<1> QED BY <1>1, PipeInvAlways, PTL

(* No channel is filled beyond its capacity, everything that moves is a    *)
(* metric that was gathered or pushed, and all else has its type.          *)
THEOREM AgentTypeCorrect == Spec => []TypeOK
<1>1. ASSUME PipeInv
      PROVE  TypeOK
  <2>1. /\ Typed /\ Places /\ Switches /\ Gathering
        /\ Carrying /\ Budget /\ Apiece /\ Ahead
    BY <1>1 DEF PipeInv, FlushInv
  <2>2. gathered \in 0 .. MaxMetrics /\ pushed \in 0 .. MaxMetrics
    <3>1. Waiting \in Nat /\ Copied \in Nat /\ gathered \in Nat /\ pushed \in Nat
      BY <2>1, Lengths, Names DEF Typed, Waiting, Copied
    <3>2. AtAgg \in {0, 1} /\ Caching \in {0, 1}
      BY DEF AtAgg, Caching
    <3> QED BY <2>1, <3>1, <3>2, CountsAssumption DEF Budget
  <2>3. Produced \subseteq Metric
    BY <2>2, CountsAssumption DEF Produced, Metric
  <2>4. ASSUME NEW c \in Channels
        PROVE  In(c) \subseteq Metric
    <3>1. CASE c = "aggC"
      BY <2>1, <2>3, <3>1 DEF Carrying
    <3>2. CASE c # "aggC"
      <4>1. c \in Stages /\ Carried(c) = In(c)
        BY <2>4, <3>2 DEF Stages, Carried
      <4> QED BY <2>1, <2>3, <4>1 DEF Apiece
    <3> QED BY <3>1, <3>2
  <2>5. chan \in [Channels -> UNION {[1 .. n -> Metric] : n \in 0 .. ChanSize}]
    <3>1. ASSUME NEW c \in Channels
          PROVE  chan[c] \in UNION {[1 .. n -> Metric] : n \in 0 .. ChanSize}
      <4> DEFINE s == chan[c]
                 n == Len(s)
      <4>1. s \in Seq(Nat) /\ n \in 0 .. ChanSize
        BY <2>1, <3>1, CountsAssumption DEF Typed, Carrying
      <4>2. \A i \in 1 .. n : s[i] \in Metric
        BY <2>4, <3>1 DEF In
      <4>3. s \in [1 .. n -> Metric]
        BY <4>1, <4>2
      <4> QED BY <4>1, <4>3
    <3> QED BY <2>1, <3>1 DEF Typed
  <2>6. work \in [Pipeline -> Metric \cup {0}]
    <3>1. ASSUME NEW p \in Pipeline
          PROVE  work[p] \in Metric \cup {0}
      <4>1. p \in Stages /\ Carried(p) = {work[p]} \ {0}
        BY <3>1, Names DEF Carried
      <4> QED BY <2>1, <2>3, <4>1 DEF Apiece
    <3> QED BY <2>1, <3>1 DEF Typed
  <2>7. \A o \in Outputs : Reached(o) \subseteq Metric
    BY <2>1, <2>3 DEF Ahead
  <2>8. /\ held \in [Outputs -> SUBSET Metric] /\ written \in [Outputs -> SUBSET Metric]
        /\ hand \in [Writers -> [Outputs -> SUBSET Metric]]
    <3>1. \A o \in Outputs : held[o] \subseteq Metric /\ written[o] \subseteq Metric
      BY <2>7, ReachedParts
    <3>2. \A w \in Writers, o \in Outputs : hand[w][o] \subseteq Metric
      BY <2>7, ReachedParts DEF Writers
    <3>3. \A w \in Writers : hand[w] \in [Outputs -> SUBSET Metric]
      BY <2>1, <3>2 DEF Typed
    <3> QED BY <2>1, <3>1, <3>3 DEF Typed
  <2>9. cache \subseteq Metric /\ settled \subseteq Metric
    BY <2>1, <2>3 DEF Carrying
  <2>10. /\ at \in Outputs
         /\ flush \in [Writers -> [Outputs -> {"no", "take", "write", "done"}]]
    BY <2>1 DEF Typed
  <2>11. {shutdown, aggClosed, service} \subseteq BOOLEAN
    BY <2>1 DEF Switches
  <2>12. /\ gatherer \in [Inputs -> {"new", "sleep", "gathering", "select"} \cup Ended]
         /\ call \in [Inputs -> {"none", "running"}] /\ leaked \in [Inputs -> 0 .. MaxLeaks]
    BY <2>1 DEF Gathering
  <2> QED BY <2>1, <2>2, <2>5, <2>6, <2>8, <2>9, <2>10, <2>11, <2>12, Zenon DEF TypeOK, Places
<1>2. PipeInv => TypeOK
  BY <1>1
<1> QED BY <1>2, PipeInvAlways, PTL

=============================================================================

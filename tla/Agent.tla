------------------------------- MODULE Agent --------------------------------
(***************************************************************************)
(* The pipeline that agent.Run sets up between the inputs and the outputs: *)
(*                                                                         *)
(*   inputs --metricC--> P --outMetricC--> O --AddMetric--> outputs        *)
(*                       |                 ^                               *)
(*                       +-r.metrics-> A --aggMetricC--> G                 *)
(*                                                                         *)
(* P, G and O are the goroutines of flusher, A is the goroutine of one     *)
(* RunningAggregator, T the flush that a tick starts, F the last flush,    *)
(* which the flusher's own goroutine makes when P, G and O are gone.       *)
(*                                                                         *)
(* An output is what OutputContract says of it, with buffers large enough  *)
(* never to overwrite; its batches are taken and written as one.           *)
(***************************************************************************)
EXTENDS Naturals, Sequences, FiniteSets

CONSTANTS Inputs,         \* the configured inputs
          HasService,     \* one of them is a telegraf.ServiceInput
          NOutputs,       \* how many outputs are configured
          Aggregating,    \* an aggregator is configured
          DropOriginal,   \* its drop_original
          ChanSize,       \* capacity of the four channels (100 in the code)
          MayStop,        \* somebody may close shutdown
          MaxMetrics,     \* bound: metrics gathered in a behaviour
          MaxLeaks        \* bound: abandoned Gather calls of one input

ASSUME CountsAssumption ==
  /\ NOutputs \in Nat \ {0} /\ ChanSize \in Nat \ {0}
  /\ MaxMetrics \in Nat /\ MaxLeaks \in Nat \ {0}
ASSUME SwitchAssumption ==
  {HasService, Aggregating, DropOriginal, MayStop} \subseteq BOOLEAN

VARIABLES shutdown,    \* the channel shutdown is closed
          chan,        \* the four channels
          aggClosed,   \* aggMetricC is closed
          pc,          \* where each goroutine is
          work,        \* the metric a goroutine of the pipeline holds, or 0
          cache,       \* what the aggregator has seen since its last reset
          gatherer,    \* where each input's gatherer is
          call,        \* the Gather call that the gatherer is waiting for
          leaked,      \* Gather calls nobody waits for any more
          service,     \* the service input is started
          at,          \* the output O's AddMetric loop has come to
          held,        \* metrics in the buffers of each output
          flush,       \* how far each flush is with each output
          hand,        \* the batch O or a flush has taken from an output
          written,     \* metrics each output has written
          gathered,    \* how many metrics were sent to metricC
          pushed,      \* how many aggregates A has made
          settled      \* metrics a processor or the aggregator kept back

input  == <<gatherer, call, leaked, service>>
output == <<at, held, flush, hand, written>>
count  == <<gathered, pushed, settled>>
vars   == <<shutdown, chan, aggClosed, pc, work, cache, gatherer, call, leaked,
            service, at, held, flush, hand, written, gathered, pushed, settled>>

Channels == {"metricC", "aggC", "aggMetricC", "outMetricC"}
Outputs  == 1 .. NOutputs
Writers  == {"O", "T", "F"}
Pipeline == {"P", "G", "O", "A"}
Goroutines == Pipeline \cup {"T", "flusher", "run"}

(* Metrics are numbered as they are gathered, aggregates after them.       *)
Metric == 1 .. 2 * MaxMetrics

Init ==
  /\ shutdown = FALSE /\ aggClosed = FALSE /\ service = FALSE
  /\ chan = [c \in Channels |-> <<>>]
  /\ pc = [p \in Goroutines |->
             CASE p \in {"P", "O"} -> "select"
               [] p = "G"          -> "range"
               [] p = "A"          -> IF Aggregating THEN "select" ELSE "gone"
               [] p = "T"          -> "idle"
               [] p = "flusher"    -> "loop"
               [] p = "run"        -> "starting"]
  /\ work = [p \in Pipeline |-> 0]
  /\ cache = {}
  /\ gatherer = [i \in Inputs |-> "new"]
  /\ call = [i \in Inputs |-> "none"]
  /\ leaked = [i \in Inputs |-> 0]
  /\ at = 1
  /\ held = [o \in Outputs |-> {}] /\ written = [o \in Outputs |-> {}]
  /\ flush = [w \in Writers |-> [o \in Outputs |-> "no"]]
  /\ hand = [w \in Writers |-> [o \in Outputs |-> {}]]
  /\ gathered = 0 /\ pushed = 0 /\ settled = {}

-----------------------------------------------------------------------------
HasRoom(c)     == Len(chan[c]) < ChanSize
Ready(c)       == chan[c] # <<>>
Send(c, m)     == chan' = [chan EXCEPT ![c] = Append(@, m)]
Receive(c)     == chan' = [chan EXCEPT ![c] = Tail(@)]
Goto(p, where) == pc' = [pc EXCEPT ![p] = where]
Holds(p, m)    == work' = [work EXCEPT ![p] = m]

(* The process is over, whatever its goroutines were doing.                *)
ProcessEnds(how) ==
  /\ pc' = [p \in Goroutines |-> how]
  /\ gatherer' = [i \in Inputs |-> how]
  /\ call' = [i \in Inputs |-> "none"]
  /\ leaked' = [i \in Inputs |-> 0]
  /\ service' = FALSE
  /\ flush' = [w \in Writers |-> [o \in Outputs |-> "no"]]
  /\ UNCHANGED <<shutdown, chan, aggClosed, work, cache, at, held, hand,
                 written, count>>

(* Run: the service inputs are started first.  If one fails to start, Run  *)
(* returns its error at once, and reloadLoop, which does not look at it,   *)
(* lets the process end.                                                   *)
StartService ==
  /\ pc["run"] = "starting"
  /\ HasService /\ ~ service
  /\ service' = TRUE
  /\ UNCHANGED <<shutdown, chan, aggClosed, pc, work, cache, gatherer, call,
                 leaked, output, count>>

StartFails ==
  /\ pc["run"] = "starting"
  /\ HasService
  /\ ProcessEnds("failed")

StartInputs ==
  /\ pc["run"] = "starting"
  /\ HasService => service
  /\ gatherer' = [i \in Inputs |-> "sleep"]
  /\ Goto("run", "wait")
  /\ UNCHANGED <<shutdown, chan, aggClosed, work, cache, call, leaked, service,
                 output, count>>

(* Run waits for the flusher, the aggregator and every gatherer, and then  *)
(* closes the outputs.                                                     *)
RunCloses ==
  /\ pc["run"] = "wait"
  /\ pc["flusher"] = "gone" /\ pc["A"] = "gone"
  /\ \A i \in Inputs : gatherer[i] = "gone"
  /\ Goto("run", "stop")
  /\ UNCHANGED <<shutdown, chan, aggClosed, work, cache, input, output, count>>

(* It stops the service inputs on its way out: their Stop is deferred.     *)
RunReturns ==
  /\ pc["run"] = "stop"
  /\ Goto("run", "returned")
  /\ service' = FALSE
  /\ UNCHANGED <<shutdown, chan, aggClosed, work, cache, gatherer, call,
                 leaked, output, count>>

(* What a Stop may wait for: a Gather call that holds the input's lock     *)
(* (statsd), or a goroutine of the input's that sends to metricC, which    *)
(* nobody empties any more (nats_consumer).                                *)
StopMayWait ==
  service /\ (~ HasRoom("metricC") \/ \E i \in Inputs : leaked[i] > 0)

(* A signal, or program.Stop.                                              *)
Shutdown ==
  /\ MayStop /\ ~ shutdown
  /\ shutdown' = TRUE
  /\ UNCHANGED <<chan, aggClosed, pc, work, cache, input, output, count>>

-----------------------------------------------------------------------------
(* The gatherers.  The timeout of gatherWithTimeout only counts an error,  *)
(* and so is no step.                                                      *)
StartGather(i) ==
  /\ gatherer[i] = "sleep"
  /\ gatherer' = [gatherer EXCEPT ![i] = "gathering"]
  /\ call' = [call EXCEPT ![i] = "running"]
  /\ UNCHANGED <<shutdown, chan, aggClosed, pc, work, cache, leaked, service,
                 output, count>>

(* A Gather call, waited for or not, or a service input adds a metric to   *)
(* its accumulator.                                                        *)
AddFields ==
  /\ \/ service
     \/ \E i \in Inputs : call[i] = "running" \/ leaked[i] > 0
  /\ gathered < MaxMetrics
  /\ HasRoom("metricC")
  /\ gathered' = gathered + 1
  /\ Send("metricC", gathered')
  /\ UNCHANGED <<shutdown, aggClosed, pc, work, cache, input, output, pushed,
                 settled>>

(* The call returns and its gatherer, which is waiting, takes the result.  *)
GatherReturns(i) ==
  /\ call[i] = "running"
  /\ call' = [call EXCEPT ![i] = "none"]
  /\ gatherer' = [gatherer EXCEPT ![i] = "select"]
  /\ UNCHANGED <<shutdown, chan, aggClosed, pc, work, cache, leaked, service,
                 output, count>>

(* gatherWithTimeout gives up on the call because of the shutdown.         *)
AbandonGather(i) ==
  /\ gatherer[i] = "gathering"
  /\ shutdown
  /\ gatherer' = [gatherer EXCEPT ![i] = "select"]
  /\ call' = [call EXCEPT ![i] = "none"]
  /\ leaked' = [leaked EXCEPT ![i] = @ + 1]
  /\ UNCHANGED <<shutdown, chan, aggClosed, pc, work, cache, service, output,
                 count>>

(* A call nobody waits for returns, to block on its channel done for ever. *)
LeakedReturns(i) ==
  /\ leaked[i] > 0
  /\ leaked' = [leaked EXCEPT ![i] = @ - 1]
  /\ UNCHANGED <<shutdown, chan, aggClosed, pc, work, cache, gatherer, call,
                 service, output, count>>

(* The select at the end of gatherer's loop: with both channels ready, it  *)
(* takes either.                                                           *)
NextInterval(i) ==
  /\ gatherer[i] = "select"
  /\ leaked[i] < MaxLeaks
  /\ gatherer' = [gatherer EXCEPT ![i] = "sleep"]
  /\ UNCHANGED <<shutdown, chan, aggClosed, pc, work, cache, call, leaked,
                 service, output, count>>

GathererStops(i) ==
  /\ gatherer[i] = "select"
  /\ shutdown
  /\ gatherer' = [gatherer EXCEPT ![i] = "gone"]
  /\ UNCHANGED <<shutdown, chan, aggClosed, pc, work, cache, call, leaked,
                 service, output, count>>

-----------------------------------------------------------------------------
(* P: processors, aggregators, and on to the outputs.                      *)
PReceives ==
  /\ pc["P"] = "select" /\ Ready("metricC")
  /\ Receive("metricC")
  /\ LET m == Head(chan["metricC"]) IN
       \/ settled' = settled \cup {m} /\ UNCHANGED <<pc, work>>
       \/ Holds("P", m) /\ Goto("P", "out") /\ UNCHANGED settled
       \/ Aggregating /\ Holds("P", m) /\ Goto("P", "agg") /\ UNCHANGED settled
  /\ UNCHANGED <<shutdown, aggClosed, cache, input, output, gathered, pushed>>

(* RunningAggregator.Add, for a metric that its filter passes.             *)
PAggregates ==
  /\ pc["P"] = "agg" /\ HasRoom("aggC")
  /\ Send("aggC", work["P"])
  /\ \/ /\ DropOriginal
        /\ settled' = settled \cup {work["P"]}
        /\ Holds("P", 0) /\ Goto("P", "select")
     \/ /\ ~ DropOriginal
        /\ Goto("P", "out")
        /\ UNCHANGED <<work, settled>>
  /\ UNCHANGED <<shutdown, aggClosed, cache, input, output, gathered, pushed>>

(* Mutant: the send does not wait for room.                                *)
PSends_unbounded ==
  /\ pc["P"] = "out"
  /\ Send("outMetricC", work["P"])
  /\ Holds("P", 0) /\ Goto("P", "select")
  /\ UNCHANGED <<shutdown, aggClosed, cache, input, output, count>>

PSends ==
  /\ pc["P"] = "out" /\ HasRoom("outMetricC")
  /\ Send("outMetricC", work["P"])
  /\ Holds("P", 0) /\ Goto("P", "select")
  /\ UNCHANGED <<shutdown, aggClosed, cache, input, output, count>>

(* Mutant: P leaves without closing aggMetricC.                            *)
PStops_leavesOpen ==
  /\ pc["P"] = "select" /\ shutdown /\ ~ Ready("metricC")
  /\ Goto("P", "gone")
  /\ UNCHANGED <<shutdown, chan, aggClosed, work, cache, input, output, count>>

PStops ==
  /\ pc["P"] = "select" /\ shutdown /\ ~ Ready("metricC")
  /\ aggClosed' = TRUE
  /\ Goto("P", "gone")
  /\ UNCHANGED <<shutdown, chan, work, cache, input, output, count>>

(* G: the aggregates, whose processed form is not the one that is sent on. *)
GReceives ==
  /\ pc["G"] = "range" /\ Ready("aggMetricC")
  /\ Receive("aggMetricC")
  /\ Holds("G", Head(chan["aggMetricC"])) /\ Goto("G", "out")
  /\ UNCHANGED <<shutdown, aggClosed, cache, input, output, count>>

GSends ==
  /\ pc["G"] = "out" /\ HasRoom("outMetricC")
  /\ Send("outMetricC", work["G"])
  /\ Holds("G", 0) /\ Goto("G", "range")
  /\ UNCHANGED <<shutdown, aggClosed, cache, input, output, count>>

GStops ==
  /\ pc["G"] = "range" /\ aggClosed /\ ~ Ready("aggMetricC")
  /\ Goto("G", "gone")
  /\ UNCHANGED <<shutdown, chan, aggClosed, work, cache, input, output, count>>

-----------------------------------------------------------------------------
(* A: RunningAggregator.Run.  Whether a metric is in the current window is *)
(* left open; a push makes one aggregate of what there is.                 *)
AReceives ==
  /\ pc["A"] = "select" /\ Ready("aggC")
  /\ Receive("aggC")
  /\ cache' \in {cache, cache \cup {Head(chan["aggC"])}}
  /\ UNCHANGED <<shutdown, aggClosed, pc, work, input, output, count>>

ATicks ==
  /\ pc["A"] = "select" /\ cache # {}
  /\ pushed' = pushed + 1
  /\ Holds("A", MaxMetrics + pushed') /\ Goto("A", "push")
  /\ UNCHANGED <<shutdown, chan, aggClosed, cache, input, output, gathered,
                 settled>>

APushes ==
  /\ pc["A"] = "push" /\ ~ aggClosed /\ HasRoom("aggMetricC")
  /\ Send("aggMetricC", work["A"])
  /\ Holds("A", 0) /\ Goto("A", "select")
  /\ cache' = {}
  /\ UNCHANGED <<shutdown, aggClosed, input, output, count>>

(* A send on the closed aggMetricC ends the whole process.                 *)
APanics ==
  /\ pc["A"] = "push" /\ aggClosed
  /\ ProcessEnds("panicked")

AStops ==
  /\ pc["A"] = "select" /\ shutdown /\ ~ Ready("aggC")
  /\ Goto("A", "gone")
  /\ UNCHANGED <<shutdown, chan, aggClosed, work, cache, input, output, count>>

-----------------------------------------------------------------------------
(* O: every metric is added to the outputs, one after the other.           *)
OReceives ==
  /\ pc["O"] = "select" /\ Ready("outMetricC")
  /\ Receive("outMetricC")
  /\ Holds("O", Head(chan["outMetricC"])) /\ Goto("O", "add")
  /\ at' = 1
  /\ UNCHANGED <<shutdown, aggClosed, cache, input, held, flush, hand, written,
                 count>>

(* AddMetric(o) is over: the next output, or the next metric.              *)
OGoesOn ==
  \/ /\ at < NOutputs
     /\ at' = at + 1
     /\ Goto("O", "add") /\ UNCHANGED work
  \/ /\ at = NOutputs
     /\ at' = 1
     /\ Goto("O", "select") /\ Holds("O", 0)

(* The metric stays in the output's buffer, or fills it up and is written  *)
(* with the others there (which are not those of a failed batch).          *)
OAdds ==
  /\ pc["O"] = "add"
  /\ \/ /\ held' = [held EXCEPT ![at] = @ \cup {work["O"]}]
        /\ OGoesOn
        /\ UNCHANGED hand
     \/ /\ \E rest \in SUBSET held[at] :
             /\ hand' = [hand EXCEPT !["O"][at] = rest \cup {work["O"]}]
             /\ held' = [held EXCEPT ![at] = @ \ rest]
        /\ Goto("O", "write")
        /\ UNCHANGED <<at, work>>
  /\ UNCHANGED <<shutdown, chan, aggClosed, cache, input, flush, written, count>>

OStops ==
  /\ pc["O"] = "select" /\ shutdown /\ ~ Ready("outMetricC")
  /\ Goto("O", "gone")
  /\ UNCHANGED <<shutdown, chan, aggClosed, work, cache, input, output, count>>

(* w has Output.Write called for its batch of output o, and it succeeds or *)
(* fails; a batch that failed is again held by the output.                 *)
Took(w, o) ==
  /\ written' = [written EXCEPT ![o] = @ \cup hand[w][o]]
  /\ UNCHANGED held

Refused(w, o) ==
  /\ held' = [held EXCEPT ![o] = @ \cup hand[w][o]]
  /\ UNCHANGED written

OWriteReturns ==
  /\ pc["O"] = "write"
  /\ Took("O", at) \/ Refused("O", at)
  /\ hand' = [hand EXCEPT !["O"][at] = {}]
  /\ OGoesOn
  /\ UNCHANGED <<shutdown, chan, aggClosed, cache, input, flush, count>>

-----------------------------------------------------------------------------
(* A flush: one goroutine for each output calls its Write.                 *)
StartFlush(w) == flush' = [flush EXCEPT ![w] = [o \in Outputs |-> "take"]]
FlushDone(w)  == \A o \in Outputs : flush[w][o] = "done"
EndFlush(w)   == flush' = [flush EXCEPT ![w] = [o \in Outputs |-> "no"]]

(* Mutant: the batch is read but stays in the buffer.                      *)
FlushTakes_copies(w, o) ==
  /\ flush[w][o] = "take"
  /\ hand' = [hand EXCEPT ![w][o] = held[o]]
  /\ flush' = [flush EXCEPT ![w][o] = IF held[o] = {} THEN "done" ELSE "write"]
  /\ UNCHANGED <<shutdown, chan, aggClosed, pc, work, cache, input, at, held,
                 written, count>>

FlushTakes(w, o) ==
  /\ flush[w][o] = "take"
  /\ hand' = [hand EXCEPT ![w][o] = held[o]]
  /\ held' = [held EXCEPT ![o] = {}]
  /\ flush' = [flush EXCEPT ![w][o] = IF held[o] = {} THEN "done" ELSE "write"]
  /\ UNCHANGED <<shutdown, chan, aggClosed, pc, work, cache, input, at, written,
                 count>>

Finish(w, o) ==
  /\ flush[w][o] = "write"
  /\ hand' = [hand EXCEPT ![w][o] = {}]
  /\ flush' = [flush EXCEPT ![w][o] = "done"]
  /\ UNCHANGED <<shutdown, chan, aggClosed, pc, work, cache, input, at, count>>

FlushSucceeds(w, o) == Finish(w, o) /\ Took(w, o)
FlushFails(w, o)    == Finish(w, o) /\ Refused(w, o)

(* A tick starts a goroutine that flushes, unless the last one still has   *)
(* the semaphore.  It sleeps for the jitter first.                         *)
Tick ==
  /\ pc["flusher"] = "loop" /\ pc["T"] = "idle"
  /\ Goto("T", "sleep")
  /\ UNCHANGED <<shutdown, chan, aggClosed, work, cache, input, output, count>>

TStarts ==
  /\ pc["T"] = "sleep"
  /\ Goto("T", "flush")
  /\ StartFlush("T")
  /\ UNCHANGED <<shutdown, chan, aggClosed, work, cache, input, at, held, hand,
                 written, count>>

(* Mutant: the semaphore is never given back.                              *)
TEnds_keepsSemaphore ==
  /\ pc["T"] = "flush" /\ FlushDone("T")
  /\ Goto("T", "gone")
  /\ EndFlush("T")
  /\ UNCHANGED <<shutdown, chan, aggClosed, work, cache, input, at, held, hand,
                 written, count>>

TEnds ==
  /\ pc["T"] = "flush" /\ FlushDone("T")
  /\ Goto("T", "idle")
  /\ EndFlush("T")
  /\ UNCHANGED <<shutdown, chan, aggClosed, work, cache, input, at, held, hand,
                 written, count>>

(* The flusher leaves its loop...                                          *)
FlusherStops ==
  /\ pc["flusher"] = "loop" /\ shutdown
  /\ Goto("flusher", "wait")
  /\ UNCHANGED <<shutdown, chan, aggClosed, work, cache, input, output, count>>

(* Mutant: O is missing from the WaitGroup.                                *)
LastFlush_early ==
  /\ pc["flusher"] = "wait"
  /\ \A p \in {"P", "G"} : pc[p] = "gone"
  /\ Goto("flusher", "flush")
  /\ StartFlush("F")
  /\ UNCHANGED <<shutdown, chan, aggClosed, work, cache, input, at, held, hand,
                 written, count>>

(* ... and waits for P, G and O before it makes the last flush.            *)
LastFlush ==
  /\ pc["flusher"] = "wait"
  /\ \A p \in {"P", "G", "O"} : pc[p] = "gone"
  /\ Goto("flusher", "flush")
  /\ StartFlush("F")
  /\ UNCHANGED <<shutdown, chan, aggClosed, work, cache, input, at, held, hand,
                 written, count>>

FlusherReturns ==
  /\ pc["flusher"] = "flush" /\ FlushDone("F")
  /\ Goto("flusher", "gone")
  /\ EndFlush("F")
  /\ UNCHANGED <<shutdown, chan, aggClosed, work, cache, input, at, held, hand,
                 written, count>>

-----------------------------------------------------------------------------
Run == StartService \/ StartFails \/ StartInputs \/ RunCloses \/ RunReturns

Gatherer(i) ==
  \/ StartGather(i) \/ GatherReturns(i) \/ AbandonGather(i)
  \/ NextInterval(i) \/ GathererStops(i)

P == PReceives \/ PAggregates \/ PSends \/ PStops
G == GReceives \/ GSends \/ GStops
A == AReceives \/ ATicks \/ APushes \/ APanics \/ AStops
O == OReceives \/ OAdds \/ OWriteReturns \/ OStops

Flush(w, o) ==
  \/ FlushTakes(w, o) \/ FlushSucceeds(w, o) \/ FlushFails(w, o)

Flusher == Tick \/ TStarts \/ TEnds \/ FlusherStops \/ LastFlush \/ FlusherReturns

Next ==
  \/ Run \/ Shutdown \/ AddFields \/ P \/ G \/ A \/ O \/ Flusher
  \/ \E i \in Inputs : Gatherer(i) \/ LeakedReturns(i)
  \/ \E w \in Writers, o \in Outputs : Flush(w, o)

Spec == Init /\ [][Next]_vars

(* Goroutines keep running, and the channels and the select statements of  *)
(* Go starve nobody: senders queue up, and a select with several ready     *)
(* channels picks one at random.  Tickers tick.  Gather and Start need not *)
(* return and add what they like, and Stop returns if it has nothing to    *)
(* wait for; Output.Write returns, and when it is tried again and again,   *)
(* it succeeds now and then.                                               *)
Fairness ==
  /\ SF_vars(P) /\ SF_vars(G) /\ SF_vars(A) /\ SF_vars(O)
  /\ WF_vars(StartInputs) /\ WF_vars(RunCloses)
  /\ WF_vars(~ StopMayWait /\ RunReturns)
  /\ \A i \in Inputs : /\ WF_vars(StartGather(i))
                       /\ WF_vars(AbandonGather(i))
                       /\ SF_vars(GathererStops(i))
  /\ WF_vars(Tick) /\ WF_vars(TStarts \/ TEnds)
  /\ WF_vars(FlusherStops \/ LastFlush \/ FlusherReturns)
  /\ \A w \in {"T", "F"}, o \in Outputs :
       /\ WF_vars(Flush(w, o))
       /\ SF_vars(FlushSucceeds(w, o))

FairSpec == Spec /\ Fairness

(* What of it a shutdown needs: an output need not ever succeed.           *)
StopFairness ==
  /\ SF_vars(P) /\ SF_vars(G) /\ SF_vars(A) /\ SF_vars(O)
  /\ WF_vars(StartInputs) /\ WF_vars(RunCloses)
  /\ WF_vars(~ StopMayWait /\ RunReturns)
  /\ \A i \in Inputs : /\ WF_vars(StartGather(i))
                       /\ WF_vars(AbandonGather(i))
                       /\ SF_vars(GathererStops(i))
  /\ WF_vars(FlusherStops \/ LastFlush \/ FlusherReturns)
  /\ \A o \in Outputs : WF_vars(Flush("F", o))

StopSpec == Spec /\ StopFairness

-----------------------------------------------------------------------------
Ended == {"gone", "failed", "panicked"}

(* No channel is ever filled beyond its capacity, and the pipeline only    *)
(* carries metrics that were gathered or pushed.                           *)
TypeOK ==
  /\ {shutdown, aggClosed, service} \subseteq BOOLEAN
  /\ chan \in [Channels -> UNION {[1 .. n -> Metric] : n \in 0 .. ChanSize}]
  /\ pc["P"] \in {"select", "agg", "out"} \cup Ended
  /\ pc["G"] \in {"range", "out"} \cup Ended
  /\ pc["O"] \in {"select", "add", "write"} \cup Ended
  /\ pc["A"] \in {"select", "push"} \cup Ended
  /\ pc["T"] \in {"idle", "sleep", "flush"} \cup Ended
  /\ pc["flusher"] \in {"loop", "wait", "flush"} \cup Ended
  /\ pc["run"] \in {"starting", "wait", "stop", "returned"} \cup Ended
  /\ work \in [Pipeline -> Metric \cup {0}]
  /\ cache \subseteq Metric
  /\ gatherer \in [Inputs -> {"new", "sleep", "gathering", "select"} \cup Ended]
  /\ call \in [Inputs -> {"none", "running"}]
  /\ leaked \in [Inputs -> 0 .. MaxLeaks]
  /\ at \in Outputs
  /\ held \in [Outputs -> SUBSET Metric]
  /\ written \in [Outputs -> SUBSET Metric]
  /\ flush \in [Writers -> [Outputs -> {"no", "take", "write", "done"}]]
  /\ hand \in [Writers -> [Outputs -> SUBSET Metric]]
  /\ gathered \in 0 .. MaxMetrics /\ pushed \in 0 .. MaxMetrics
  /\ settled \subseteq Metric

InHand(o)  == UNION {hand[w][o] : w \in Writers}
Reached(o) == held[o] \cup InHand(o) \cup written[o]

(* An output never gets a metric twice, although O, the flush of a tick    *)
(* and the last flush may all be writing to it at once: a metric is in its *)
(* buffers, in one of the batches, or written.                             *)
OncePerOutput ==
  \A o \in Outputs :
    /\ held[o] \cap (InHand(o) \cup written[o]) = {}
    /\ InHand(o) \cap written[o] = {}
    /\ \A v, w \in Writers : v # w => hand[v][o] \cap hand[w][o] = {}

(* The last flush is the last: once it has begun, no metric reaches an     *)
(* output any more, so none is left behind unwritten for want of a flush.  *)
NothingAfterLastFlush ==
  [][pc["flusher"] \in {"flush", "gone"} =>
       \A o \in Outputs : Reached(o)' = Reached(o)]_vars

Produced == (1 .. gathered) \cup {MaxMetrics + k : k \in 1 .. pushed}

(* As long as nobody stops the agent, every metric and every aggregate is  *)
(* written by every output, unless a processor or drop_original kept it    *)
(* back: the channels, however small, never block one another for ever.    *)
EverythingWritten ==
  \A m \in Metric, o \in Outputs :
    m \in Produced ~> m \in settled \cup written[o] \/ pc["run"] = "failed"

(* "Hang on, flushing any cached metrics before shutdown": once shutdown   *)
(* is closed and the service inputs are started, Run returns.              *)
Terminates ==
  shutdown /\ pc["run"] # "starting" ~>
    pc["run"] \in {"returned", "failed", "panicked"}

(* A goroutine waits for room in a channel whose only reader has left: O   *)
(* and A leave when they find their channels empty, although P and G may   *)
(* still be sending.                                                       *)
Stranded ==
  \/ pc["A"] = "gone" /\ pc["P"] = "agg" /\ ~ HasRoom("aggC")
  \/ /\ pc["O"] = "gone" /\ ~ HasRoom("outMetricC")
     /\ pc["P"] = "out" \/ pc["G"] = "out"

(* A service input's Stop waits for what may never come; the property      *)
(* excepts only the one for which it never does.                           *)
HeldUp == pc["run"] = "stop" /\ StopMayWait

(* That is all that can keep Run from returning after a shutdown: neither  *)
(* a Gather call that hangs, unless a Stop waits for it, nor a service     *)
(* input that goes on adding, unless its own Stop waits for the channel it *)
(* has filled, nor an output that fails, nor the order in which the        *)
(* goroutines leave.                                                       *)
StopsUnlessStranded ==
  shutdown /\ pc["run"] # "starting" ~>
    Stranded \/ []HeldUp \/ pc["run"] \in {"returned", "failed", "panicked"}
=============================================================================

---------------------------- MODULE StatsdProofs ----------------------------
(***************************************************************************)
(* Theorems about the process with a statsd input, for any connections,    *)
(* limits, lines, types of lines and signals.                              *)
(***************************************************************************)
EXTENDS ReloadLoop, FiniteSetTheorems, TLAPS

-----------------------------------------------------------------------------
(* The inductive invariant, part by part.                                   *)

(* What the argument needs of the types.                                   *)
Booleans == port \in BOOLEAN /\ inClosed \in BOOLEAN /\ done \in BOOLEAN

Places ==
  /\ protocol \in Protocols /\ limit \in Limits
  /\ listener \in {"none", "open", "closed"}
  /\ lpc \in {"off", "listen", "check", "ready", "accepted"}
  /\ ppc \in {"off", "select", "line"} /\ lock \in {None, "gather", "stop"}
  /\ gpc \in {"off", "lock", "add", "delete"}
  /\ spc \in {"off", "running", "stop", "close", "cut", "wait", "last"}

Connections ==
  /\ held \in Conn \union {NoConn}
  /\ hpc \in [Conn -> {"off", "held", "check", "scan", "return", "clean", "gone"}]
  /\ open \subseteq Conn /\ conns \subseteq Conn

Queues ==
  /\ limit \in Limits
  /\ in \in Seq(Types \union {"bad"}) /\ Len(in) <= limit
  /\ room \in 0 .. MetricCSize

Basic == Booleans /\ Places /\ Connections /\ Queues

LoopBasic ==
  /\ main \in {"top", "load", "start", "run", "stop", "hung", "exited"}
  /\ reload \in {<<>>, <<TRUE>>, <<FALSE>>}
  /\ sig \in {"waiting", "term", "hup", "put", "close", "gone"}
  /\ shutdown \in BOOLEAN /\ stop \in BOOLEAN /\ signals \in 0 .. MaxSignals

Runs(where) == IF where = "off" THEN 0 ELSE 1

(* The wait group counts the listener, the parser and the handlers that    *)
(* have not said that they are done; nobody is left when Stop closes in.   *)
Counted ==
  /\ IsFiniteSet(Handling) /\ IsFiniteSet(Cleaning)
  /\ wg = Runs(lpc) + Runs(ppc) + Cardinality(Handling)
  /\ tokens \in Nat
  /\ spc \in {"off", "last"} => lpc = "off" /\ ppc = "off" /\ Handling = {}
  /\ inClosed => spc = "off"
  /\ spc # "off" \/ inClosed
       => tokens + Cardinality(Handling) + Cardinality(Cleaning) = MaxTCPConnections
  /\ spc = "off" /\ ~ inClosed => tokens = 0 /\ Cleaning = {}
  /\ lpc = "accepted" => held \in Conn /\ hpc[held] = "held"
  /\ main = "run" => spc = "running"

(* Gather holds the lock from its first report to its last deletion, and   *)
(* between the report and the deletion of a type only that type is in the  *)
(* cache and reported too.                                                 *)
Reporting ==
  /\ cache \in [Good -> Nat] /\ parsed \in [Good -> Nat] /\ reported \in [Good -> Nat]
  /\ lock = "gather" <=> gpc \in {"add", "delete"}
  /\ spc \in {"close", "cut"} => lock = "stop"
  /\ \A t \in Good :
       IF t \notin DeleteOnGather THEN parsed[t] = cache[t]
       ELSE IF gpc = "delete" /\ t = Head(left) THEN parsed[t] = reported[t]
       ELSE parsed[t] = cache[t] + reported[t]

(* Every drop is a line's, but for the buffer that the listener sends once *)
(* when its socket is closed.                                              *)
Dropping ==
  /\ lines \in 0 .. MaxLines /\ drops \in Nat
  /\ spc \in {"close", "cut", "wait", "last"} => done
  /\ listener = "closed" => done
  /\ lpc = "listen" => listener = "none"
  /\ drops <= lines + (IF listener = "closed" /\ lpc \in {"check", "off"} THEN 1 ELSE 0)

IInv == Basic /\ LoopBasic /\ Counted /\ Reporting /\ Dropping

-----------------------------------------------------------------------------
(* The first states satisfy the invariant.                                 *)
LEMMA InitIInv == Init => IInv
<1> SUFFICES ASSUME Init PROVE IInv
  OBVIOUS
<1> USE DEF Init, InitStatsd
<1>1. Handling = {} /\ Cleaning = {}
  BY DEF Handling, Cleaning
<1>2. Places
  BY DEF Places
<1>9. Booleans
  BY Zenon DEF Booleans
<1>7. Connections
  BY DEF Connections, NoConn
<1>8. Queues
  BY StatsdAssumption DEF Queues
<1>6. LoopBasic
  <2>1. reload \in {<<>>, <<TRUE>>, <<FALSE>>}
    BY Zenon
  <2>2. signals \in 0 .. MaxSignals
    BY MaxSignalsAssumption
  <2> QED BY <2>1, <2>2, Zenon DEF LoopBasic
<1>3. Counted
  BY <1>1, FS_EmptySet DEF Counted, Runs
<1>4. Reporting
  BY DEF Reporting, None
<1>5. Dropping
  BY StatsdAssumption DEF Dropping
<1> QED BY <1>2, <1>3, <1>4, <1>5, <1>6, <1>7, <1>8, <1>9 DEF IInv, Basic

(* A step of the process is a step of its loop, of the signals, or of the  *)
(* input, which leaves the loop alone.                                     *)
InputStep ==
  /\ UNCHANGED loop
  /\ \/ Listen \/ ListenerChecks \/ Admit \/ SetKeepAliveFails \/ AcceptFails
     \/ \E c \in Conn : Accept(c)
     \/ \E l \in Types \union {"bad"} : Read(l)
     \/ \E c \in Conn : \/ HandlerChecks(c) \/ ScanEnds(c)
                         \/ HandlerReturns(c) \/ HandlerCleans(c)
                         \/ \E l \in Types : Scan(c, l)
     \/ ParserTakes \/ ParserEnds \/ Parse
     \/ GatherStarts \/ GatherLocks \/ GatherAdds \/ GatherDeletes \/ GatherEnds
     \/ StopSignals \/ StopCloses \/ StopCuts \/ StopWaits \/ StopEnds
LoopStep ==
  /\ UNCHANGED vars
  /\ \/ Top \/ Load \/ RunReturns \/ ServiceStop
     \/ TakesStop \/ TakesTerm \/ TakesReload \/ PutsReload \/ ClosesShutdown
     \/ \E s \in {"term", "hup"} : Signal(s)

LEMMA NextSteps ==
  ASSUME [Next]_allVars
  PROVE  InputStep \/ LoopStep \/ RunStarts \/ RunLeaves \/ RunHangs \/ UNCHANGED <<vars, loop>>
<1>1. CASE Input /\ UNCHANGED loop
  BY <1>1 DEF Input, InputStep, ListenerSteps, ParserSteps, GatherSteps, StopSteps,
     HandlerSteps
<1>2. CASE SignalSteps \/ ServiceStop \/ \E s \in {"term", "hup"} : Signal(s)
  BY <1>2 DEF SignalSteps, LoopStep, ServiceStop, TakesStop, TakesTerm, TakesReload,
     PutsReload, ClosesShutdown, Signal
<1>3. CASE MainSteps
  BY <1>3 DEF MainSteps, LoopStep, Top, Load, RunReturns
<1> QED BY <1>1, <1>2, <1>3 DEF Next, allVars

(* The types: of the queues, of the connections, of the rest.              *)
LEMMA QueuesKept ==
  ASSUME Queues, InputStep
  PROVE  Queues'
<1> USE StatsdAssumption DEF config, listens, handles, parses, reports, Queues
<1>1. ASSUME NEW l \in Types \union {"bad"}, Read(l) \/ \E c \in Conn : Scan(c, l)
      PROVE  Queues'
  <2>1. CASE CanSend
    <3>1. Send(l) /\ UNCHANGED <<limit, room>>
      BY <1>1, <2>1 DEF Read, Scan
    <3> QED BY <2>1, <3>1 DEF CanSend, Send
  <2>2. CASE ~ CanSend
    BY <1>1, <2>2 DEF Read, Scan
  <2> QED BY <2>1, <2>2
<1>2. CASE ParserTakes
  BY <1>2 DEF ParserTakes
<1>3. CASE GatherAdds
  BY <1>3 DEF GatherAdds
<1>4. CASE UNCHANGED <<limit, in, room>>
  BY <1>4
<1> QED BY <1>1, <1>2, <1>3, <1>4
  DEF InputStep, Listen, ListenerChecks, Admit, SetKeepAliveFails, AcceptFails, Accept,
      HandlerChecks, ScanEnds, HandlerReturns, HandlerCleans, ParserEnds, Parse,
      GatherStarts, GatherLocks, GatherDeletes, GatherEnds, StopSignals, StopCloses,
      StopCuts, StopWaits, StopEnds

LEMMA ConnectionsKept ==
  ASSUME Connections, lpc = "accepted" => held \in Conn, InputStep
  PROVE  Connections'
<1> USE DEF config, listens, handles, parses, reports, Connections
<1>1. CASE Admit
  BY <1>1 DEF Admit
<1>2. CASE SetKeepAliveFails
  BY <1>2 DEF SetKeepAliveFails
<1>3. CASE \E c \in Conn : Accept(c)
  BY <1>3 DEF Accept
<1>4. CASE \E c \in Conn : \/ HandlerChecks(c) \/ ScanEnds(c) \/ HandlerReturns(c)
                            \/ HandlerCleans(c) \/ \E l \in Types : Scan(c, l)
  BY <1>4 DEF HandlerChecks, ScanEnds, HandlerReturns, HandlerCleans, Scan, HandlerAt
<1>5. CASE StopCuts
  BY <1>5 DEF StopCuts
<1>6. CASE UNCHANGED <<held, hpc, open, conns>>
  BY <1>6
<1> QED BY <1>1, <1>2, <1>3, <1>4, <1>5, <1>6
  DEF InputStep, Listen, ListenerChecks, AcceptFails, Read,
      ParserTakes, ParserEnds, Parse,
      GatherStarts, GatherLocks, GatherAdds, GatherDeletes, GatherEnds, StopSignals,
      StopCloses, StopWaits, StopEnds

LEMMA BooleansKept ==
  ASSUME Booleans, InputStep
  PROVE  Booleans'
<1> USE DEF config, listens, handles, parses, reports, Booleans
<1>1. CASE Listen
  BY <1>1, Zenon DEF Listen
<1>2. CASE StopSignals
  BY <1>2 DEF StopSignals
<1>3. CASE StopCloses
  BY <1>3, Zenon DEF StopCloses
<1>4. CASE StopEnds
  BY <1>4 DEF StopEnds
<1>5. CASE UNCHANGED <<port, inClosed, done>>
  BY <1>5
<1> QED BY <1>1, <1>2, <1>3, <1>4, <1>5
  DEF InputStep, ListenerChecks, Admit, SetKeepAliveFails, AcceptFails, Accept,
      Read, HandlerChecks, ScanEnds, HandlerReturns, HandlerCleans, Scan,
      ParserTakes, ParserEnds, Parse, GatherStarts, GatherLocks, GatherAdds,
      GatherDeletes, GatherEnds, StopCuts, StopWaits

LEMMA PlacesKept ==
  ASSUME Places, InputStep
  PROVE  Places'
<1> USE DEF config, listens, handles, parses, reports, Places, None
<1>1. ASSUME NEW l \in Types \union {"bad"}, Read(l) \/ \E c \in Conn : Scan(c, l)
      PROVE  Places'
  <2>1. ppc' \in {ppc, "line"}
    BY <1>1 DEF Read, Scan, Send
  <2> QED BY <1>1, <2>1 DEF Read, Scan
<1>2. CASE Listen \/ ListenerChecks \/ AcceptFails \/ SetKeepAliveFails \/ Admit
  BY <1>2 DEF Listen, ListenerChecks, AcceptFails, SetKeepAliveFails, Admit
<1>3. CASE \E c \in Conn : \/ Accept(c) \/ HandlerChecks(c) \/ ScanEnds(c)
                            \/ HandlerReturns(c) \/ HandlerCleans(c)
  BY <1>3 DEF Accept, HandlerChecks, ScanEnds, HandlerReturns, HandlerCleans
<1>4. CASE ParserTakes \/ ParserEnds \/ Parse
  BY <1>4 DEF ParserTakes, ParserEnds, Parse
<1>5. CASE GatherStarts \/ GatherLocks \/ GatherAdds \/ GatherDeletes \/ GatherEnds
  BY <1>5 DEF GatherStarts, GatherLocks, GatherAdds, GatherDeletes, GatherEnds
<1>6. CASE StopSignals \/ StopCloses \/ StopCuts \/ StopWaits \/ StopEnds
  BY <1>6 DEF StopSignals, StopCloses, StopCuts, StopWaits, StopEnds
<1> QED BY <1>1, <1>2, <1>3, <1>4, <1>5, <1>6 DEF InputStep

(* What is counted does not depend on the rest.                            *)
counting == <<hpc, wg, lpc, ppc, tokens, spc, inClosed, held, main>>

LEMMA SameHandlers ==
  ASSUME UNCHANGED hpc
  PROVE  Handling' = Handling /\ Cleaning' = Cleaning
BY DEF Handling, Cleaning

LEMMA CountedKept ==
  ASSUME Places, Connections, Counted, InputStep
  PROVE  Counted'
<1> USE DEF config, listens, handles, parses, reports, loop
<1>1. Cardinality(Handling) \in Nat /\ Cardinality(Cleaning) \in Nat
  BY FS_CardinalityType DEF Counted
<1>2. UNCHANGED main
  BY DEF InputStep
<1>3. CASE UNCHANGED counting
  BY <1>3, SameHandlers DEF counting, Counted, Runs
<1>4. CASE ListenerChecks \/ SetKeepAliveFails \/ AcceptFails
  <2>1. UNCHANGED <<hpc, ppc, tokens, spc, inClosed>>
    BY <1>4 DEF ListenerChecks, SetKeepAliveFails, AcceptFails
  <2>2. \/ UNCHANGED <<wg, held>> /\ lpc # "off" /\ lpc' \notin {"off", "accepted"}
        \/ lpc # "off" /\ lpc' = "off" /\ wg' = wg - 1
    BY <1>4 DEF ListenerChecks, SetKeepAliveFails, AcceptFails
  <2> QED BY <1>1, <1>2, <2>1, <2>2, SameHandlers DEF Counted, Runs
<1>5. CASE Listen
  <2>1. UNCHANGED <<hpc, ppc, tokens, spc, inClosed, wg, held>>
    BY <1>5 DEF Listen
  <2>2. lpc = "listen" /\ lpc' \in {"listen", "check"}
    BY <1>5 DEF Listen
  <2> QED BY <1>1, <1>2, <2>1, <2>2, SameHandlers DEF Counted, Runs
<1>6. ASSUME NEW l \in Types \union {"bad"}, Read(l)
      PROVE  Counted'
  <2>1. UNCHANGED <<hpc, tokens, spc, inClosed, wg, held>>
    BY <1>6 DEF Read
  <2>2. lpc = "ready" /\ lpc' = "check" /\ (ppc' = "off" <=> ppc = "off")
    BY <1>6 DEF Read, CanSend, Send
  <2> QED BY <1>1, <1>2, <2>1, <2>2, SameHandlers DEF Counted, Runs
<1>7. CASE ParserTakes \/ ParserEnds \/ Parse
  <2>1. UNCHANGED <<hpc, lpc, tokens, spc, inClosed, held>>
    BY <1>7 DEF ParserTakes, ParserEnds, Parse
  <2>2. \/ UNCHANGED wg /\ ppc # "off" /\ ppc' # "off"
        \/ wg' = wg - 1 /\ ppc # "off" /\ ppc' = "off"
    BY <1>7 DEF ParserTakes, ParserEnds, Parse
  <2> QED BY <1>1, <1>2, <2>1, <2>2, SameHandlers DEF Counted, Runs
<1>8. CASE StopWaits
  <2>1. /\ UNCHANGED <<hpc, wg, lpc, ppc, tokens, inClosed, held>>
        /\ spc = "wait" /\ spc' = "last" /\ wg = 0
    BY <1>8 DEF StopWaits
  <2>2. lpc = "off" /\ ppc = "off" /\ Cardinality(Handling) = 0
    BY <1>1, <2>1 DEF Counted, Runs
  <2>3. Handling = {}
    BY <2>2, FS_EmptySet DEF Counted
  <2> QED BY <1>1, <1>2, <2>1, <2>2, <2>3, SameHandlers DEF Counted, Runs
<1>9. CASE StopSignals \/ StopCloses \/ StopCuts
  <2>1. /\ UNCHANGED <<hpc, wg, lpc, ppc, tokens, inClosed, held>>
        /\ spc \in {"stop", "close", "cut"} /\ spc' \in {"close", "cut", "wait"}
    BY <1>9 DEF StopSignals, StopCloses, StopCuts
  <2> QED BY <1>1, <1>2, <2>1, SameHandlers DEF Counted, Runs
<1>10. CASE StopEnds
  <2>1. /\ UNCHANGED <<hpc, wg, lpc, ppc, tokens, held>>
        /\ spc = "last" /\ spc' = "off" /\ inClosed'
    BY <1>10 DEF StopEnds
  <2> QED BY <1>1, <1>2, <2>1, SameHandlers DEF Counted, Runs
<1>11. ASSUME NEW c \in Conn, Accept(c)
       PROVE  Counted'
  <2>1. /\ UNCHANGED <<wg, ppc, tokens, spc, inClosed>>
        /\ lpc = "ready" /\ lpc' = "accepted" /\ held' = c
        /\ hpc[c] = "off" /\ hpc' = [hpc EXCEPT ![c] = "held"]
    BY <1>11 DEF Accept
  <2>2. Handling' = Handling /\ Cleaning' = Cleaning /\ hpc'[c] = "held"
    BY <2>1 DEF Handling, Cleaning, Connections
  <2> QED BY <1>1, <1>2, <2>1, <2>2 DEF Counted, Runs
<1>12. CASE Admit
  <2>1. /\ UNCHANGED <<ppc, spc, inClosed>> /\ held \in Conn /\ hpc[held] = "held"
        /\ lpc = "accepted" /\ lpc' = "check"
    BY <1>12 DEF Admit, Counted
  <2>2. CASE tokens > 0
    <3>1. tokens' = tokens - 1 /\ wg' = wg + 1 /\ hpc' = [hpc EXCEPT ![held] = "check"]
      BY <1>12, <2>2 DEF Admit
    <3>2. Handling' = Handling \union {held} /\ held \notin Handling /\ Cleaning' = Cleaning
      BY <2>1, <3>1 DEF Handling, Cleaning, Connections
    <3>3. IsFiniteSet(Handling') /\ Cardinality(Handling') = Cardinality(Handling) + 1
      BY <3>2, FS_AddElement DEF Counted
    <3>4. spc \notin {"off", "last"}
      BY <2>1 DEF Counted
    <3> QED BY <1>1, <1>2, <2>1, <2>2, <3>1, <3>2, <3>3, <3>4 DEF Counted, Runs
  <2>3. CASE ~ (tokens > 0)
    <3>1. UNCHANGED <<tokens, wg>> /\ hpc' = [hpc EXCEPT ![held] = "gone"]
      BY <1>12, <2>3 DEF Admit
    <3>2. Handling' = Handling /\ Cleaning' = Cleaning
      BY <2>1, <3>1 DEF Handling, Cleaning, Connections
    <3> QED BY <1>1, <1>2, <2>1, <3>1, <3>2 DEF Counted, Runs
  <2> QED BY <2>2, <2>3
<1>13. ASSUME NEW c \in Conn,
              HandlerChecks(c) \/ ScanEnds(c) \/ \E l \in Types : Scan(c, l)
       PROVE  Counted'
  <2>1. UNCHANGED <<wg, lpc, tokens, spc, inClosed, held>>
    BY <1>13 DEF HandlerChecks, ScanEnds, Scan
  <2>2. ppc' = "off" <=> ppc = "off"
    BY <1>13 DEF HandlerChecks, ScanEnds, Scan, CanSend, Send
  <2>3. PICK there \in {"check", "scan", "return"} : hpc' = [hpc EXCEPT ![c] = there]
    BY <1>13 DEF HandlerChecks, ScanEnds, Scan, HandlerAt
  <2>4. hpc[c] \in {"check", "scan"}
    BY <1>13 DEF HandlerChecks, ScanEnds, Scan, HandlerAt
  <2>5. Handling' = Handling /\ Cleaning' = Cleaning
    BY <2>3, <2>4 DEF Handling, Cleaning, Connections
  <2>6. lpc = "accepted" => held \in Conn /\ hpc'[held] = "held"
    BY <2>3, <2>4 DEF Counted, Connections
  <2> QED BY <1>1, <1>2, <2>1, <2>2, <2>5, <2>6 DEF Counted, Runs
<1>14. ASSUME NEW c \in Conn, HandlerReturns(c)
       PROVE  Counted'
  <2>1. /\ UNCHANGED <<lpc, ppc, tokens, spc, inClosed, held>> /\ wg' = wg - 1
        /\ hpc[c] = "return" /\ hpc' = [hpc EXCEPT ![c] = "clean"]
    BY <1>14 DEF HandlerReturns, HandlerAt
  <2>2. /\ c \in Handling /\ Handling' = Handling \ {c}
        /\ c \notin Cleaning /\ Cleaning' = Cleaning \union {c}
    BY <2>1 DEF Handling, Cleaning, Connections
  <2>3. IsFiniteSet(Handling') /\ Cardinality(Handling') = Cardinality(Handling) - 1
    BY <2>2, FS_RemoveElement DEF Counted
  <2>4. IsFiniteSet(Cleaning') /\ Cardinality(Cleaning') = Cardinality(Cleaning) + 1
    BY <2>2, FS_AddElement DEF Counted
  <2>5. lpc = "accepted" => held \in Conn /\ hpc'[held] = "held"
    BY <2>1 DEF Counted, Connections
  <2>6. spc \notin {"off", "last"}
    BY <2>2 DEF Counted
  <2> QED BY <1>1, <1>2, <2>1, <2>3, <2>4, <2>5, <2>6 DEF Counted, Runs
<1>15. ASSUME NEW c \in Conn, HandlerCleans(c)
       PROVE  Counted'
  <2>1. /\ UNCHANGED <<wg, lpc, ppc, spc, inClosed, held>> /\ tokens' = tokens + 1
        /\ hpc[c] = "clean" /\ hpc' = [hpc EXCEPT ![c] = "gone"]
    BY <1>15 DEF HandlerCleans, HandlerAt
  <2>2. /\ Handling' = Handling
        /\ c \in Cleaning /\ Cleaning' = Cleaning \ {c}
    BY <2>1 DEF Handling, Cleaning, Connections
  <2>3. IsFiniteSet(Cleaning') /\ Cardinality(Cleaning') = Cardinality(Cleaning) - 1
    BY <2>2, FS_RemoveElement DEF Counted
  <2>4. lpc = "accepted" => held \in Conn /\ hpc'[held] = "held"
    BY <2>1 DEF Counted, Connections
  <2>5. ~ (spc = "off" /\ ~ inClosed)
    BY <2>2 DEF Counted
  <2> QED BY <1>1, <1>2, <2>1, <2>2, <2>3, <2>4, <2>5 DEF Counted, Runs
<1> QED BY <1>3, <1>4, <1>5, <1>6, <1>7, <1>8, <1>9, <1>10, <1>11, <1>12, <1>13, <1>14, <1>15
  DEF InputStep, counting, GatherStarts, GatherLocks, GatherAdds, GatherDeletes, GatherEnds

(* The lock keeps the caches and the report of them together.              *)
LEMMA ReportingKept ==
  ASSUME Places, Reporting, InputStep
  PROVE  Reporting'
<1> USE DEF config, listens, handles, parses, reports
<1>1. CASE Parse
  <2>1. /\ UNCHANGED <<lock, gpc, left, spc, reported>>
        /\ gpc \notin {"add", "delete"}
    BY <1>1 DEF Parse, Reporting, None
  <2>2. \/ UNCHANGED <<cache, parsed>>
        \/ /\ line \in Good
           /\ cache' = [cache EXCEPT ![line] = @ + 1]
           /\ parsed' = [parsed EXCEPT ![line] = @ + 1]
    BY <1>1 DEF Parse
  <2> QED BY <2>1, <2>2 DEF Reporting
<1>2. CASE GatherStarts \/ GatherLocks \/ GatherEnds
  <2>1. /\ UNCHANGED <<cache, parsed, reported, spc>>
        /\ gpc # "delete" /\ gpc' # "delete"
        /\ \/ UNCHANGED lock /\ gpc = "off" /\ gpc' = "lock"
           \/ lock = "none" /\ lock' = "gather" /\ gpc' = "add"
           \/ gpc = "add" /\ gpc' = "off" /\ lock' = "none"
    BY <1>2 DEF GatherStarts, GatherLocks, GatherEnds, None
  <2> QED BY <2>1 DEF Reporting
<1>3. CASE GatherAdds
  <2>1. /\ UNCHANGED <<cache, parsed, lock, left, spc>>
        /\ gpc = "add" /\ gpc' = "delete"
    BY <1>3 DEF GatherAdds
  <2>2. \/ UNCHANGED reported /\ cache[Head(left)] = 0
        \/ reported' = [reported EXCEPT ![Head(left)] = @ + cache[Head(left)]]
    BY <1>3 DEF GatherAdds
  <2> QED BY <2>1, <2>2 DEF Reporting
<1>4. CASE GatherDeletes
  <2>1. /\ UNCHANGED <<parsed, reported, lock, spc>>
        /\ gpc = "delete" /\ gpc' = "add"
    BY <1>4 DEF GatherDeletes
  <2>2. cache' = IF Head(left) \in DeleteOnGather THEN [cache EXCEPT ![Head(left)] = 0]
                                                   ELSE cache
    BY <1>4 DEF GatherDeletes
  <2>3. cache' \in [Good -> Nat]
    BY <2>2 DEF Reporting
  <2>4. ASSUME NEW t \in Good
        PROVE  (IF t \notin DeleteOnGather THEN parsed[t] = cache[t]
                ELSE parsed[t] = cache[t] + reported[t])'
    <3>1. /\ cache[t] \in Nat /\ parsed[t] \in Nat /\ reported[t] \in Nat
          /\ parsed'[t] = parsed[t] /\ reported'[t] = reported[t]
      BY <2>1 DEF Reporting
    <3>2. cache'[t] = IF t = Head(left) /\ t \in DeleteOnGather THEN 0 ELSE cache[t]
      BY <2>2 DEF Reporting
    <3>3. IF t \notin DeleteOnGather THEN parsed[t] = cache[t]
          ELSE IF t = Head(left) THEN parsed[t] = reported[t]
          ELSE parsed[t] = cache[t] + reported[t]
      BY <2>1 DEF Reporting
    <3> QED BY <3>1, <3>2, <3>3
  <2> QED BY <2>1, <2>3, <2>4 DEF Reporting
<1>5. CASE StopSignals \/ StopCuts
  <2>1. /\ UNCHANGED <<cache, parsed, reported, gpc, left>>
        /\ \/ lock = "none" /\ lock' = "stop" /\ spc' = "close"
           \/ spc = "cut" /\ lock' = "none" /\ spc' = "wait"
    BY <1>5 DEF StopSignals, StopCuts, None
  <2> QED BY <2>1 DEF Reporting
<1>6. CASE StopCloses \/ StopWaits \/ StopEnds
  <2>1. /\ UNCHANGED <<cache, parsed, reported, gpc, left, lock>>
        /\ spc' = "cut" => spc = "close"
        /\ spc' # "close"
    BY <1>6 DEF StopCloses, StopWaits, StopEnds
  <2> QED BY <2>1 DEF Reporting
<1>7. CASE UNCHANGED <<cache, parsed, reported, gpc, left, lock, spc>>
  BY <1>7 DEF Reporting
<1> QED BY <1>1, <1>2, <1>3, <1>4, <1>5, <1>6, <1>7
  DEF InputStep, Listen, ListenerChecks, Admit, SetKeepAliveFails, AcceptFails, Accept,
      Read, HandlerChecks, ScanEnds, HandlerReturns, HandlerCleans, Scan, ParserTakes,
      ParserEnds

LEMMA DroppingKept ==
  ASSUME Places, Dropping, InputStep
  PROVE  Dropping'
<1> USE StatsdAssumption DEF config, listens, handles, parses, reports, Dropping
<1>1. CASE Listen
  BY <1>1 DEF Listen
<1>2. CASE ListenerChecks \/ AcceptFails \/ SetKeepAliveFails \/ Admit
  BY <1>2 DEF ListenerChecks, AcceptFails, SetKeepAliveFails, Admit
<1>3. CASE \E c \in Conn : Accept(c)
  BY <1>3 DEF Accept
<1>4. ASSUME NEW l \in Types \union {"bad"}, Read(l)
      PROVE  Dropping'
  <2>1. UNCHANGED <<listener, spc, done>> /\ lpc = "ready" /\ lpc' = "check"
    BY <1>4 DEF Read
  <2>2. drops' \in {drops, drops + 1}
    BY <1>4 DEF Read
  <2>3. \/ lines < MaxLines /\ lines' = lines + 1
        \/ listener = "closed" /\ UNCHANGED lines
    BY <1>4 DEF Read
  <2> QED BY <2>1, <2>2, <2>3
<1>5. ASSUME NEW l \in Types, NEW c \in Conn, Scan(c, l)
      PROVE  Dropping'
  <2>1. UNCHANGED <<listener, spc, done, lpc>>
    BY <1>5 DEF Scan
  <2>2. drops' \in {drops, drops + 1} /\ lines < MaxLines /\ lines' = lines + 1
    BY <1>5 DEF Scan
  <2> QED BY <2>1, <2>2
<1>6. CASE StopSignals \/ StopCuts \/ StopWaits \/ StopEnds
  BY <1>6 DEF StopSignals, StopCuts, StopWaits, StopEnds
<1>7. CASE UNCHANGED <<lines, drops, spc, done, listener, lpc>>
  BY <1>7
<1>8. CASE StopCloses
  <2>1. /\ UNCHANGED <<lines, drops, done, lpc>>
        /\ spc = "close" /\ spc' = "cut"
        /\ listener' = (IF listener = "open" THEN "closed" ELSE listener)
    BY <1>8, Zenon DEF StopCloses
  <2> QED BY <2>1
<1> QED BY <1>1, <1>2, <1>3, <1>4, <1>5, <1>6, <1>7, <1>8
  DEF InputStep, HandlerChecks, ScanEnds, HandlerReturns, HandlerCleans, ParserTakes,
      ParserEnds, Parse, GatherStarts, GatherLocks, GatherAdds, GatherDeletes, GatherEnds

(* The steps of the loop.                                                  *)
LEMMA InputSame ==
  ASSUME Booleans, Places, Connections, Queues, Reporting, Dropping, UNCHANGED vars
  PROVE  /\ Booleans' /\ Places' /\ Connections' /\ Queues' /\ Reporting' /\ Dropping'
<1> USE DEF vars, config, listens, handles, parses, reports
<1>1. Booleans'
  BY DEF Booleans
<1>2. Places'
  BY DEF Places
<1>3. Connections' /\ Queues'
  BY DEF Connections, Queues
<1>4. Reporting'
  BY DEF Reporting
<1>5. Dropping'
  BY DEF Dropping
<1> QED BY <1>1, <1>2, <1>3, <1>4, <1>5

LEMMA LoopKept ==
  ASSUME IInv, LoopStep
  PROVE  IInv'
<1>1. Booleans' /\ Places' /\ Connections' /\ Queues' /\ Reporting' /\ Dropping'
  BY InputSame DEF IInv, Basic, LoopStep
<1>2. Counted'
  <2>1. UNCHANGED <<hpc, wg, lpc, ppc, tokens, spc, inClosed, held>>
    BY DEF LoopStep, vars, listens, handles, parses
  <2>2. main' = "run" => main = "run"
    BY DEF LoopStep, Top, Load, RunReturns, ServiceStop, TakesStop, TakesTerm,
       TakesReload, PutsReload, ClosesShutdown, Signal
  <2> QED BY <2>1, <2>2, SameHandlers DEF IInv, Counted, Runs
<1>3. LoopBasic'
  <2> USE DEF IInv, LoopBasic
  <2>1. CASE Top
    BY <2>1, Zenon DEF Top
  <2>2. CASE Load \/ RunReturns
    BY <2>2, Zenon DEF Load, RunReturns
  <2>3. CASE ServiceStop \/ TakesStop \/ TakesTerm \/ ClosesShutdown
    BY <2>3, Zenon DEF ServiceStop, TakesStop, TakesTerm, ClosesShutdown
  <2>4. CASE TakesReload \/ PutsReload
    BY <2>4, Zenon DEF TakesReload, PutsReload
  <2>5. ASSUME NEW s \in {"term", "hup"}, Signal(s)
        PROVE  LoopBasic'
    <3>1. UNCHANGED <<main, reload, shutdown, stop>>
      BY <2>5 DEF Signal
    <3>2. signals' \in 0 .. MaxSignals
      BY <2>5, MaxSignalsAssumption DEF Signal
    <3>3. sig' \in {"waiting", "term", "hup", "put", "close", "gone"}
      BY <2>5 DEF Signal
    <3> QED BY <3>1, <3>2, <3>3, Zenon
  <2> QED BY <2>1, <2>2, <2>3, <2>4, <2>5 DEF LoopStep
<1> QED BY <1>1, <1>2, <1>3 DEF IInv, Basic

LEMMA RunStartsKept ==
  ASSUME IInv, RunStarts
  PROVE  IInv'
<1> USE DEF RunStarts, Start, config
<1>1. Booleans'
  BY Zenon DEF IInv, Basic, Booleans
<1>2. Places'
  BY DEF IInv, Basic, Places, None
<1>3. Connections'
  BY DEF Connections
<1>4. Queues'
  BY StatsdAssumption DEF IInv, Basic, Queues
<1>5. Counted'
  <2>1. Handling' = {} /\ Cleaning' = {}
    BY DEF Handling, Cleaning
  <2> QED BY <2>1, FS_EmptySet, StatsdAssumption DEF Counted, Runs
<1>6. Reporting'
  BY DEF Reporting, None
<1>7. Dropping'
  BY StatsdAssumption DEF Dropping
<1>8. LoopBasic'
  BY Zenon DEF IInv, LoopBasic
<1> QED BY <1>1, <1>2, <1>3, <1>4, <1>5, <1>6, <1>7, <1>8 DEF IInv, Basic

LEMMA RunLeavesKept ==
  ASSUME IInv, RunLeaves \/ RunHangs
  PROVE  IInv'
<1> USE DEF RunLeaves, RunHangs, config, listens, handles, parses, IInv, Basic
<1>1. Booleans'
  BY DEF Booleans
<1>2. Places'
  BY DEF Places
<1>3. Connections' /\ Queues'
  BY DEF Connections, Queues
<1>4. Reporting'
  BY DEF Reporting
<1>5. Dropping'
  BY DEF Dropping
<1>6. Counted'
  <2>1. UNCHANGED <<hpc, wg, lpc, ppc, tokens, inClosed, held>>
    BY DEF RunLeaves, RunHangs
  <2>2. spc = "running" /\ spc' \in {"running", "stop"} /\ main' \in {"stop", "hung"}
    BY DEF Counted
  <2> QED BY <2>1, <2>2, SameHandlers DEF Counted, Runs
<1>7. LoopBasic'
  BY Zenon DEF LoopBasic
<1> QED BY <1>1, <1>2, <1>3, <1>4, <1>5, <1>6, <1>7

LEMMA InputKept ==
  ASSUME IInv, InputStep
  PROVE  IInv'
<1>1. LoopBasic'
  BY Zenon DEF IInv, LoopBasic, InputStep, loop
<1>2. lpc = "accepted" => held \in Conn
  BY DEF IInv, Counted
<1> QED BY <1>1, <1>2, BooleansKept, PlacesKept, ConnectionsKept, QueuesKept, CountedKept,
           ReportingKept, DroppingKept DEF IInv, Basic

(* Every reachable state satisfies the invariant.                          *)
LEMMA Invariant == Spec => []IInv
<1>1. IInv /\ [Next]_allVars => IInv'
  <2> SUFFICES ASSUME IInv, [Next]_allVars
               PROVE  IInv'
    OBVIOUS
  <2>1. CASE UNCHANGED <<vars, loop>>
    <3>1. Booleans' /\ Places' /\ Connections' /\ Queues' /\ Reporting' /\ Dropping'
      BY <2>1, InputSame DEF IInv, Basic
    <3>2. Counted'
      BY <2>1, SameHandlers DEF IInv, Counted, Runs, vars, loop, listens, handles, parses
    <3>3. LoopBasic'
      BY <2>1 DEF IInv, LoopBasic, loop
    <3> QED BY <3>1, <3>2, <3>3 DEF IInv, Basic
  <2> QED BY <2>1, NextSteps, InputKept, LoopKept, RunStartsKept, RunLeavesKept
<1> QED BY <1>1, InitIInv, PTL DEF Spec

-----------------------------------------------------------------------------
(* The tokens in accept and the connections that hold one always add up to *)
(* MaxTCPConnections while the input runs: a handler gives back the token  *)
(* that was taken for it, once.                                            *)
THEOREM TokensAlwaysBalance == Spec => []TokensBalance
<1>1. IInv => TokensBalance
  <2> SUFFICES ASSUME IInv, wg # 0 \/ inClosed
               PROVE  tokens + Cardinality(Handling) + Cardinality(Cleaning) = MaxTCPConnections
    BY DEF TokensBalance
  <2>1. CASE spc # "off" \/ inClosed
    BY <2>1 DEF IInv, Counted
  <2>2. CASE spc = "off" /\ wg # 0
    <3>1. lpc = "off" /\ ppc = "off" /\ Handling = {}
      BY <2>2 DEF IInv, Counted
    <3>2. Cardinality(Handling) = 0
      BY <3>1, FS_EmptySet
    <3> QED BY <2>2, <3>1, <3>2 DEF IInv, Counted, Runs
  <2> QED BY <2>1, <2>2
<1> QED BY <1>1, Invariant, PTL

(* When Stop closes in, the listener, the parser and every handler that    *)
(* could send on it have left: the wait group counts a handler before      *)
(* wg.Wait can see it as gone, also one that was admitted after done.      *)
THEOREM NobodyEverSendsOnClosed == Spec => []NobodySendsOnClosed
<1>1. IInv => NobodySendsOnClosed
  BY DEF IInv, Counted, NobodySendsOnClosed
<1> QED BY <1>1, Invariant, PTL

(* Of every type, what was parsed is what is cached and what was reported, *)
(* whenever Gather does not hold the lock.                                 *)
THEOREM AlwaysReportedOnce == Spec => []ReportedOnce
<1>1. IInv => ReportedOnce
  BY DEF IInv, Reporting, ReportedOnce
<1> QED BY <1>1, Invariant, PTL

(* The types of the input and of the loop; the queue in within its limit,  *)
(* no more drops than lines and one more, tokens within the capacity of    *)
(* accept, and a wait group that never becomes negative.                   *)
THEOREM LoopTypeCorrect == Spec => []LoopTypeOK
<1>1. IInv => LoopTypeOK
  <2> SUFFICES ASSUME IInv PROVE LoopTypeOK
    OBVIOUS
  <2>1. Cardinality(Handling) \in Nat /\ Cardinality(Cleaning) \in Nat
    BY FS_CardinalityType DEF IInv, Counted
  <2>2. wg \in Nat
    BY <2>1 DEF IInv, Counted, Runs
  <2>3. tokens \in 0 .. MaxTCPConnections
    BY <2>1, StatsdAssumption DEF IInv, Counted
  <2>4. drops \in 0 .. MaxLines + 1
    BY StatsdAssumption DEF IInv, Dropping
  <2>5. cache \in [Good -> Nat] /\ parsed \in [Good -> Nat] /\ reported \in [Good -> Nat]
    BY DEF IInv, Reporting
  <2>6. TypeOK
    BY <2>2, <2>3, <2>4, <2>5, Zenon
       DEF IInv, Basic, Booleans, Places, Connections, Queues, TypeOK
  <2> QED BY <2>6, Zenon DEF IInv, LoopBasic, LoopTypeOK
<1> QED BY <1>1, Invariant, PTL

=============================================================================

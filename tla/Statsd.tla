------------------------------- MODULE Statsd -------------------------------
(***************************************************************************)
(* The statsd service input, over TCP or UDP.  Its goroutines:             *)
(*   the listener    accepts connections, or reads datagrams;              *)
(*   a handler       for each connection that was accepted, at most        *)
(*                   MaxTCPConnections of them, which reads its lines;     *)
(*   the parser      takes lines from the channel in and adds them to the  *)
(*                   caches;                                               *)
(*   Gather          reports the caches, called by the agent;              *)
(*   Stop            called by the agent, waits for the others.            *)
(* Parser, Gather and Stop share a lock.  A line that finds in full is     *)
(* dropped, and counted without a lock.                                    *)
(***************************************************************************)
EXTENDS Integers, Sequences, FiniteSets, SequencesExt

CONSTANTS
  Conn,              \* connections that clients may make, 1, 2 ...
  Protocols,         \* "tcp", "udp"
  Limits,            \* values of AllowedPendingMessages
  MaxTCPConnections,
  Types,             \* the types of the lines that are sent, "bad" among them
  DeleteOnGather,    \* the types whose cache Gather deletes
  TCPKeepAlive,
  MetricCSize,       \* what the agent's channel takes once nobody reads it
  MaxLines,          \* bound: lines sent
  MaxGathers         \* bound: calls of Gather

ASSUME StatsdAssumption ==
  /\ Conn \subseteq Nat \ {0}
  /\ Limits \subseteq Nat /\ MaxTCPConnections \in Nat
  /\ MetricCSize \in Nat /\ MaxLines \in Nat /\ MaxGathers \in Nat

VARIABLES
  protocol, limit,   \* the configuration
  port,              \* is the service address in use
  listener,          \* "none", "open" or "closed"
  lpc, held,         \* where the listener is, and the connection it holds
  hpc, open,         \* where the handlers are; which connections are open
  tokens,            \* how many are in accept
  conns,             \* s.conns
  in, inClosed, done,
  ppc, line,         \* where the parser is, and its line
  lock,              \* who holds the lock
  cache,             \* of each type, what is cached
  gpc, left,         \* where Gather is, and what it has still to do
  flushing,          \* does the agent read metricC
  room,              \* if not, how much it still takes
  spc,               \* where the agent is with this input
  wg,                \* the wait group
  drops,             \* s.drops
  panicked,          \* why a goroutine has panicked
  lines, gathers,    \* counters, since Start
  parsed, reported   \* history: lines parsed, lines reported, by type

config  == <<protocol, limit>>
listens == <<lpc, held, listener, port>>
handles == <<hpc, open, tokens, conns>>
parses  == <<ppc, line, cache, parsed>>
reports == <<gpc, left, flushing, room, gathers, reported>>
vars    == <<config, listens, handles, in, inClosed, done, parses, lock, reports,
             spc, wg, drops, panicked, lines>>

Good == Types \ {"bad"}
None == "none"
NoConn == 0

InitStatsd ==
  /\ protocol \in Protocols /\ limit \in Limits
  /\ port = FALSE /\ listener = "none" /\ lpc = "off" /\ held = NoConn
  /\ hpc = [c \in Conn |-> "off"] /\ open = {}
  /\ tokens = 0 /\ conns = {}
  /\ in = <<>> /\ inClosed = FALSE /\ done = FALSE
  /\ ppc = "off" /\ line = None /\ lock = None
  /\ cache = [t \in Good |-> 0]
  /\ gpc = "off" /\ left = <<>> /\ flushing = FALSE /\ room = 0
  /\ spc = "off" /\ wg = 0 /\ drops = 0 /\ panicked = None
  /\ lines = 0 /\ gathers = 0
  /\ parsed = [t \in Good |-> 0] /\ reported = [t \in Good |-> 0]

-----------------------------------------------------------------------------
(* A new Statsd: everything but the address is its own.                    *)
Start ==
  /\ spc = "off"
  /\ spc' = "running"
  /\ listener' = "none" /\ lpc' = "listen" /\ held' = NoConn
  /\ hpc' = [c \in Conn |-> "off"] /\ open' = {}
  /\ tokens' = MaxTCPConnections /\ conns' = {}
  /\ in' = <<>> /\ inClosed' = FALSE /\ done' = FALSE
  /\ ppc' = "select" /\ line' = None /\ lock' = None
  /\ cache' = [t \in Good |-> 0]
  /\ gpc' = "off" /\ left' = <<>> /\ flushing' = TRUE /\ room' = MetricCSize
  /\ wg' = 2 /\ drops' = 0 /\ lines' = 0 /\ gathers' = 0
  /\ parsed' = [t \in Good |-> 0] /\ reported' = [t \in Good |-> 0]
  /\ UNCHANGED <<config, port, panicked>>

-----------------------------------------------------------------------------
(* The send on in, or not: with a default case.                            *)
CanSend == IF limit = 0 THEN ppc = "select" ELSE Len(in) < limit

Send(l) ==
  IF limit = 0
  THEN ppc' = "line" /\ line' = l /\ UNCHANGED in
  ELSE in' = Append(in, l) /\ UNCHANGED <<ppc, line>>

(* ListenTCP or ListenUDP; log.Fatalf if the address is in use.            *)
Listen ==
  /\ lpc = "listen"
  /\ IF port
     THEN panicked' = "address in use" /\ UNCHANGED listens
     ELSE /\ port' = TRUE /\ listener' = "open" /\ lpc' = "check"
          /\ UNCHANGED <<held, panicked>>
  /\ UNCHANGED <<config, handles, in, inClosed, done, parses, lock, reports, spc,
                 wg, drops, lines>>

(* The select on done.                                                     *)
ListenerChecks ==
  /\ lpc = "check"
  /\ IF done THEN lpc' = "off" /\ wg' = wg - 1
             ELSE lpc' = "ready" /\ UNCHANGED wg
  /\ UNCHANGED <<config, held, listener, port, handles, in, inClosed, done, parses,
                 lock, reports, spc, drops, panicked, lines>>

(* AcceptTCP; connections are numbered in the order of their acceptance.   *)
Accept(c) ==
  /\ protocol = "tcp" /\ lpc = "ready" /\ listener = "open"
  /\ hpc[c] = "off" /\ \A d \in Conn : d < c => hpc[d] # "off"
  /\ lpc' = "accepted" /\ held' = c /\ open' = open \union {c}
  /\ hpc' = [hpc EXCEPT ![c] = "held"]
  /\ UNCHANGED <<config, listener, port, tokens, conns, in, inClosed, done,
                 parses, lock, reports, spc, wg, drops, panicked, lines>>

(* AcceptTCP fails, at the latest when the listener is closed.             *)
AcceptFails ==
  /\ protocol = "tcp" /\ lpc = "ready"
  /\ lpc' = "off" /\ wg' = wg - 1
  /\ UNCHANGED <<config, held, listener, port, handles, in, inClosed, done, parses,
                 lock, reports, spc, drops, panicked, lines>>

(* The connection is neither closed nor remembered.                        *)
SetKeepAliveFails ==
  /\ TCPKeepAlive /\ lpc = "accepted"
  /\ lpc' = "off" /\ held' = NoConn /\ wg' = wg - 1
  /\ UNCHANGED <<config, listener, port, handles, in, inClosed, done, parses, lock,
                 reports, spc, drops, panicked, lines>>

(* Mutant: the handler is not waited for.                                  *)
Admit_notWaitedFor ==
  /\ lpc = "accepted"
  /\ lpc' = "check" /\ held' = NoConn
  /\ IF tokens > 0
     THEN /\ tokens' = tokens - 1
          /\ conns' = conns \union {held}
          /\ hpc' = [hpc EXCEPT ![held] = "check"]
          /\ UNCHANGED <<open, wg>>
     ELSE /\ open' = open \ {held} /\ hpc' = [hpc EXCEPT ![held] = "gone"]
          /\ UNCHANGED <<tokens, conns, wg>>
  /\ UNCHANGED <<config, listener, port, in, inClosed, done, parses, lock,
                 reports, spc, drops, panicked, lines>>

(* wg.Add, remember and go handler; or refuser.                            *)
Admit ==
  /\ lpc = "accepted"
  /\ lpc' = "check" /\ held' = NoConn
  /\ IF tokens > 0
     THEN /\ tokens' = tokens - 1 /\ wg' = wg + 1
          /\ conns' = conns \union {held}
          /\ hpc' = [hpc EXCEPT ![held] = "check"]
          /\ UNCHANGED open
     ELSE /\ open' = open \ {held} /\ hpc' = [hpc EXCEPT ![held] = "gone"]
          /\ UNCHANGED <<tokens, conns, wg>>
  /\ UNCHANGED <<config, listener, port, in, inClosed, done, parses, lock,
                 reports, spc, drops, panicked, lines>>

(* ReadFromUDP: a datagram; or, once the listener is closed, an empty      *)
(* buffer, which is sent too.                                              *)
Read(l) ==
  /\ protocol = "udp" /\ lpc = "ready"
  /\ \/ listener = "open" /\ lines < MaxLines /\ l \in Types /\ lines' = lines + 1
     \/ listener = "closed" /\ l = "bad" /\ UNCHANGED lines
  /\ lpc' = "check"
  /\ IF CanSend
     THEN Send(l) /\ UNCHANGED drops
     ELSE drops' = drops + 1 /\ UNCHANGED <<in, ppc, line>>
  /\ UNCHANGED <<config, held, listener, port, handles, inClosed, done, cache,
                 parsed, lock, reports, spc, wg, panicked>>

-----------------------------------------------------------------------------
(* The handler of a connection.                                            *)
HandlerAt(c, here, there) == hpc[c] = here /\ hpc' = [hpc EXCEPT ![c] = there]

(* Mutant: done is not looked at.                                          *)
HandlerChecks_noDone(c) ==
  /\ HandlerAt(c, "check", "scan")
  /\ UNCHANGED <<config, listens, open, tokens, conns, in, inClosed, done, parses,
                 lock, reports, spc, wg, drops, panicked, lines>>

HandlerChecks(c) ==
  /\ HandlerAt(c, "check", IF done THEN "return" ELSE "scan")
  /\ UNCHANGED <<config, listens, open, tokens, conns, in, inClosed, done,
                 parses, lock, reports, spc, wg, drops, panicked, lines>>

(* Scan finds a line, which is sent, or dropped and counted; a division    *)
(* decides whether that is logged.                                         *)
Scan(c, l) ==
  /\ HandlerAt(c, "scan", "check")
  /\ c \in open /\ lines < MaxLines /\ lines' = lines + 1
  /\ IF CanSend
     THEN Send(l) /\ UNCHANGED <<drops, panicked>>
     ELSE /\ drops' = drops + 1
          /\ panicked' = IF drops' # 1 /\ limit = 0 THEN "division by zero" ELSE panicked
          /\ UNCHANGED <<in, ppc, line>>
  /\ UNCHANGED <<config, listens, open, tokens, conns, inClosed, done, cache, parsed,
                 lock, reports, spc, wg>>

(* Scan returns false: the client or Stop has closed the connection.       *)
ScanEnds(c) ==
  /\ HandlerAt(c, "scan", "return")
  /\ UNCHANGED <<config, listens, open, tokens, conns, in, inClosed, done,
                 parses, lock, reports, spc, wg, drops, panicked, lines>>

(* Mutant: wg.Done is called twice.                                        *)
HandlerReturns_twice(c) ==
  /\ HandlerAt(c, "return", "clean")
  /\ wg' = wg - 2
  /\ UNCHANGED <<config, listens, open, tokens, conns, in, inClosed, done,
                 parses, lock, reports, spc, drops, panicked, lines>>

(* The deferred function: wg.Done first.                                   *)
HandlerReturns(c) ==
  /\ HandlerAt(c, "return", "clean")
  /\ wg' = wg - 1
  /\ UNCHANGED <<config, listens, open, tokens, conns, in, inClosed, done,
                 parses, lock, reports, spc, drops, panicked, lines>>

(* Mutant: the token is not given back.                                    *)
HandlerCleans_noToken(c) ==
  /\ HandlerAt(c, "clean", "gone")
  /\ open' = open \ {c} /\ conns' = conns \ {c}
  /\ UNCHANGED <<config, listens, tokens, in, inClosed, done, parses, lock, reports,
                 spc, wg, drops, panicked, lines>>

(* Then conn.Close, the token and forget.                                  *)
HandlerCleans(c) ==
  /\ HandlerAt(c, "clean", "gone")
  /\ open' = open \ {c} /\ conns' = conns \ {c}
  /\ tokens' = tokens + 1
  /\ UNCHANGED <<config, listens, in, inClosed, done, parses, lock, reports, spc, wg,
                 drops, panicked, lines>>

-----------------------------------------------------------------------------
(* The parser takes what comes first, a line or the end.                   *)
ParserTakes ==
  /\ ppc = "select" /\ in # <<>>
  /\ ppc' = "line" /\ line' = Head(in) /\ in' = Tail(in)
  /\ UNCHANGED <<config, listens, handles, inClosed, done, cache, parsed, lock,
                 reports, spc, wg, drops, panicked, lines>>

ParserEnds ==
  /\ ppc = "select" /\ done
  /\ ppc' = "off" /\ wg' = wg - 1
  /\ UNCHANGED <<config, listens, handles, in, inClosed, done, line, cache, parsed,
                 lock, reports, spc, drops, panicked, lines>>

(* Mutant: the lock is not taken.                                          *)
Parse_noLock ==
  /\ ppc = "line"
  /\ IF line \in Good
     THEN /\ cache' = [cache EXCEPT ![line] = @ + 1]
          /\ parsed' = [parsed EXCEPT ![line] = @ + 1]
     ELSE UNCHANGED <<cache, parsed>>
  /\ ppc' = "select" /\ line' = None
  /\ UNCHANGED <<config, listens, handles, in, inClosed, done, lock, reports, spc,
                 wg, drops, panicked, lines>>

(* parseStatsdLine and aggregate, under the lock.                          *)
Parse ==
  /\ ppc = "line" /\ lock = None
  /\ IF line \in Good
     THEN /\ cache' = [cache EXCEPT ![line] = @ + 1]
          /\ parsed' = [parsed EXCEPT ![line] = @ + 1]
     ELSE UNCHANGED <<cache, parsed>>
  /\ ppc' = "select" /\ line' = None
  /\ UNCHANGED <<config, listens, handles, in, inClosed, done, lock, reports, spc,
                 wg, drops, panicked, lines>>

-----------------------------------------------------------------------------
(* What Gather does with the lock: for every type it reports what is       *)
(* cached, and then it may delete it.                                      *)
GatherStarts ==
  /\ spc = "running" /\ gpc = "off" /\ gathers < MaxGathers
  /\ gpc' = "lock" /\ gathers' = gathers + 1
  /\ UNCHANGED <<config, listens, handles, in, inClosed, done, parses, lock, left,
                 flushing, room, reported, spc, wg, drops, panicked, lines>>

GatherLocks ==
  /\ gpc = "lock" /\ lock = None
  /\ gpc' = "add" /\ lock' = "gather"
  /\ left' = SetToSeq(Good)
  /\ UNCHANGED <<config, listens, handles, in, inClosed, done, parses, flushing, room,
                 gathers, reported, spc, wg, drops, panicked, lines>>

(* acc.AddFields and its like: they wait while metricC is full.            *)
GatherAdds ==
  /\ gpc = "add" /\ left # <<>>
  /\ LET t == Head(left)
     IN  IF cache[t] = 0 THEN UNCHANGED <<room, reported>>
         ELSE /\ flushing \/ room > 0
              /\ room' = IF flushing THEN room ELSE room - 1
              /\ reported' = [reported EXCEPT ![t] = @ + cache[t]]
  /\ gpc' = "delete"
  /\ UNCHANGED <<config, listens, handles, in, inClosed, done, parses, lock, left,
                 flushing, gathers, spc, wg, drops, panicked, lines>>

GatherDeletes ==
  /\ gpc = "delete"
  /\ cache' = IF Head(left) \in DeleteOnGather THEN [cache EXCEPT ![Head(left)] = 0]
                                                ELSE cache
  /\ left' = Tail(left) /\ gpc' = "add"
  /\ UNCHANGED <<config, listens, handles, in, inClosed, done, ppc, line, parsed, lock,
                 flushing, room, gathers, reported, spc, wg, drops, panicked, lines>>

GatherEnds ==
  /\ gpc = "add" /\ left = <<>>
  /\ gpc' = "off" /\ lock' = None
  /\ UNCHANGED <<config, listens, handles, in, inClosed, done, parses, left, flushing,
                 room, gathers, reported, spc, wg, drops, panicked, lines>>

-----------------------------------------------------------------------------
(* Stop, from the agent's Run, in its four parts.                          *)
StopSignals ==
  /\ spc = "stop" /\ lock = None
  /\ spc' = "close" /\ lock' = "stop" /\ done' = TRUE
  /\ UNCHANGED <<config, listens, handles, in, inClosed, parses, reports, wg, drops,
                 panicked, lines>>

(* A listener that is not there yet cannot be closed: Close of a nil       *)
(* *TCPListener is an error nobody looks at, of a nil *UDPConn it panics.  *)
StopCloses ==
  /\ spc = "close"
  /\ spc' = "cut"
  /\ IF listener = "open" THEN listener' = "closed" /\ port' = FALSE
                           ELSE UNCHANGED <<listener, port>>
  /\ panicked' = IF listener = "none" /\ protocol = "udp" THEN "nil listener"
                                                            ELSE panicked
  /\ UNCHANGED <<config, lpc, held, handles, in, inClosed, done, parses, lock, reports,
                 wg, drops, lines>>

StopCuts ==
  /\ spc = "cut"
  /\ spc' = "wait" /\ lock' = None
  /\ open' = open \ conns
  /\ UNCHANGED <<config, listens, hpc, tokens, conns, in, inClosed, done, parses,
                 reports, wg, drops, panicked, lines>>

StopWaits ==
  /\ spc = "wait" /\ wg = 0
  /\ spc' = "last"
  /\ UNCHANGED <<config, listens, handles, in, inClosed, done, parses, lock, reports,
                 wg, drops, panicked, lines>>

StopEnds ==
  /\ spc = "last" /\ lock = None
  /\ spc' = "off" /\ inClosed' = TRUE
  /\ UNCHANGED <<config, listens, handles, in, done, parses, lock, reports, wg, drops,
                 panicked, lines>>

-----------------------------------------------------------------------------
TypeOK ==
  /\ protocol \in Protocols /\ limit \in Limits
  /\ port \in BOOLEAN /\ listener \in {"none", "open", "closed"}
  /\ lpc \in {"off", "listen", "check", "ready", "accepted"}
  /\ held \in Conn \union {NoConn}
  /\ hpc \in [Conn -> {"off", "held", "check", "scan", "return", "clean", "gone"}]
  /\ open \subseteq Conn /\ conns \subseteq Conn
  /\ drops \in 0 .. MaxLines + 1
  /\ tokens \in 0 .. MaxTCPConnections
  /\ in \in Seq(Types \union {"bad"}) /\ Len(in) <= limit
  /\ inClosed \in BOOLEAN /\ done \in BOOLEAN
  /\ ppc \in {"off", "select", "line"} /\ lock \in {None, "gather", "stop"}
  /\ cache \in [Good -> Nat] /\ parsed \in [Good -> Nat] /\ reported \in [Good -> Nat]
  /\ gpc \in {"off", "lock", "add", "delete"} /\ room \in 0 .. MetricCSize
  /\ spc \in {"off", "running", "stop", "close", "cut", "wait", "last"}
  /\ wg \in Nat

Handling == {c \in Conn : hpc[c] \in {"check", "scan", "return"}}
Cleaning == {c \in Conn : hpc[c] = "clean"}

(* accept holds a token for every connection that may still be accepted:   *)
(* no more than MaxTCPConnections are ever handled, and the send of a      *)
(* handler that gives its token back never waits.                          *)
TokensBalance ==
  wg # 0 \/ inClosed
  => tokens + Cardinality(Handling) + Cardinality(Cleaning) = MaxTCPConnections

(* Stop closes in only when no goroutine is left that could send on it,    *)
(* which would end the process, although handlers are added while Stop     *)
(* waits for them.                                                         *)
NobodySendsOnClosed ==
  inClosed => lpc = "off" /\ ppc = "off" /\ Handling = {}

(* A line that was parsed is in the cache until it is reported: none is    *)
(* lost or reported twice because it is parsed while Gather is at work.    *)
ReportedOnce ==
  lock # "gather" =>
    \A t \in Good : IF t \in DeleteOnGather THEN parsed[t] = cache[t] + reported[t]
                                           ELSE parsed[t] = cache[t]

(* Gather waits for room in metricC, which nobody reads any more, and      *)
(* keeps the lock.                                                         *)
GatherStuck ==
  /\ gpc = "add" /\ left # <<>> /\ cache[Head(left)] > 0
  /\ ~ flushing /\ room = 0

(* Stop returns, whatever clients keep their connections open and whatever *)
(* is accepted meanwhile, unless a Gather is stuck with the lock.          *)
StopReturns == spc = "stop" ~> (spc = "off" \/ GatherStuck \/ panicked # None)

-----------------------------------------------------------------------------
ListenerSteps ==
  \/ Listen \/ ListenerChecks \/ Admit \/ SetKeepAliveFails \/ AcceptFails
  \/ (\E c \in Conn : Accept(c)) \/ (\E l \in Types \union {"bad"} : Read(l))
HandlerSteps(c) ==
  \/ HandlerChecks(c) \/ ScanEnds(c) \/ HandlerReturns(c) \/ HandlerCleans(c)
  \/ (\E l \in Types : Scan(c, l))
ParserSteps == ParserTakes \/ ParserEnds \/ Parse
GatherSteps == GatherLocks \/ GatherAdds \/ GatherDeletes \/ GatherEnds
StopSteps   == StopSignals \/ StopCloses \/ StopCuts \/ StopWaits \/ StopEnds

(* Every goroutine that can run does; a client need not connect, send or   *)
(* close, and AcceptTCP and Scan return when what they wait on is closed.  *)
StatsdFairness ==
  /\ WF_vars(Listen \/ ListenerChecks \/ Admit)
  /\ WF_vars(listener = "closed" /\ (AcceptFails \/ Read("bad")))
  /\ \A c \in Conn :
       /\ WF_vars(HandlerChecks(c) \/ HandlerReturns(c) \/ HandlerCleans(c))
       /\ WF_vars(c \notin open /\ ScanEnds(c))
  /\ WF_vars(ParserSteps) /\ WF_vars(GatherSteps) /\ WF_vars(StopSteps)
=============================================================================

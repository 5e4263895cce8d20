----------------------------- MODULE ReloadLoop -----------------------------
(***************************************************************************)
(* The telegraf process around the agent, with a statsd input: reloadLoop, *)
(* which loads the configuration, connects the outputs and runs the agent  *)
(* until shutdown is closed, and once more if it was told to reload; and   *)
(* the goroutine that each turn of the loop starts to wait for a signal.   *)
(* The agent's Run is here what it does with the input: it starts it, and  *)
(* after the shutdown, when its other goroutines have left, stops it; or   *)
(* it waits for them for ever.                                             *)
(***************************************************************************)
EXTENDS Statsd

CONSTANT MaxSignals   \* bound: signals sent

ASSUME MaxSignalsAssumption == MaxSignals \in Nat

VARIABLES
  main,        \* where reloadLoop is
  reload,      \* the channel reload, of capacity 1
  sig,         \* where the signal goroutine of this turn is
  shutdown,    \* is the channel shutdown of this turn closed
  stop,        \* is the service's channel stop closed
  signals      \* counter

loop == <<main, reload, sig, shutdown, stop, signals>>

Alive == main # "exited" /\ panicked = None

Init ==
  /\ InitStatsd
  /\ main = "top" /\ reload = <<TRUE>>
  /\ sig = "gone" /\ shutdown = FALSE /\ stop = FALSE /\ signals = 0

(* Mutant: reload <- false is missing.                                     *)
Top_noFalse ==
  /\ main = "top" /\ reload # <<>>
  /\ main' = (IF Head(reload) THEN "load" ELSE "exited") /\ reload' = <<>>
  /\ UNCHANGED <<vars, sig, shutdown, stop, signals>>

(* for <-reload { reload <- false                                          *)
Top ==
  /\ main = "top" /\ reload # <<>>
  /\ IF Head(reload) THEN main' = "load" /\ reload' = <<FALSE>>
                     ELSE main' = "exited" /\ reload' = <<>>
  /\ UNCHANGED <<vars, sig, shutdown, stop, signals>>

(* The configuration, its checks, NewAgent and Connect; log.Fatal if one   *)
(* of them fails.                                                          *)
Load ==
  /\ main = "load"
  /\ \/ main' = "start" /\ sig' = "waiting" /\ shutdown' = FALSE
     \/ main' = "exited" /\ UNCHANGED <<sig, shutdown>>
  /\ UNCHANGED <<vars, reload, stop, signals>>

RunStarts ==
  /\ main = "start" /\ Start
  /\ main' = "run"
  /\ UNCHANGED <<reload, sig, shutdown, stop, signals>>

(* The flusher and the gatherers leave; a Gather that is under way is left *)
(* to itself.                                                              *)
RunLeaves ==
  /\ main = "run" /\ shutdown
  /\ main' = "stop" /\ flushing' = FALSE /\ spc' = "stop"
  /\ UNCHANGED <<config, listens, handles, in, inClosed, done, parses, lock, gpc,
                 left, room, gathers, reported, wg, drops, panicked, lines, reload,
                 sig, shutdown, stop, signals>>

(* Or they do not: a goroutine waits for ever for room in a channel that   *)
(* nobody reads (Agent's Stranded), and Run with it, in wg.Wait.           *)
RunHangs ==
  /\ main = "run" /\ shutdown
  /\ main' = "hung" /\ flushing' = FALSE
  /\ UNCHANGED <<config, listens, handles, in, inClosed, done, parses, lock, gpc,
                 left, room, gathers, reported, spc, wg, drops, panicked, lines,
                 reload, sig, shutdown, stop, signals>>

RunReturns ==
  /\ main = "stop" /\ spc = "off"
  /\ main' = "top"
  /\ UNCHANGED <<vars, reload, sig, shutdown, stop, signals>>

-----------------------------------------------------------------------------
(* A signal is sent to the process.  signals is not buffered: it is lost   *)
(* unless the goroutine is waiting.                                        *)
Signal(s) ==
  /\ signals < MaxSignals /\ signals' = signals + 1
  /\ sig' = IF sig = "waiting" THEN s ELSE sig
  /\ UNCHANGED <<vars, main, reload, shutdown, stop>>

(* program.Stop, from the service manager.                                 *)
ServiceStop ==
  /\ ~ stop /\ stop' = TRUE
  /\ UNCHANGED <<vars, main, reload, sig, shutdown, signals>>

TakesStop ==
  /\ sig = "waiting" /\ stop
  /\ sig' = "close"
  /\ UNCHANGED <<vars, main, reload, shutdown, stop, signals>>

(* SIGINT, SIGTERM.                                                        *)
TakesTerm ==
  /\ sig = "term" /\ sig' = "close"
  /\ UNCHANGED <<vars, main, reload, shutdown, stop, signals>>

(* Mutant: what is in reload stays there.                                  *)
TakesReload_stays ==
  /\ sig = "hup" /\ sig' = "put"
  /\ UNCHANGED <<vars, main, reload, shutdown, stop, signals>>

(* SIGHUP: <-reload; reload <- true; close(shutdown)                       *)
TakesReload ==
  /\ sig = "hup" /\ reload # <<>>
  /\ sig' = "put" /\ reload' = <<>>
  /\ UNCHANGED <<vars, main, shutdown, stop, signals>>

PutsReload ==
  /\ sig = "put" /\ reload = <<>>
  /\ sig' = "close" /\ reload' = <<TRUE>>
  /\ UNCHANGED <<vars, main, shutdown, stop, signals>>

ClosesShutdown ==
  /\ sig = "close"
  /\ sig' = "gone" /\ shutdown' = TRUE
  /\ UNCHANGED <<vars, main, reload, stop, signals>>

-----------------------------------------------------------------------------
MainSteps   == Top \/ Load \/ RunStarts \/ RunLeaves \/ RunHangs \/ RunReturns
SignalSteps == TakesStop \/ TakesTerm \/ TakesReload \/ PutsReload \/ ClosesShutdown
Input       == \/ ListenerSteps \/ ParserSteps \/ GatherStarts \/ GatherSteps
               \/ StopSteps \/ \E c \in Conn : HandlerSteps(c)

Next ==
  /\ Alive
  /\ \/ MainSteps \/ SignalSteps \/ ServiceStop
     \/ \E s \in {"term", "hup"} : Signal(s)
     \/ Input /\ UNCHANGED loop

allVars == <<vars, loop>>

Fairness == StatsdFairness /\ WF_loop(MainSteps) /\ WF_loop(SignalSteps)

Spec == Init /\ [][Next]_allVars /\ Fairness

LoopTypeOK ==
  /\ TypeOK
  /\ main \in {"top", "load", "start", "run", "stop", "hung", "exited"}
  /\ reload \in {<<>>, <<TRUE>>, <<FALSE>>}
  /\ sig \in {"waiting", "term", "hup", "put", "close", "gone"}
  /\ shutdown \in BOOLEAN /\ stop \in BOOLEAN /\ signals \in 0 .. MaxSignals

(* The process is over, or what is left of it waits for ever: Stop for a   *)
(* Gather that has the lock, or Run for goroutines that do not leave.      *)
Ended == ~ Alive \/ GatherStuck \/ main = "hung"

(* A stop of the service ends the process, even if it comes while the      *)
(* configuration is reloaded, when a signal would be lost; so does a       *)
(* SIGTERM that was taken; unless Run or the input's Stop never returns.   *)
EndsWhenTold == (stop \/ sig = "term") ~> Ended

(* A SIGHUP that was taken makes the loop load the configuration again,    *)
(* unless the process ends or Run or the input's Stop never returns.       *)
ReloadsWhenTold == sig = "hup" ~> (main = "load" \/ Ended)
=============================================================================

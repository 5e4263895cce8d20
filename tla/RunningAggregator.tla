------------------------- MODULE RunningAggregator --------------------------
(***************************************************************************)
(* The goroutine of one aggregator, RunningAggregator.Run, with the clock: *)
(* it takes metrics from its channel, skips those whose time is outside of *)
(* the current window, and moves the window with every tick.  A ticker     *)
(* holds one tick; if that has not been taken when the next one is due,    *)
(* the next one is lost.                                                   *)
(*                                                                         *)
(* Times are counted from the truncated start of Run.                      *)
(***************************************************************************)
EXTENDS AggregatorPlugins

CONSTANTS
  Plugins,       \* the plugins it may run
  Series,        \* the series of the metrics it is sent
  Period, Delay, \* its configuration
  Truncations,   \* what may be truncated from the time at which Run starts
  Ages,          \* how old a metric may be when it is added
  ChanSize,      \* capacity of r.metrics, 100 in the code
  MaxLag,        \* bound: how long Sleep oversleeps
  MaxTime,       \* bound: the clock
  MaxMetrics     \* bound: metrics added

ASSUME TimesAssumption ==
  /\ Period \in Nat \ {0} /\ Delay \in Nat /\ Truncations \subseteq Nat
  /\ Ages \subseteq Int
ASSUME AggBoundsAssumption ==
  /\ ChanSize \in Nat /\ MaxLag \in Nat /\ MaxTime \in Nat /\ MaxMetrics \in Nat

VARIABLES
  plugin,        \* the plugin it runs
  now,           \* the clock
  truncation,
  periodStart,
  pc,            \* where the goroutine is
  lag,           \* by how much Sleep overslept
  due,           \* when the ticker ticks next
  pending,       \* ticks in the ticker's channel, 0 or 1
  lost,          \* history: ticks that found the channel full
  metrics,       \* r.metrics
  shutdown,
  cache,         \* the plugin's cache, by series
  contents,      \* history: the metrics in it
  skipped,       \* history: metrics that were skipped
  given          \* history: metrics added

ticker == <<lag, due, pending, lost>>
vars   == <<plugin, now, truncation, periodStart, pc, ticker, metrics, shutdown,
            cache, contents, skipped, given>>

periodEnd == periodStart + Period

Init ==
  /\ plugin \in Plugins /\ truncation \in Truncations
  /\ now = truncation /\ periodStart = 0
  /\ pc = "sleep"
  /\ lag = 0 /\ due = 0 /\ pending = 0 /\ lost = 0
  /\ metrics = <<>> /\ shutdown = FALSE
  /\ cache = [s \in Series |-> Nothing]
  /\ contents = [s \in Series |-> <<>>]
  /\ skipped = 0 /\ given = 0

(* The clock, and the ticker, which is stopped when Run returns.           *)
TimePasses ==
  /\ now < MaxTime
  /\ pc = "sleep" => now < truncation + Delay + MaxLag
  /\ now' = now + 1
  /\ IF pc \in {"select", "push"} /\ now' = due
     THEN due' = due + Period /\ pending' = 1 /\ lost' = lost + pending
     ELSE UNCHANGED <<due, pending, lost>>
  /\ UNCHANGED <<plugin, truncation, periodStart, pc, lag, metrics, shutdown, cache,
                 contents, skipped, given>>

(* Mutant: the sender does not wait for room.                              *)
Add_unbounded(m) ==
  /\ given < MaxMetrics
  /\ metrics' = Append(metrics, m)
  /\ given' = given + 1
  /\ UNCHANGED <<plugin, now, truncation, periodStart, pc, ticker, shutdown, cache,
                 contents, skipped>>

(* Add, called by the agent for a metric that the filter passes.           *)
Add(m) ==
  /\ given < MaxMetrics /\ Len(metrics) < ChanSize
  /\ metrics' = Append(metrics, m)
  /\ given' = given + 1
  /\ UNCHANGED <<plugin, now, truncation, periodStart, pc, ticker, shutdown, cache,
                 contents, skipped>>

Close ==
  /\ ~ shutdown /\ shutdown' = TRUE
  /\ UNCHANGED <<plugin, now, truncation, periodStart, pc, ticker, metrics, cache,
                 contents, skipped, given>>

-----------------------------------------------------------------------------
(* Sleep returns, and the ticker starts.                                   *)
Wake ==
  /\ pc = "sleep" /\ now >= truncation + Delay
  /\ pc' = "select"
  /\ lag' = now - truncation - Delay
  /\ due' = now + Period
  /\ UNCHANGED <<plugin, now, truncation, periodStart, pending, lost, metrics, shutdown,
                 cache, contents, skipped, given>>

(* Mutants: the delay, the start of the period is not looked at.           *)
InWindow_noDelay(t) == ~ (t < periodStart \/ t > periodEnd + truncation)
InWindow_noStart(t) == ~ (t > periodEnd + truncation + Delay)

InWindow(t) == ~ (t < periodStart \/ t > periodEnd + truncation + Delay)

Take ==
  /\ pc = "select" /\ metrics # <<>>
  /\ metrics' = Tail(metrics)
  /\ LET m == Head(metrics)
     IN  IF InWindow(m.time)
         THEN /\ cache' = [cache EXCEPT ![m.series] = PluginAdd(plugin, @, m.value)]
              /\ contents' = [contents EXCEPT ![m.series] = Append(@, m)]
              /\ UNCHANGED skipped
         ELSE skipped' = skipped + 1 /\ UNCHANGED <<cache, contents>>
  /\ UNCHANGED <<plugin, now, truncation, periodStart, pc, ticker, shutdown, given>>

(* Mutant: the window starts anew at the tick.                             *)
Tick_now ==
  /\ pc = "select" /\ pending = 1
  /\ pending' = 0 /\ periodStart' = now
  /\ pc' = "push"
  /\ UNCHANGED <<plugin, now, truncation, lag, due, lost, metrics, shutdown, cache,
                 contents, skipped, given>>

(* The window moves first.                                                 *)
Tick ==
  /\ pc = "select" /\ pending = 1
  /\ pending' = 0 /\ periodStart' = periodEnd
  /\ pc' = "push"
  /\ UNCHANGED <<plugin, now, truncation, lag, due, lost, metrics, shutdown, cache,
                 contents, skipped, given>>

(* push and reset: the send on aggMetricC may wait for any time before.    *)
Push ==
  /\ pc = "push"
  /\ pc' = "select"
  /\ cache' = [s \in Series |-> PluginReset(plugin, cache[s])]
  /\ contents' = [s \in Series |-> IF plugin = "histogram" THEN contents[s] ELSE <<>>]
  /\ UNCHANGED <<plugin, now, truncation, periodStart, ticker, metrics, shutdown,
                 skipped, given>>

(* What is in the cache is not pushed any more.                            *)
Return ==
  /\ pc = "select" /\ shutdown /\ metrics = <<>>
  /\ pc' = "gone"
  /\ UNCHANGED <<plugin, now, truncation, periodStart, ticker, metrics, shutdown, cache,
                 contents, skipped, given>>

Metrics == [series : Series, value : Values, time : {now - a : a \in Ages}]

Next ==
  \/ TimePasses \/ Close \/ (\E m \in Metrics : Add(m))
  \/ Wake \/ Take \/ Tick \/ Push \/ Return

Spec == Init /\ [][Next]_vars

-----------------------------------------------------------------------------
Awake == pc # "sleep"
PCs   == {"sleep", "select", "push", "gone"}

TypeOK ==
  /\ plugin \in Plugins /\ truncation \in Truncations
  /\ now \in Nat /\ periodStart \in Nat /\ lag \in Nat /\ due \in Nat
  /\ pending \in {0, 1} /\ lost \in Nat
  /\ pc \in PCs
  /\ metrics \in Seq([series : Series, value : Values, time : Int])
  /\ Len(metrics) <= ChanSize
  /\ skipped \in Nat /\ given \in Nat

(* The windows follow one another without a gap, and a tick that was lost  *)
(* is never made up for: from then on they are a period behind the clock.  *)
WindowFollowsTicks ==
  Awake => periodStart + truncation + Delay + lag
             = due - Period * (1 + pending + lost)

(* A metric is skipped only if it is late by more than the delay, or newer *)
(* than the window, which ends when the ticker ticks, but for the time     *)
(* that Sleep overslept and the ticks that are pending or were lost.       *)
SkipsOnlyLate ==
  [][skipped' # skipped =>
       LET t == Head(metrics).time
       IN  \/ now - t > truncation + Delay
           \/ t > due - lag - Period * (pending + lost)]_vars

(* What is pushed is of one window: no metric whose time is outside of the *)
(* period, but for the delay, is in the cache, and none stays there when   *)
(* the window has moved on.                                                *)
OnlyTheWindow ==
  plugin # "histogram" =>
    LET from == IF pc = "push" THEN periodStart - Period ELSE periodStart
    IN  \A s \in Series : \A i \in DOMAIN contents[s] :
          /\ from <= contents[s][i].time
          /\ contents[s][i].time <= from + Period + truncation + Delay

(* However the metrics of several series, numbers or not, come in and      *)
(* whatever was pushed before, what the plugin has worked out one value at *)
(* a time is what its values say.                                          *)
ReportsTrue ==
  \A s \in Series :
    PluginPush(plugin, cache[s]) =
      Report(plugin, [i \in DOMAIN contents[s] |-> contents[s][i].value])
=============================================================================

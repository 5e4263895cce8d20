----------------------- MODULE RunningAggregatorProofs -----------------------
(***************************************************************************)
(* Theorems about the window of RunningAggregator, for any period, delay,  *)
(* truncation and any times of the metrics.                                *)
(***************************************************************************)
EXTENDS RunningAggregator, TLAPS

(* What the argument needs of the types.                                   *)
Times ==
  /\ now \in Nat /\ periodStart \in Nat /\ truncation \in Nat
  /\ lag \in Nat /\ due \in Nat /\ lost \in Nat /\ pending \in {0, 1}
  /\ pc \in PCs

(* The queue and the histories of metrics have metrics with times.         *)
Timed == [series : Series, value : Values, time : Int]
Queued ==
  /\ metrics \in Seq(Timed)
  /\ contents \in [Series -> Seq(Timed)]

(* While Run has a ticker its next tick lies ahead, by a period at most;   *)
(* this is what ties the window, which knows the ticks alone, to the clock.*)
TickAhead == pc \in {"select", "push"} => due - Period <= now /\ now < due

(* Before the ticker starts no tick was ever sent.                         *)
Asleep == pc = "sleep" => periodStart = 0 /\ pending = 0 /\ lost = 0

WindowInv == Times /\ TickAhead /\ Asleep /\ WindowFollowsTicks

(* The first states satisfy the invariant.                                 *)
LEMMA InitWindowInv == Init => WindowInv
<1> SUFFICES ASSUME Init PROVE WindowInv
  OBVIOUS
<1> QED
  BY TimesAssumption
  DEF Init, WindowInv, Times, TickAhead, Asleep, WindowFollowsTicks, Awake, PCs

(* Every step keeps the window and the ticker together.                    *)
LEMMA NextWindowInv == WindowInv /\ [Next]_vars => WindowInv'
<1> SUFFICES ASSUME WindowInv, [Next]_vars PROVE WindowInv'
  OBVIOUS
<1> USE TimesAssumption
<1> USE DEF WindowInv, Times, TickAhead, Asleep, WindowFollowsTicks, Awake, PCs, ticker
<1>1. CASE TimePasses
  <2>1. /\ UNCHANGED <<periodStart, truncation, pc, lag>> /\ now' = now + 1
        /\ \/ /\ pc \in {"select", "push"} /\ now + 1 = due
              /\ due' = due + Period /\ pending' = 1 /\ lost' = lost + pending
           \/ ~ (pc \in {"select", "push"} /\ now + 1 = due)
              /\ UNCHANGED <<due, pending, lost>>
    BY <1>1 DEF TimePasses
  <2>2. CASE /\ pc \in {"select", "push"} /\ now + 1 = due
             /\ due' = due + Period /\ pending' = 1 /\ lost' = lost + pending
    <3>1. pending = 0 \/ pending = 1
      OBVIOUS
    <3> QED BY <2>1, <2>2, <3>1
  <2>3. CASE ~ (pc \in {"select", "push"} /\ now + 1 = due)
             /\ UNCHANGED <<due, pending, lost>>
    BY <2>1, <2>3
  <2> QED BY <2>1, <2>2, <2>3
<1>2. CASE Wake
  BY <1>2 DEF Wake
<1>3. CASE Tick
  BY <1>3 DEF Tick, periodEnd
<1>4. CASE Push
  BY <1>4 DEF Push
<1>5. CASE Return
  BY <1>5 DEF Return
<1>6. CASE Take
  BY <1>6 DEF Take
<1>7. CASE Close
  BY <1>7 DEF Close
<1>8. ASSUME NEW m \in Metrics, Add(m) PROVE WindowInv'
  BY <1>8 DEF Add
<1>9. CASE UNCHANGED vars
  BY <1>9 DEF vars
<1> QED
  BY <1>1, <1>2, <1>3, <1>4, <1>5, <1>6, <1>7, <1>8, <1>9 DEF Next

(* The windows follow one another without a gap, a period behind the clock *)
(* for every tick that was lost (RunningAggregator.Run).                   *)
THEOREM WindowsFollowTicks == Spec => []WindowFollowsTicks
<1>1. WindowInv => WindowFollowsTicks
  BY DEF WindowInv
<1> QED BY InitWindowInv, NextWindowInv, <1>1, PTL DEF Spec

-----------------------------------------------------------------------------
(* The queue holds metrics with times.                                     *)
LEMMA InitQueued == Init => Queued
  BY DEF Init, Queued, Timed

(* Every step keeps it so.                                                 *)
LEMMA NextQueued == WindowInv /\ Queued /\ [Next]_vars => Queued'
<1> SUFFICES ASSUME WindowInv, Queued, [Next]_vars PROVE Queued'
  OBVIOUS
<1> USE DEF Queued
<1>1. CASE TimePasses
  BY <1>1 DEF TimePasses
<1>2. CASE Wake
  BY <1>2 DEF Wake
<1>3. CASE Tick
  BY <1>3 DEF Tick
<1>4. CASE Push
  BY <1>4 DEF Push
<1>5. CASE Return
  BY <1>5 DEF Return
<1>6. CASE Take
  <2>1. metrics # <<>> /\ metrics' = Tail(metrics)
    BY <1>6 DEF Take
  <2>2. Head(metrics) \in Timed /\ metrics' \in Seq(Timed)
    BY <2>1
  <2>3. Head(metrics).series \in Series
    BY <2>2 DEF Timed
  <2>4. \/ contents' = contents
        \/ contents' = [contents EXCEPT ![Head(metrics).series] =
                          Append(@, Head(metrics))]
    BY <1>6 DEF Take
  <2>5. \A s \in Series : Append(contents[s], Head(metrics)) \in Seq(Timed)
    BY <2>2
  <2>6. contents' \in [Series -> Seq(Timed)]
    BY <2>3, <2>4, <2>5
  <2> QED BY <2>2, <2>6
<1>7. CASE Close
  BY <1>7 DEF Close
<1>8. ASSUME NEW m \in Metrics, Add(m) PROVE Queued'
  <2>1. m \in Timed
    BY TimesAssumption DEF Metrics, Timed, WindowInv, Times
  <2> QED BY <1>8, <2>1 DEF Add
<1>9. CASE UNCHANGED vars
  BY <1>9 DEF vars
<1> QED
  BY <1>1, <1>2, <1>3, <1>4, <1>5, <1>6, <1>7, <1>8, <1>9 DEF Next

(* Only Take skips, and what it skips lies outside of the window, which    *)
(* the invariant places on the clock.                                      *)
LEMMA TakeSkipsOnlyLate ==
  ASSUME WindowInv, Queued, Take, skipped' # skipped
  PROVE  LET t == Head(metrics).time
         IN  \/ now - t > truncation + Delay
             \/ t > due - lag - Period * (pending + lost)
<1> DEFINE t == Head(metrics).time
<1>1. metrics # <<>> /\ ~ InWindow(t) /\ pc = "select"
  BY DEF Take
<1>2. t \in Int
  <2>1. Head(metrics) \in Timed
    BY <1>1 DEF Queued
  <2> QED BY <2>1 DEF Timed
<1>3. t < periodStart \/ t > periodStart + Period + truncation + Delay
  BY <1>1 DEF InWindow, periodEnd
<1>4. /\ now \in Nat /\ periodStart \in Nat /\ truncation \in Nat /\ lag \in Nat
      /\ due \in Nat /\ lost \in Nat /\ pending \in Nat
      /\ Period \in Nat /\ Delay \in Nat
  BY TimesAssumption DEF WindowInv, Times
<1>5. due - Period <= now
      /\ periodStart + truncation + Delay + lag = due - Period * (1 + pending + lost)
  BY <1>1 DEF WindowInv, TickAhead, WindowFollowsTicks, Awake
<1>6. Period * (1 + pending + lost) = Period + Period * (pending + lost)
      /\ Period * (pending + lost) \in Nat
  BY <1>4
<1> HIDE DEF t
<1>7. now - t > truncation + Delay \/ t > due - lag - Period * (pending + lost)
  BY <1>2, <1>3, <1>4, <1>5, <1>6
<1> QED BY <1>7 DEF t

(* A metric is skipped only if it is late by more than the delay, or newer *)
(* than a window that lags behind (RunningAggregator.Run's case of         *)
(* r.metrics).                                                             *)
THEOREM SkipsAreLate == Spec => SkipsOnlyLate
<1> DEFINE Late == skipped' # skipped =>
                     LET t == Head(metrics).time
                     IN  \/ now - t > truncation + Delay
                         \/ t > due - lag - Period * (pending + lost)
<1>1. WindowInv /\ Queued /\ [Next]_vars => [Late]_vars
  <2> SUFFICES ASSUME WindowInv, Queued, Next, skipped' # skipped PROVE Late
    BY DEF vars
  <2>1. Take
    BY DEF Next, TimePasses, Close, Add, Wake, Tick, Push, Return
  <2> QED BY <2>1, TakeSkipsOnlyLate
<1> HIDE DEF Late
<1>2. Spec => [][Late]_vars
  BY InitWindowInv, NextWindowInv, InitQueued, NextQueued, <1>1, PTL DEF Spec
<1> QED BY <1>2 DEF SkipsOnlyLate, Late

-----------------------------------------------------------------------------
(* The window of which the cache has metrics.                              *)
From == IF pc = "push" THEN periodStart - Period ELSE periodStart
Within(t) == From <= t /\ t <= From + Period + truncation + Delay
Cached ==
  plugin # "histogram" =>
    \A s \in Series : \A i \in DOMAIN contents[s] : Within(contents[s][i].time)

(* A step that leaves the contents and the window alone keeps them so.     *)
LEMMA SameWindow ==
  ASSUME Cached, UNCHANGED <<plugin, contents, truncation>>, From' = From
  PROVE  Cached'
  BY DEF Cached, Within

(* Every step keeps the metrics of the cache in its window.                *)
LEMMA NextCached == WindowInv /\ Queued /\ Cached /\ [Next]_vars => Cached'
<1> SUFFICES ASSUME WindowInv, Queued, Cached, [Next]_vars PROVE Cached'
  OBVIOUS
<1>1. CASE TimePasses
  BY <1>1, SameWindow DEF TimePasses, From
<1>2. CASE Wake
  BY <1>2, SameWindow DEF Wake, From
<1>3. CASE Tick
  <2>1. From' = From
    BY <1>3, TimesAssumption DEF Tick, From, periodEnd, WindowInv, Times
  <2> QED BY <1>3, <2>1, SameWindow DEF Tick
<1>4. CASE Push
  BY <1>4 DEF Push, Cached
<1>5. CASE Return
  BY <1>5, SameWindow DEF Return, From
<1>6. CASE Take
  <2> DEFINE m == Head(metrics)
  <2>1. /\ metrics # <<>> /\ pc = "select" /\ pc' = pc
        /\ UNCHANGED <<plugin, truncation, periodStart>>
    BY <1>6 DEF Take
  <2>2. m \in Timed
    BY <2>1 DEF Queued
  <2>3. m.series \in Series /\ m.time \in Int
    BY <2>2 DEF Timed
  <2>4. From = periodStart /\ From' = From
    BY <2>1 DEF From
  <2>5. CASE contents' = contents
    BY <2>1, <2>4, <2>5, SameWindow
  <2>6. CASE contents' # contents
    <3>1. /\ InWindow(m.time)
          /\ contents' = [contents EXCEPT ![m.series] = Append(@, m)]
      BY <1>6, <2>6 DEF Take
    <3>2. Within(m.time)
      BY <2>3, <2>4, <3>1, TimesAssumption
      DEF InWindow, periodEnd, Within, WindowInv, Times
    <3> HIDE DEF m
    <3>3. ASSUME NEW s \in Series, NEW i \in DOMAIN contents'[s]
          PROVE  \/ contents'[s][i] = m
                 \/ i \in DOMAIN contents[s] /\ contents'[s][i] = contents[s][i]
      <4>1. CASE s = m.series
        <5>1. contents'[s] = Append(contents[s], m) /\ contents[s] \in Seq(Timed)
          BY <3>1, <4>1 DEF Queued
        <5> QED BY <2>2, <3>3, <5>1
      <4>2. CASE s # m.series
        BY <3>1, <3>3, <4>2 DEF Queued
      <4> QED BY <4>1, <4>2
    <3>4. \A t : Within(t)' <=> Within(t)
      BY <2>1, <2>4 DEF Within
    <3> QED BY <2>1, <3>2, <3>3, <3>4 DEF Cached
  <2> QED BY <2>5, <2>6
<1>7. CASE Close
  BY <1>7, SameWindow DEF Close, From
<1>8. ASSUME NEW m \in Metrics, Add(m) PROVE Cached'
  BY <1>8, SameWindow DEF Add, From
<1>9. CASE UNCHANGED vars
  BY <1>9, SameWindow DEF vars, From
<1> QED
  BY <1>1, <1>2, <1>3, <1>4, <1>5, <1>6, <1>7, <1>8, <1>9 DEF Next

(* What an aggregator pushes is of one window: Run adds only metrics of    *)
(* the current one, and empties the cache before it takes any of the next. *)
THEOREM PushesOneWindow == Spec => []OnlyTheWindow
<1>1. Init => Cached
  BY DEF Init, Cached
<1>2. Cached <=> OnlyTheWindow
  BY DEF Cached, OnlyTheWindow, Within, From
<1> QED
  BY InitWindowInv, NextWindowInv, InitQueued, NextQueued, NextCached, <1>1, <1>2, PTL
  DEF Spec
-----------------------------------------------------------------------------
(* The rest of the types.                                                  *)
Bounded ==
  /\ plugin \in Plugins /\ truncation \in Truncations
  /\ Len(metrics) <= ChanSize
  /\ skipped \in Nat /\ given \in Nat

(* Nobody but Add puts a metric into r.metrics, and it waits for room.     *)
LEMMA NextBounded == Queued /\ Bounded /\ [Next]_vars => Bounded'
<1> SUFFICES ASSUME Queued, Bounded, [Next]_vars PROVE Bounded'
  OBVIOUS
<1> USE DEF Bounded
<1>0. metrics \in Seq(Timed) /\ Len(metrics) \in Nat /\ ChanSize \in Nat
  BY AggBoundsAssumption DEF Queued
<1>1. CASE Take
  <2>1. Len(metrics') = Len(metrics) - 1
    BY <1>0, <1>1 DEF Take
  <2> QED BY <1>0, <1>1, <2>1 DEF Take
<1>2. ASSUME NEW m \in Metrics, Add(m) PROVE Bounded'
  <2>1. Len(metrics') = Len(metrics) + 1
    BY <1>0, <1>2 DEF Add
  <2> QED BY <1>0, <1>2, <2>1 DEF Add
<1> QED BY <1>1, <1>2 DEF Next, TimePasses, Close, Wake, Tick, Push, Return, vars

(* The channel r.metrics is never filled beyond its capacity, the clock    *)
(* and the window are never negative, and a ticker holds one tick at most. *)
THEOREM AggregatorTypeCorrect == Spec => []TypeOK
<1>1. Init => Bounded
  BY AggBoundsAssumption DEF Init, Bounded
<1>2. WindowInv /\ Queued /\ Bounded => TypeOK
  BY DEF WindowInv, Times, Queued, Timed, Bounded, TypeOK
<1> QED
  BY InitWindowInv, NextWindowInv, InitQueued, NextQueued, NextBounded, <1>1, <1>2, PTL
  DEF Spec

=============================================================================

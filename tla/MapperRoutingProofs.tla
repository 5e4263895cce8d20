------------------------- MODULE MapperRoutingProofs ------------------------
(***************************************************************************)
(* More theorems about the mapper: what its reroutes leave in the file of  *)
(* an agent passes every metric on, or drops it, as the configuration      *)
(* means.  First a file and what one reroute or removal does to it; then   *)
(* the calls of a place and of the undo after it, which are lists of the   *)
(* same length, each call taken back by the one at its own position; last  *)
(* the agents, whose removals to come are the reroutes that were made.     *)
(***************************************************************************)
EXTENDS MapperProofs, FiniteSetTheorems

-----------------------------------------------------------------------------
(* Where an agent sends its metrics.                                       *)
MetricOf(n, t, b) == [name |-> n, to |-> t, aggregated |-> b]

IsOverride(c) == IsPluginOf(c, "processor") /\ c.name = "override"
IsHttp(c)     == IsPluginOf(c, "output") /\ c.name = "http"

Overridden(s) == {Head(s[i].tags) : i \in {j \in 1 .. Len(s) : IsOverride(s[j])}}

LEMMA OneIs ==
  ASSUME NEW x
  PROVE  /\ Len(<<x>>) = 1 /\ DOMAIN <<x>> = {1} /\ <<x>>[1] = x /\ Head(<<x>>) = x /\ <<x>> # <<>>
         /\ 1 \in DOMAIN <<x>>
OBVIOUS

LEMMA TwoIs == ASSUME NEW x, NEW y PROVE Len(<<x, y>>) = 2
OBVIOUS

LEMMA AggregatedIs ==
  ASSUME NEW n, NEW t, NEW b
  PROVE  [MetricOf(n, t, b) EXCEPT !.aggregated = TRUE] = MetricOf(n, t, TRUE)
<1>1. \A c : [MetricOf(n, t, b) EXCEPT !.aggregated = c] = MetricOf(n, t, c)
  BY DEF MetricOf
<1> DEFINE m == MetricOf(n, t, b)
           E(c) == [m EXCEPT !.aggregated = c]
           F(c) == MetricOf(n, t, c)
<1>2. \A c : E(c) = F(c)
  BY <1>1
<1> HIDE DEF E, F
<1>3. E(TRUE) = F(TRUE)
  BY <1>2, Zenon
<1> QED BY <1>3 DEF E, F

(* The processors change nothing but to, to what an override says.         *)
LEMMA ProcessedIs ==
  ASSUME NEW C, NEW s \in Seq(C), NEW n, NEW t, NEW b
  PROVE  \E u \in {t} \union Overridden(s) : Processed(s, MetricOf(n, t, b)) = MetricOf(n, u, b)
<1> DEFINE T == {t} \union Overridden(s)
           V == {MetricOf(n, u, b) : u \in T}
           m == MetricOf(n, t, b)
           len == Len(s)
           Body(v, i) == IF IsPluginOf(s[i], "processor") THEN Override(v, s[i]) ELSE v
           Def(f) == [i \in 0 .. len |-> IF i = 0 THEN m
                                         ELSE IF IsPluginOf(s[i], "processor") THEN Override(f[i - 1], s[i])
                                         ELSE f[i - 1]]
           after == CHOOSE f : f = Def(f)
<1>1. Processed(s, m) = after[len]
  BY DEF Processed
<1>2. m \in V /\ len \in Nat
  OBVIOUS
<1>3. ASSUME NEW i \in 1 .. len, NEW v \in V PROVE Body(v, i) \in V
  <2>1. PICK u \in T : v = MetricOf(n, u, b)
    OBVIOUS
  <2>2. CASE IsPluginOf(s[i], "processor") /\ s[i].name = "override" /\ Passes(s[i], v)
    <3>1. Head(s[i].tags) \in T
      BY <2>2 DEF Overridden, IsOverride
    <3>2. Body(v, i) = [v EXCEPT !.to = Head(s[i].tags)]
      BY <2>2 DEF Override
    <3>3. Body(v, i) = MetricOf(n, Head(s[i].tags), b)
      BY <2>1, <3>2 DEF MetricOf
    <3> QED BY <3>1, <3>3
  <2>3. CASE ~ (IsPluginOf(s[i], "processor") /\ s[i].name = "override" /\ Passes(s[i], v))
    <3>1. Body(v, i) = v
      BY <2>3 DEF Override
    <3> QED BY <3>1
  <2> QED BY <2>2, <2>3
<1>4. \A f : Def(f) = [i \in 0 .. len |-> IF i = 0 THEN m ELSE Body(f[i - 1], i)]
  OBVIOUS
<1> HIDE DEF V, m, len, Body
<1> DEFINE step == [k \in 1 .. len |-> [v \in V |-> Body(v, k)]]
<1>5. step \in [1 .. len -> [V -> V]]
  BY <1>3
<1>6. \A k \in 1 .. len, v \in V : step[k][v] = Body(v, k)
  OBVIOUS
<1> HIDE DEF step
<1>7. PICK g \in [0 .. len -> V] : g[0] = m /\ \A k \in 1 .. len : g[k] = step[k][g[k - 1]]
  <2>1. \E g : Loops(g, V, m, len, step)
    BY <1>2, <1>5, LoopExists
  <2> QED BY <2>1 DEF Loops
<1>8. \A k \in 1 .. len : g[k] = Body(g[k - 1], k)
  <2>1. ASSUME NEW k \in 1 .. len PROVE g[k] = Body(g[k - 1], k)
    <3>1. k - 1 \in 0 .. len
      BY <1>2
    <3> QED BY <1>6, <1>7, <3>1
  <2> QED BY <2>1
<1> DEFINE Fun(f) == [i \in 0 .. len |-> IF i = 0 THEN m ELSE Body(f[i - 1], i)]
<1>9. g = Fun(g)
  <2>1. \A k \in 0 .. len : g[k] = IF k = 0 THEN m ELSE Body(g[k - 1], k)
    <3>1. ASSUME NEW k \in 0 .. len PROVE g[k] = IF k = 0 THEN m ELSE Body(g[k - 1], k)
      <4>1. k = 0 \/ k \in 1 .. len
        BY <1>2
      <4> QED BY <1>7, <1>8, <4>1
    <3> QED BY <3>1
  <2> QED BY <2>1
<1>10. after = Def(after)
  <2>1. g = Def(g)
    BY <1>4, <1>9
  <2> HIDE DEF Def
  <2> QED BY <2>1
<1>11. after = Fun(after)
  BY <1>4, <1>10
<1> HIDE DEF after
<1>12. \A k \in 0 .. len : after[k] = g[k]
  <2> DEFINE P == {k \in 0 .. len : after[k] = g[k]}
  <2>0. \A k \in 0 .. len : after[k] = IF k = 0 THEN m ELSE Body(after[k - 1], k)
    BY <1>11
  <2>1. 0 \in P
    BY <1>2, <1>7, <2>0
  <2>2. ASSUME NEW k \in 0 .. len - 1, k \in P PROVE k + 1 \in P
    <3>1. PICK j \in 1 .. len : j = k + 1
      BY <1>2
    <3>2. j - 1 = k /\ j \in 0 .. len /\ j # 0
      BY <1>2, <3>1
    <3>3. after[j] = Body(after[j - 1], j)
      BY <2>0, <3>2
    <3>4. after[j - 1] = g[j - 1]
      BY <2>2, <3>2
    <3>5. after[j] = g[j]
      BY <1>8, <3>3, <3>4
    <3>6. j \in P
      BY <3>2, <3>5
    <3> QED BY <3>1, <3>6
  <2> HIDE DEF P
  <2>3. \A k \in 0 .. len : k \in P
    BY <1>2, <2>1, <2>2, UpTo
  <2> QED BY <2>3 DEF P
<1>13. after[len] \in V
  <2>1. len \in 0 .. len
    BY <1>2
  <2> QED BY <1>7, <1>12, <2>1
<1> QED BY <1>1, <1>13 DEF V, m

Reserved == {"absent", "default", "false", "maybe"}

(* A plugin of the user while there are no reroutes, and while there are.  *)
OffOwn(c) ==
  /\ c.name \notin Added /\ c.names = "" /\ c.pass = <<>> /\ c.drop = "none" /\ c.exclude = "none"
  /\ c.tags \in {<<>>, <<"absent">>}

OnOwn(c) ==
  /\ c.name \notin Added /\ c.names = "" /\ c.drop = "none"
  /\ c.type = "output" => c.pass = <<"default">> /\ c.exclude = "default"
  /\ c.type # "output" => c.pass = <<>> /\ c.exclude = "none"
  /\ c.type = "input" => c.tags \in {<<"maybe">>, <<"absent", "maybe">>}
  /\ c.type # "input" => c.tags \in {<<>>, <<"absent">>}

(* What the mapper adds for the reroutes of W.                             *)
OverrideOf(w, c) == c = createOverrideProcessorPlugin(w.measurement, w.cepId, w.proxy)
StatsOf(w, c)    == c = createBasicStatsAggregatorPlugin(w.measurement, w.cepId)
HttpOf(w, c)     == \E url \in Hosts : c = createCepHttpOutputPlugin(w.cepId, url)

AddedFor(w, c) == OverrideOf(w, c) \/ StatsOf(w, c) \/ HttpOf(w, c)

OnElement(c, W) ==
  IsPlugin(c) => \/ OnOwn(c)
                 \/ c = createBackloopHttpListenerInputPlugin
                 \/ \E w \in W : AddedFor(w, c)

(* Class, by the name alone: the user has no plugin of such a name here.   *)
Named(c) ==
  IF c.kind = "default" THEN "default"
  ELSE IF c.kind = "plugin" /\ c.name \in Added THEN "added" ELSE "own"

LEMMA NamedIs ==
  ASSUME NEW c
  PROVE  /\ Class(c) = "added" => Named(c) = "added"
         /\ Class(c) # "own" => Named(c) # "own"
BY DEF Class, Named

OwnOutput(c) == IsOfType(c, "output") /\ Named(c) = "own"

(* Every override sends to an alerting system, unless the user has no      *)
(* outputs.                                                                *)
Answered(s) ==
  \/ \A i \in 1 .. Len(s) : ~ OwnOutput(s[i])
  \/ \A i \in 1 .. Len(s) : IsOverride(s[i]) =>
       \E j \in 1 .. Len(s) : IsHttp(s[j]) /\ s[j].pass = s[i].tags

OutputKept(c) ==
  /\ c.names = "" /\ c.pass # <<>> /\ Len(c.pass) = 1 /\ 1 \in DOMAIN c.pass /\ DOMAIN c.pass = {1}
  /\ \/ c.name # "http" /\ c.pass[1] = "default" /\ c.drop = "none"
     \/ c.name = "http" /\ c.pass[1] \notin Reserved /\ c.drop = "aggregated"

LEMMA NotAnOutput ==
  ASSUME NEW w, NEW c, c.type = "output"
  PROVE  ~ OverrideOf(w, c) /\ ~ StatsOf(w, c)
<1>1. createOverrideProcessorPlugin(w.measurement, w.cepId, w.proxy).type = "processor"
  BY DEF createOverrideProcessorPlugin, Plugin
<1>2. createBasicStatsAggregatorPlugin(w.measurement, w.cepId).type = "aggregator"
  BY DEF createBasicStatsAggregatorPlugin, Plugin
<1> QED BY <1>1, <1>2 DEF OverrideOf, StatsOf

LEMMA OnOutput ==
  ASSUME NEW W, \A w \in W : w.cepId \notin Reserved, NEW c, OnElement(c, W), IsPluginOf(c, "output")
  PROVE  OutputKept(c)
<1>1. IsPlugin(c) /\ c.type = "output"
  BY DEF IsPluginOf
<1>2. CASE OnOwn(c)
  <2>1. c.names = "" /\ c.name # "http" /\ c.pass = <<"default">> /\ c.drop = "none"
    BY <1>1, <1>2 DEF OnOwn, Added
  <2> QED BY <2>1, OneIs DEF OutputKept
<1>3. c # createBackloopHttpListenerInputPlugin
  BY <1>1 DEF createBackloopHttpListenerInputPlugin, Plugin
<1>4. CASE \E w \in W : AddedFor(w, c)
  <2>1. PICK w \in W : AddedFor(w, c)
    BY <1>4
  <2>2. ~ OverrideOf(w, c) /\ ~ StatsOf(w, c)
    BY <1>1, NotAnOutput
  <2>3. PICK url \in Hosts : c = createCepHttpOutputPlugin(w.cepId, url)
    BY <2>1, <2>2 DEF AddedFor, HttpOf
  <2>4. c.name = "http" /\ c.names = "" /\ c.pass = <<w.cepId>> /\ c.drop = "aggregated"
    BY <2>3 DEF createCepHttpOutputPlugin, Plugin
  <2>5. w.cepId \notin Reserved
    OBVIOUS
  <2> QED BY <2>4, <2>5, OneIs DEF OutputKept
<1> QED BY <1>1, <1>2, <1>3, <1>4 DEF OnElement

LEMMA OnOverride ==
  ASSUME NEW W, \A w \in W : w.cepId \notin Reserved, NEW c, OnElement(c, W), IsOverride(c)
  PROVE  \E w \in W : OverrideOf(w, c) /\ c.tags = <<w.cepId>> /\ Head(c.tags) = w.cepId /\ c.names = w.measurement
<1>1. IsPlugin(c) /\ c.type = "processor" /\ c.name = "override"
  BY DEF IsPluginOf, IsOverride
<1>2. ~ OnOwn(c)
  BY <1>1 DEF OnOwn, Added
<1>3. c # createBackloopHttpListenerInputPlugin
  BY <1>1 DEF createBackloopHttpListenerInputPlugin, Plugin
<1>4. PICK w \in W : AddedFor(w, c)
  BY <1>1, <1>2, <1>3 DEF OnElement
<1>5. ~ StatsOf(w, c) /\ ~ HttpOf(w, c)
  BY <1>1 DEF StatsOf, HttpOf, createCepHttpOutputPlugin, createBasicStatsAggregatorPlugin, Plugin
<1>6. OverrideOf(w, c)
  BY <1>4, <1>5 DEF AddedFor
<1>7. c.tags = <<w.cepId>> /\ c.names = w.measurement
  BY <1>6 DEF OverrideOf, createOverrideProcessorPlugin, Plugin
<1> QED BY <1>6, <1>7

LEMMA OnInput ==
  ASSUME NEW W, NEW c, OnElement(c, W), IsPluginOf(c, "input"), Len(c.tags) <= 1
  PROVE  c.tags # <<>> /\ Head(c.tags) \in {"maybe", "false"}
<1>1. IsPlugin(c) /\ c.type = "input"
  BY DEF IsPluginOf
<1>2. CASE OnOwn(c)
  <2>1. c.tags \in {<<"maybe">>, <<"absent", "maybe">>}
    BY <1>1, <1>2 DEF OnOwn
  <2>2. c.tags = <<"maybe">>
    BY <2>1, TwoIs
  <2> QED BY <2>2, OneIs
<1>3. CASE c = createBackloopHttpListenerInputPlugin
  <2>1. c.tags = <<"false">>
    BY <1>3 DEF createBackloopHttpListenerInputPlugin, Plugin
  <2> QED BY <2>1, OneIs
<1>4. \A w : ~ AddedFor(w, c)
  BY <1>1 DEF AddedFor, OverrideOf, StatsOf, HttpOf, createOverrideProcessorPlugin, createCepHttpOutputPlugin,
              createBasicStatsAggregatorPlugin, Plugin
<1> QED BY <1>1, <1>2, <1>3, <1>4 DEF OnElement

(* The outputs that a metric goes to while there are reroutes.             *)
LEMMA OnDelivered ==
  ASSUME NEW C, NEW s \in Seq(C), NEW n, NEW t, NEW b \in BOOLEAN,
         \A c \in PluginsOf(s, "output") : OutputKept(c)
  PROVE  LET m == MetricOf(n, t, b)
         IN  /\ b => Delivered(s, m) = DefaultOutputs(s)
             /\ ~ b /\ t \in {"maybe", "false"} => Delivered(s, m) = DefaultOutputs(s)
             /\ ~ b /\ t \notin Reserved =>
                  Delivered(s, m) = {p \in CepOutputs(s) : p.pass[1] = t}
<1> DEFINE m == MetricOf(n, t, b)
           O == PluginsOf(s, "output")
<1>1. m.name = n /\ m.to = t /\ m.aggregated = b
  BY DEF MetricOf
<1> HIDE DEF m
<1>2. ASSUME NEW p \in O
      PROVE  Passes(p, m) <=> IF p.name = "http" THEN ~ b /\ t = p.pass[1] ELSE t \in {"false", "maybe"} \/ b
  <2>1. OutputKept(p)
    OBVIOUS
  <2>2. shouldNamePass(p, m)
    BY <2>1 DEF OutputKept, shouldNamePass
  <2>3. p.pass # <<>>
    BY <2>1 DEF OutputKept
  <2>4. shouldTagsPass(p, m) <=>
          /\ IF p.pass[1] = "default" THEN t \in {"false", "maybe"} \/ b ELSE t = p.pass[1]
          /\ p.drop = "aggregated" => ~ b
          /\ p.drop = "false" => t # "false"
    BY <1>1, <2>1, <2>3 DEF OutputKept, shouldTagsPass
  <2>5. CASE p.name = "http"
    <3>1. p.pass[1] # "default" /\ p.drop = "aggregated"
      BY <2>1, <2>5 DEF OutputKept, Reserved
    <3> QED BY <2>2, <2>4, <2>5, <3>1 DEF Passes
  <2>6. CASE p.name # "http"
    <3>1. p.pass[1] = "default" /\ p.drop = "none"
      BY <2>1, <2>6 DEF OutputKept
    <3> QED BY <2>2, <2>4, <2>6, <3>1 DEF Passes
  <2> QED BY <2>5, <2>6
<1>3. \A p \in O : p.name = "http" => p.pass[1] \notin Reserved
  BY DEF OutputKept
<1>4. Delivered(s, m) = {p \in O : Passes(p, m)} /\ CepOutputs(s) = {p \in O : p.name = "http"}
      /\ DefaultOutputs(s) = O \ CepOutputs(s)
  BY DEF Delivered, CepOutputs, DefaultOutputs
<1> HIDE DEF O
<1>5. ASSUME b PROVE Delivered(s, m) = DefaultOutputs(s)
  BY <1>2, <1>4, <1>5
<1>6. ASSUME ~ b, t \in {"maybe", "false"} PROVE Delivered(s, m) = DefaultOutputs(s)
  BY <1>2, <1>3, <1>4, <1>6 DEF Reserved
<1>7. ASSUME ~ b, t \notin Reserved PROVE Delivered(s, m) = {p \in CepOutputs(s) : p.pass[1] = t}
  BY <1>2, <1>4, <1>7 DEF Reserved
<1> QED BY <1>5, <1>6, <1>7 DEF m

LEMMA RoutesWhileOn ==
  ASSUME NEW C, NEW s \in Seq(C), NEW W, \A w \in W : w.cepId \notin Reserved,
         \A i \in 1 .. Len(s) : OnElement(s[i], W), Answered(s), Parses(s), NEW names
  PROVE  RoutesWell(s, names)
<1>0. DOMAIN s = 1 .. Len(s)
  OBVIOUS
<1>m. \A n, t, b : [MetricOf(n, t, b) EXCEPT !.aggregated = TRUE] = MetricOf(n, t, TRUE)
  BY AggregatedIs
<1>p. \A n, t, b : \E u \in {t} \union Overridden(s) : Processed(s, MetricOf(n, t, b)) = MetricOf(n, u, b)
  BY ProcessedIs
<1>1. \A x : \A c \in PluginsOf(s, x) : \E i \in 1 .. Len(s) : c = s[i] /\ IsPluginOf(s[i], x)
  BY <1>0 DEF PluginsOf, Range
<1>2. \A c \in PluginsOf(s, "output") : OutputKept(c)
  <2>1. ASSUME NEW c \in PluginsOf(s, "output") PROVE OutputKept(c)
    <3>1. PICK i \in 1 .. Len(s) : c = s[i] /\ IsPluginOf(s[i], "output")
      BY <1>1
    <3> QED BY <3>1, OnOutput
  <2> QED BY <2>1
<1>3. ASSUME NEW raw \in Made(s, names)
      PROVE  \E n : \E t \in {"maybe", "false"} : raw = MetricOf(n, t, FALSE)
  <2>1. PICK c \in PluginsOf(s, "input") : \E n : raw = makemetric(c, n)
    BY DEF Made
  <2>2. PICK n : raw = makemetric(c, n)
    BY <2>1
  <2>3. PICK i \in 1 .. Len(s) : c = s[i] /\ IsPluginOf(s[i], "input")
    BY <1>1
  <2>4. Len(c.tags) <= 1
    BY <1>0, <2>3 DEF Parses, IsPluginOf
  <2>5. c.tags # <<>> /\ Head(c.tags) \in {"maybe", "false"}
    BY <2>3, <2>4, OnInput
  <2>6. raw = MetricOf(n, Head(c.tags), FALSE)
    BY <2>2, <2>5 DEF makemetric, MetricOf
  <2> QED BY <2>5, <2>6
<1>4. \A t \in Overridden(s) : t \notin Reserved
  <2>1. ASSUME NEW i \in 1 .. Len(s), IsOverride(s[i]) PROVE Head(s[i].tags) \notin Reserved
    <3>0. PICK c : c = s[i]
      OBVIOUS
    <3>1. OnElement(c, W) /\ IsOverride(c)
      BY <2>1, <3>0
    <3>2. \E w \in W : OverrideOf(w, c) /\ c.tags = <<w.cepId>> /\ Head(c.tags) = w.cepId /\ c.names = w.measurement
      BY <3>1, OnOverride
    <3> QED BY <3>0, <3>2
  <2> QED BY <2>1 DEF Overridden
<1>5. ASSUME NEW raw \in Made(s, names)
      PROVE  LET m == Processed(s, raw)
                 to == Delivered(s, m)
             IN  /\ to = DefaultOutputs(s) \/ (to # {} /\ to \subseteq CepOutputs(s))
                 /\ \A a \in Aggregates(s, m) : Delivered(s, a) = DefaultOutputs(s)
  <2>1. PICK n : \E t \in {"maybe", "false"} : raw = MetricOf(n, t, FALSE)
    BY <1>3
  <2>2. PICK t \in {"maybe", "false"} : raw = MetricOf(n, t, FALSE)
    BY <2>1
  <2>3. PICK u \in {t} \union Overridden(s) : Processed(s, raw) = MetricOf(n, u, FALSE)
    BY <1>p, <2>2
  <2> DEFINE m == Processed(s, raw)
  <2>4. \A a \in Aggregates(s, m) : Delivered(s, a) = DefaultOutputs(s)
    <3>1. ASSUME NEW a \in Aggregates(s, m) PROVE Delivered(s, a) = DefaultOutputs(s)
      <4>1. a = Processed(s, [m EXCEPT !.aggregated = TRUE])
        BY DEF Aggregates
      <4>2. [m EXCEPT !.aggregated = TRUE] = MetricOf(n, u, TRUE)
        BY <1>m, <2>3
      <4>3. PICK v \in {u} \union Overridden(s) : a = MetricOf(n, v, TRUE)
        <5>1. a = Processed(s, MetricOf(n, u, TRUE))
          BY <4>1, <4>2, Zenon
        <5>2. \E v \in {u} \union Overridden(s) : Processed(s, MetricOf(n, u, TRUE)) = MetricOf(n, v, TRUE)
          BY <1>p
        <5> QED BY <5>1, <5>2
      <4>4. TRUE \in BOOLEAN
        OBVIOUS
      <4> QED BY <1>2, <4>3, <4>4, OnDelivered
    <3> QED BY <3>1
  <2>5. CASE u \in {"maybe", "false"}
    <3>1. Delivered(s, m) = DefaultOutputs(s)
      BY <1>2, <2>3, <2>5, OnDelivered
    <3> QED BY <2>4, <3>1
  <2>6. CASE u \in Overridden(s)
    <3>1. u \notin Reserved
      BY <1>4, <2>6
    <3>2. Delivered(s, m) = {p \in CepOutputs(s) : p.pass[1] = u}
      <4>1. PICK b \in BOOLEAN : b = FALSE
        OBVIOUS
      <4>2. Delivered(s, MetricOf(n, u, b)) = {p \in CepOutputs(s) : p.pass[1] = u}
        BY <1>2, <3>1, <4>1, OnDelivered
      <4> QED BY <2>3, <4>1, <4>2
    <3>3. PICK i \in 1 .. Len(s) : IsOverride(s[i]) /\ u = Head(s[i].tags)
      BY <2>6 DEF Overridden
    <3>4. s[i].tags = <<u>>
      <4>1. PICK w \in W : s[i].tags = <<w.cepId>> /\ Head(s[i].tags) = w.cepId
        <5>0. PICK c : c = s[i]
          OBVIOUS
        <5>1. OnElement(c, W) /\ IsOverride(c)
          BY <3>3, <5>0
        <5>2. \E w \in W : OverrideOf(w, c) /\ c.tags = <<w.cepId>> /\ Head(c.tags) = w.cepId /\ c.names = w.measurement
          BY <5>1, OnOverride
        <5> QED BY <5>0, <5>2
      <4> QED BY <3>3, <4>1
    <3>5. CASE \A j \in 1 .. Len(s) : ~ OwnOutput(s[j])
      <4>1. DefaultOutputs(s) = {}
        <5>1. ASSUME NEW c \in PluginsOf(s, "output") PROVE c.name = "http"
          <6>1. PICK j \in 1 .. Len(s) : c = s[j] /\ IsPluginOf(s[j], "output")
            BY <1>1
          <6>2. s[j].kind = "plugin" /\ s[j].type = "output" /\ Named(s[j]) # "own"
            BY <3>5, <6>1 DEF OwnOutput, IsOfType, IsPluginOf, IsPlugin
          <6>3. c.name \in Added
            BY <6>1, <6>2 DEF Named
          <6>4. ~ OnOwn(c)
            BY <6>3 DEF OnOwn
          <6>5. OutputKept(c) /\ OnElement(c, W) /\ IsPlugin(c) /\ c.type = "output"
            BY <1>2, <6>1 DEF IsPluginOf
          <6>6. c # createBackloopHttpListenerInputPlugin
            BY <6>5 DEF createBackloopHttpListenerInputPlugin, Plugin
          <6>7. PICK w \in W : AddedFor(w, c)
            BY <6>4, <6>5, <6>6 DEF OnElement
          <6>t. c.type = "output"
            BY <6>5
          <6>8. ~ OverrideOf(w, c) /\ ~ StatsOf(w, c)
            BY <6>t, NotAnOutput
          <6> QED BY <6>7, <6>8 DEF AddedFor, HttpOf, createCepHttpOutputPlugin, Plugin
        <5> QED BY <5>1 DEF DefaultOutputs, CepOutputs
      <4>2. Delivered(s, m) \subseteq CepOutputs(s)
        BY <3>2
      <4> QED BY <2>4, <4>1, <4>2
    <3>6. CASE \E j \in 1 .. Len(s) : IsHttp(s[j]) /\ s[j].pass = s[i].tags
      <4>1. PICK j \in 1 .. Len(s) : IsHttp(s[j]) /\ s[j].pass = <<u>>
        BY <3>4, <3>6
      <4>2. s[j] \in CepOutputs(s)
        BY <1>0, <4>1 DEF CepOutputs, PluginsOf, Range, IsHttp
      <4>3. s[j].pass[1] = u
        BY <4>1
      <4>4. s[j] \in Delivered(s, m)
        BY <3>2, <4>2, <4>3
      <4>5. Delivered(s, m) \subseteq CepOutputs(s) /\ Delivered(s, m) # {}
        BY <3>2, <4>4
      <4> QED BY <2>4, <4>5
    <3> QED BY <3>3, <3>5, <3>6 DEF Answered
  <2> QED BY <2>5, <2>6
<1> QED BY <1>5 DEF RoutesWell

LEMMA RoutesWhileOff ==
  ASSUME NEW C, NEW s \in Seq(C), \A i \in 1 .. Len(s) : IsPlugin(s[i]) => OffOwn(s[i]), NEW names
  PROVE  RoutesWell(s, names)
<1>0. DOMAIN s = 1 .. Len(s)
  OBVIOUS
<1>m. \A n, t, b : [MetricOf(n, t, b) EXCEPT !.aggregated = TRUE] = MetricOf(n, t, TRUE)
  BY AggregatedIs
<1>p. \A n, t, b : \E u \in {t} \union Overridden(s) : Processed(s, MetricOf(n, t, b)) = MetricOf(n, u, b)
  BY ProcessedIs
<1>1. \A x : \A c \in PluginsOf(s, x) : OffOwn(c)
  BY <1>0 DEF PluginsOf, Range, IsPluginOf
<1>2. Overridden(s) = {}
  BY DEF Overridden, IsOverride, IsPluginOf, OffOwn, Added
<1>3. CepOutputs(s) = {} /\ DefaultOutputs(s) = PluginsOf(s, "output")
  BY <1>1 DEF CepOutputs, DefaultOutputs, OffOwn, Added
<1>4. \A n, t, b : Delivered(s, MetricOf(n, t, b)) = DefaultOutputs(s)
  <2>1. \A c \in PluginsOf(s, "output") : \A m : Passes(c, m)
    BY <1>1 DEF Passes, shouldNamePass, shouldTagsPass, OffOwn
  <2> QED BY <1>3, <2>1 DEF Delivered
<1>5. \A n, t, b : Processed(s, MetricOf(n, t, b)) = MetricOf(n, t, b)
  BY <1>2, <1>p
<1>6. ASSUME NEW raw \in Made(s, names) PROVE \E n, t : raw = MetricOf(n, t, FALSE)
  <2>1. \E c, n : raw = makemetric(c, n)
    BY DEF Made
  <2> QED BY <2>1 DEF makemetric, MetricOf
<1>7. ASSUME NEW raw \in Made(s, names)
      PROVE  LET m == Processed(s, raw)
                 to == Delivered(s, m)
             IN  /\ to = DefaultOutputs(s)
                 /\ \A a \in Aggregates(s, m) : Delivered(s, a) = DefaultOutputs(s)
  <2>1. PICK n, t : raw = MetricOf(n, t, FALSE)
    BY <1>6
  <2>2. Processed(s, raw) = MetricOf(n, t, FALSE)
    BY <1>5, <2>1
  <2>3. [MetricOf(n, t, FALSE) EXCEPT !.aggregated = TRUE] = MetricOf(n, t, TRUE)
    BY <1>m
  <2>4. Delivered(s, Processed(s, raw)) = DefaultOutputs(s)
    BY <1>4, <2>2
  <2>5. ASSUME NEW a \in Aggregates(s, Processed(s, raw)) PROVE Delivered(s, a) = DefaultOutputs(s)
    <3>1. a = Processed(s, [Processed(s, raw) EXCEPT !.aggregated = TRUE])
      BY DEF Aggregates
    <3>2. a = Processed(s, MetricOf(n, t, TRUE))
      BY <2>2, <2>3, <3>1
    <3>3. a = MetricOf(n, t, TRUE)
      BY <1>5, <3>2
    <3> QED BY <1>4, <3>3
  <2> QED BY <2>4, <2>5
<1> QED BY <1>7 DEF RoutesWell

-----------------------------------------------------------------------------
(* The plugins of a file, from none of the mapper's to some and back.      *)
LEMMA OneContains ==
  ASSUME NEW x
  PROVE  Contains(<<x>>, x)
BY DEF Contains

Appended(C, s, e, t) ==
  /\ t \in Seq(C) /\ Len(t) = Len(s) + 1
  /\ \A j \in 1 .. Len(s) : t[j] = s[j]
  /\ t[Len(s) + 1] = e

LEMMA AppendIs ==
  ASSUME NEW C, NEW s \in Seq(C), NEW e \in C
  PROVE  Appended(C, s, e, Append(s, e))
<1>1. Append(s, e)[Len(s) + 1] = e
  OBVIOUS
<1>2. Append(s, e) \in Seq(C) /\ Len(Append(s, e)) = Len(s) + 1
  OBVIOUS
<1>3. \A j \in 1 .. Len(s) : Append(s, e)[j] = s[j]
  OBVIOUS
<1> QED BY <1>1, <1>2, <1>3 DEF Appended

LEMMA AppendOne ==
  ASSUME NEW x, NEW y
  PROVE  /\ Append(<<>>, y) = <<y>> /\ Append(<<x>>, y) = <<x, y>>
         /\ Tail(<<x>>) = <<>> /\ Head(<<x, y>>) = x /\ <<x, y>> # <<>>
<1>1. Append(<<>>, y) = <<y>>
  OBVIOUS
<1>2. Append(<<x>>, y) = <<x, y>>
  <2> DEFINE S == {x, y}
             s == <<x>>
             t == Append(s, y)
             u == <<x, y>>
  <2>1. s \in Seq(S) /\ Len(s) = 1 /\ s[1] = x /\ y \in S
    OBVIOUS
  <2>2. u \in Seq(S) /\ Len(u) = 2 /\ u[1] = x /\ u[2] = y
    OBVIOUS
  <2> HIDE DEF s, u, S
  <2>3. t \in Seq(S) /\ Len(t) = 2 /\ t[1] = x /\ t[2] = y
    <3>1. Appended(S, s, y, Append(s, y))
      BY <2>1, AppendIs
    <3>2. Appended(S, s, y, t)
      BY <3>1
    <3> HIDE DEF t
    <3> QED BY <2>1, <3>2 DEF Appended
  <2> HIDE DEF t
  <2>4. t = u
    BY <2>2, <2>3
  <2> QED BY <2>4 DEF s, t, u
<1>3. Tail(<<x>>) = <<>>
  OBVIOUS
<1>4. Head(<<x, y>>) = x /\ <<x, y>> # <<>>
  OBVIOUS
<1> QED BY <1>1, <1>2, <1>3, <1>4

LEMMA OnDefaulted ==
  ASSUME NEW D, NEW c \in Component(D), IsPlugin(c), OffOwn(c)
  PROVE  OnOwn(Defaulted(c))
<1>1. c \in Plugins(D)
  BY PluginIs
<1>2. /\ c.name \notin Added /\ c.names = "" /\ c.pass = <<>> /\ c.drop = "none" /\ c.exclude = "none"
      /\ c.tags \in {<<>>, <<"absent">>}
  BY DEF OffOwn
<1>3. CASE IsPluginOf(c, "input")
  <2> DEFINE r == Append(c.tags, "maybe")
  <2>1. c.type = "input" /\ ~ IsPluginOf(c, "output")
    BY <1>3 DEF IsPluginOf
  <2>2. Defaulted(c) = [c EXCEPT !.tags = r]
    BY <1>3, <2>1 DEF Defaulted
  <2>3. r \in {<<"maybe">>, <<"absent", "maybe">>}
    BY <1>2, AppendOne
  <2> HIDE DEF r
  <2>4. /\ Defaulted(c).name = c.name /\ Defaulted(c).names = c.names /\ Defaulted(c).drop = c.drop
        /\ Defaulted(c).type = c.type /\ Defaulted(c).pass = c.pass /\ Defaulted(c).exclude = c.exclude
        /\ Defaulted(c).tags = r
    BY <1>1, <2>2 DEF Plugins
  <2> QED BY <1>2, <2>1, <2>3, <2>4 DEF OnOwn
<1>4. CASE IsPluginOf(c, "output")
  <2> DEFINE r == addTagpass(c)
  <2>1. c.type = "output" /\ ~ IsPluginOf(c, "input")
    BY <1>4 DEF IsPluginOf
  <2>2. Defaulted(c) = [c EXCEPT !.exclude = "default", !.pass = r]
    BY <1>4, <2>1 DEF Defaulted
  <2>3. r = <<"default">>
    BY <1>2, AppendOne DEF addTagpass
  <2> HIDE DEF r
  <2>4. /\ Defaulted(c).name = c.name /\ Defaulted(c).names = c.names /\ Defaulted(c).drop = c.drop
        /\ Defaulted(c).type = c.type /\ Defaulted(c).pass = r /\ Defaulted(c).exclude = "default"
        /\ Defaulted(c).tags = c.tags
    BY <1>1, <2>2 DEF Plugins
  <2> QED BY <1>2, <2>1, <2>3, <2>4 DEF OnOwn
<1>5. CASE ~ IsPluginOf(c, "input") /\ ~ IsPluginOf(c, "output")
  <2>1. Defaulted(c) = c
    BY <1>5 DEF Defaulted
  <2>2. c.type # "input" /\ c.type # "output"
    BY <1>5 DEF IsPluginOf
  <2> QED BY <1>2, <2>1, <2>2 DEF OnOwn
<1> QED BY <1>3, <1>4, <1>5

LEMMA OffReset ==
  ASSUME NEW D, NEW c \in Component(D), IsPlugin(c), OnOwn(c), ~ HasNoTagToAskFor(c)
  PROVE  OffOwn(reset(c))
<1>1. c \in Plugins(D)
  BY PluginIs
<1>2. c.name \notin Added /\ c.names = "" /\ c.drop = "none"
  BY DEF OnOwn
<1>3. CASE IsPluginOf(c, "input")
  <2>1. c.type = "input" /\ ~ IsPluginOf(c, "output")
    BY <1>3 DEF IsPluginOf
  <2>2. c.tags = <<"maybe">> /\ c.pass = <<>> /\ c.exclude = "none"
    <3>1. c.tags \in {<<"maybe">>, <<"absent", "maybe">>} /\ c.pass = <<>> /\ c.exclude = "none"
      BY <2>1 DEF OnOwn
    <3>2. FirstTable(c.tags) # "absent"
      BY <1>3 DEF HasNoTagToAskFor
    <3>3. FirstTable(<<"absent", "maybe">>) = "absent"
      BY AppendOne DEF FirstTable
    <3> QED BY <3>1, <3>2, <3>3
  <2>3. FirstTable(c.tags) = "maybe" /\ Tail(c.tags) = <<>>
    BY <2>2, OneIs, AppendOne DEF FirstTable
  <2>4. reset(c) = [c EXCEPT !.tags = Tail(c.tags)]
    BY <1>3, <2>1, <2>3 DEF reset
  <2>5. /\ reset(c).name = c.name /\ reset(c).names = c.names /\ reset(c).drop = c.drop
        /\ reset(c).pass = c.pass /\ reset(c).exclude = c.exclude /\ reset(c).tags = <<>>
    BY <1>1, <2>3, <2>4 DEF Plugins
  <2> QED BY <1>2, <2>2, <2>5 DEF OffOwn
<1>4. CASE IsPluginOf(c, "output")
  <2>1. c.type = "output" /\ ~ IsPluginOf(c, "input")
    BY <1>4 DEF IsPluginOf
  <2>2. c.pass = <<"default">> /\ c.exclude = "default" /\ c.tags \in {<<>>, <<"absent">>}
    BY <2>1 DEF OnOwn
  <2>3. FirstTable(c.pass) = "default" /\ Tail(c.pass) = <<>>
    BY <2>2, OneIs, AppendOne DEF FirstTable
  <2>4. reset(c) = [c EXCEPT !.exclude = "none", !.pass = Tail(c.pass)]
    BY <1>4, <2>1, <2>2, <2>3 DEF reset
  <2>5. /\ reset(c).name = c.name /\ reset(c).names = c.names /\ reset(c).drop = c.drop
        /\ reset(c).pass = <<>> /\ reset(c).exclude = "none" /\ reset(c).tags = c.tags
    BY <1>1, <2>3, <2>4 DEF Plugins
  <2> QED BY <1>2, <2>2, <2>5 DEF OffOwn
<1>5. CASE ~ IsPluginOf(c, "input") /\ ~ IsPluginOf(c, "output")
  <2>1. reset(c) = c
    BY <1>5 DEF reset
  <2>2. c.type # "input" /\ c.type # "output"
    BY <1>5 DEF IsPluginOf
  <2>3. c.pass = <<>> /\ c.exclude = "none" /\ c.tags \in {<<>>, <<"absent">>}
    BY <2>2 DEF OnOwn
  <2> QED BY <1>2, <2>1, <2>3 DEF OffOwn
<1> QED BY <1>3, <1>4, <1>5

(* What rerouteMesurementToCep and removeReroute leave of these plugins.   *)
AllOff(s)   == \A i \in 1 .. Len(s) : IsPlugin(s[i]) => OffOwn(s[i])
AllOn(s, W) == \A i \in 1 .. Len(s) : OnElement(s[i], W)

LEMMA SpacerIs == ~ IsPlugin(Spacer) /\ Named(Spacer) = "default" /\ Spacer.kind = "default"
BY DEF Spacer, IsPlugin, Named

LEMMA DefaultedPlugin ==
  ASSUME NEW D, NEW c \in Component(D)
  PROVE  /\ IsPlugin(Defaulted(c)) <=> IsPlugin(c)
         /\ Defaulted(c).kind = c.kind
         /\ IsPlugin(c) => Defaulted(c).name = c.name /\ Defaulted(c).type = c.type
         /\ ~ IsPlugin(c) => Defaulted(c) = c
<1>0. IsPlugin(c) => c \in Plugins(D)
  BY PluginIs
<1>1. CASE IsPluginOf(c, "input")
  <2> DEFINE r == Append(c.tags, "maybe")
  <2>1. c \in Plugins(D) /\ IsPlugin(c) /\ ~ IsPluginOf(c, "output")
    BY <1>0, <1>1 DEF IsPluginOf
  <2>2. Defaulted(c) = [c EXCEPT !.tags = r]
    BY <1>1, <2>1 DEF Defaulted
  <2> HIDE DEF r
  <2>3. Defaulted(c).name = c.name /\ Defaulted(c).type = c.type /\ Defaulted(c).kind = c.kind
    BY <2>1, <2>2 DEF Plugins
  <2> QED BY <2>1, <2>3 DEF IsPlugin
<1>2. CASE IsPluginOf(c, "output")
  <2> DEFINE r == addTagpass(c)
  <2>1. c \in Plugins(D) /\ IsPlugin(c) /\ ~ IsPluginOf(c, "input")
    BY <1>0, <1>2 DEF IsPluginOf
  <2>2. Defaulted(c) = [c EXCEPT !.exclude = "default", !.pass = r]
    BY <1>2, <2>1 DEF Defaulted
  <2> HIDE DEF r
  <2>3. Defaulted(c).name = c.name /\ Defaulted(c).type = c.type /\ Defaulted(c).kind = c.kind
    BY <2>1, <2>2 DEF Plugins
  <2> QED BY <2>1, <2>3 DEF IsPlugin
<1>3. CASE ~ IsPluginOf(c, "input") /\ ~ IsPluginOf(c, "output")
  <2>1. Defaulted(c) = c
    BY <1>3 DEF Defaulted
  <2> QED BY <2>1
<1> QED BY <1>1, <1>2, <1>3

LEMMA OnRerouted ==
  ASSUME NEW D, NEW conf, Good(D, conf.comps), NEW W, NEW w \in W, NEW url \in Hosts,
         conf.reroutes < 1 => AllOff(conf.comps), ~ (conf.reroutes < 1) => AllOn(conf.comps, W)
  PROVE  AllOn(rerouteMesurementToCep(conf, w, url).comps, W)
<1> DEFINE s == conf.comps
           P1 == createBackloopHttpListenerInputPlugin
           P2 == createOverrideProcessorPlugin(w.measurement, w.cepId, w.proxy)
           P3 == createBasicStatsAggregatorPlugin(w.measurement, w.cepId)
           P4 == createCepHttpOutputPlugin(w.cepId, url)
           R == {c \in {s[i] : i \in 1 .. Len(s)} \cup {Defaulted(s[i]) : i \in 1 .. Len(s)}
                         \cup {Spacer, P1, P2, P3, P4} : OnElement(c, W)}
           new == rerouteMesurementToCep(conf, w, url).comps
<1>1. s \in Seq(Component(D)) /\ s # <<>> /\ DOMAIN s = 1 .. Len(s) /\ Len(s) >= 1
  <2>1. s \in Seq(Component(D)) /\ s # <<>>
    BY GoodEnds DEF Good
  <2> QED BY <2>1
<1>2. OnElement(Spacer, W) /\ OnElement(P1, W)
  BY SpacerIs DEF OnElement
<1>3. OnElement(P2, W) /\ OnElement(P3, W) /\ OnElement(P4, W)
  <2>1. AddedFor(w, P2) /\ AddedFor(w, P3) /\ AddedFor(w, P4)
    BY DEF AddedFor, OverrideOf, StatsOf, HttpOf
  <2> HIDE DEF P2, P3, P4
  <2> QED BY <2>1 DEF OnElement
<1>4. ASSUME conf.reroutes < 1, NEW i \in 1 .. Len(s) PROVE OnElement(Defaulted(s[i]), W)
  <2>1. PICK c : c = s[i]
    OBVIOUS
  <2>2. c \in Component(D)
    BY <1>1, <2>1, ElementOf
  <2>3. IsPlugin(c) => OffOwn(c)
    BY <1>4, <2>1 DEF AllOff
  <2>4. CASE IsPlugin(c)
    <3>1. OnOwn(Defaulted(c))
      BY <2>2, <2>3, <2>4, OnDefaulted
    <3> QED BY <2>1, <3>1 DEF OnElement
  <2>5. CASE ~ IsPlugin(c)
    <3>1. Defaulted(c) = c
      BY <2>2, <2>5, DefaultedPlugin
    <3> QED BY <2>1, <2>5, <3>1 DEF OnElement
  <2> QED BY <2>4, <2>5
<1>5. ~ (conf.reroutes < 1) => \A i \in 1 .. Len(s) : OnElement(s[i], W)
  BY DEF AllOn
<1> HIDE DEF P1, P2, P3, P4, s
<1>6. \A c \in R : OnElement(c, W)
  OBVIOUS
<1>7. /\ conf.reroutes < 1 => \A i \in 1 .. Len(s) : Defaulted(s[i]) \in R
      /\ ~ (conf.reroutes < 1) => \A i \in 1 .. Len(s) : s[i] \in R
      /\ Spacer \in R /\ P1 \in R /\ P2 \in R /\ P3 \in R /\ P4 \in R
  BY <1>2, <1>3, <1>4, <1>5
<1> HIDE DEF R
<1>8. new \in Seq(R)
  BY <1>1, <1>7, RerouteIn DEF s, P1, P2, P3, P4
<1> HIDE DEF new
<1>9. \A i \in 1 .. Len(new) : new[i] \in R
  BY <1>8
<1>10. AllOn(new, W)
  BY <1>6, <1>9 DEF AllOn
<1> QED BY <1>10 DEF new

LEMMA GoesWithIt ==
  ASSUME NEW w, NEW c, AddedFor(w, c), NEW last
  PROVE  MustGo(c, w.measurement, w.cepId, last)
<1>1. CASE OverrideOf(w, c)
  <2>1. c.kind = "plugin" /\ c.type = "processor" /\ c.name = "override" /\ c.names = w.measurement
    BY <1>1 DEF OverrideOf, createOverrideProcessorPlugin, Plugin
  <2> QED BY <2>1 DEF MustGo, IsPluginOf, IsPlugin
<1>2. CASE StatsOf(w, c)
  <2>1. c.kind = "plugin" /\ c.type = "aggregator" /\ c.name = "basicstats" /\ c.pass = <<w.cepId>>
    BY <1>2 DEF StatsOf, createBasicStatsAggregatorPlugin, Plugin
  <2>2. Contains(c.pass, w.cepId)
    BY <2>1, OneContains
  <2> QED BY <2>1, <2>2 DEF MustGo, IsPluginOf, IsPlugin, hasTagpassForToCepId
<1>3. CASE HttpOf(w, c)
  <2>1. c.kind = "plugin" /\ c.type = "output" /\ c.name = "http" /\ c.pass = <<w.cepId>>
    BY <1>3 DEF HttpOf, createCepHttpOutputPlugin, Plugin
  <2>2. Contains(c.pass, w.cepId)
    BY <2>1, OneContains
  <2> QED BY <2>1, <2>2 DEF MustGo, IsPluginOf, IsPlugin, hasTagpassForToCepId
<1> QED BY <1>1, <1>2, <1>3 DEF AddedFor

LEMMA OnRemoved ==
  ASSUME NEW D, NEW conf, Good(D, conf.comps), conf.reroutes \in Int, ~ (conf.reroutes - 1 < 1),
         NEW W, AllOn(conf.comps, W), NEW w, w.measurement \in Names, w.cepId \in CepIds,
         NEW X, W \subseteq X \union {w}
  PROVE  AllOn(removeReroute(conf, w.measurement, w.cepId).comps, X)
<1> DEFINE s == conf.comps
           R == {c \in {s[i] : i \in 1 .. Len(s)} : OnElement(c, X)}
           new == removeReroute(conf, w.measurement, w.cepId).comps
<1>0. PICK last \in BOOLEAN : ~ last
  OBVIOUS
<1>1. last = (conf.reroutes - 1 < 1)
  BY <1>0
<1>2. ASSUME NEW i \in 1 .. Len(s)
      PROVE  ~ IsPlugin(s[i]) \/ ~ MustGo(s[i], w.measurement, w.cepId, last) => s[i] \in R
  <2>1. PICK c : c = s[i] /\ OnElement(c, W)
    BY DEF AllOn
  <2>2. CASE ~ IsPlugin(c) \/ OnOwn(c) \/ c = createBackloopHttpListenerInputPlugin
    BY <2>1, <2>2 DEF OnElement
  <2>3. CASE \E x \in W : AddedFor(x, c)
    <3>1. PICK x \in W : AddedFor(x, c)
      BY <2>3
    <3>2. CASE x = w
      BY <2>1, <3>1, <3>2, GoesWithIt DEF OnElement
    <3>3. CASE x # w
      BY <2>1, <3>1, <3>3 DEF OnElement
    <3> QED BY <3>2, <3>3
  <2> QED BY <2>1, <2>2, <2>3 DEF OnElement
<1>3. \A c \in R : OnElement(c, X)
  OBVIOUS
<1>4. new \in Seq(R)
  <2>1. \A i \in 1 .. Len(conf.comps) :
           /\ ~ IsPlugin(conf.comps[i]) => conf.comps[i] \in R
           /\ IsPlugin(conf.comps[i]) /\ ~ MustGo(conf.comps[i], w.measurement, w.cepId, last)
              => (IF last THEN reset(conf.comps[i]) ELSE conf.comps[i]) \in R
    BY <1>0, <1>1, <1>2
  <2> HIDE DEF R, s
  <2> QED BY <1>1, <2>1, LeftIn
<1> HIDE DEF new, R
<1>5. \A i \in 1 .. Len(new) : new[i] \in R
  BY <1>4
<1>6. AllOn(new, X)
  BY <1>3, <1>5 DEF AllOn
<1> QED BY <1>6 DEF new

LEMMA BackloopGoes ==
  ASSUME NEW measurement, NEW cepId, NEW last, last
  PROVE  MustGo(createBackloopHttpListenerInputPlugin, measurement, cepId, last)
BY DEF MustGo, IsPluginOf, IsPlugin, createBackloopHttpListenerInputPlugin, Plugin

LEMMA OffRemoved ==
  ASSUME NEW D, NEW conf, Good(D, conf.comps), conf.reroutes - 1 < 1,
         NEW w, w.measurement \in Names, w.cepId \in CepIds, AllOn(conf.comps, {w}),
         ~ removeRerouteFails(conf, w.measurement, w.cepId)
  PROVE  AllOff(removeReroute(conf, w.measurement, w.cepId).comps)
<1> DEFINE s == conf.comps
           Off(c) == IsPlugin(c) => OffOwn(c)
           R == {c \in {s[i] : i \in 1 .. Len(s)} \cup {reset(s[i]) : i \in 1 .. Len(s)} : Off(c)}
           new == removeReroute(conf, w.measurement, w.cepId).comps
<1>0. s \in Seq(Component(D)) /\ DOMAIN s = 1 .. Len(s)
  BY DEF Good
<1>1. PICK last \in BOOLEAN : last = (conf.reroutes - 1 < 1) /\ last = TRUE
  OBVIOUS
<1>2. ASSUME NEW i \in 1 .. Len(s), IsPlugin(s[i]), ~ MustGo(s[i], w.measurement, w.cepId, last)
      PROVE  reset(s[i]) \in R
  <2>1. PICK c : c = s[i] /\ OnElement(c, {w})
    BY DEF AllOn
  <2>2. c \in Component(D)
    BY <1>0, <2>1, ElementOf
  <2>3. ~ AddedFor(w, c)
    BY <1>2, <2>1, GoesWithIt
  <2>4. c # createBackloopHttpListenerInputPlugin
    BY <1>1, <1>2, <2>1, BackloopGoes
  <2>5. OnOwn(c) /\ IsPlugin(c)
    BY <1>2, <2>1, <2>3, <2>4 DEF OnElement
  <2>6. ~ HasNoTagToAskFor(c)
    <3>1. ~ MustGo(s[i], w.measurement, w.cepId, TRUE)
      BY <1>1, <1>2
    <3>2. ~ HasNoTagToAskFor(s[i])
      BY <1>0, <1>2, <3>1 DEF removeRerouteFails
    <3> QED BY <2>1, <3>2
  <2>7. OffOwn(reset(c))
    BY <2>2, <2>5, <2>6, OffReset
  <2> QED BY <2>1, <2>7
<1>3. \A i \in 1 .. Len(s) : ~ IsPlugin(s[i]) => s[i] \in R
  OBVIOUS
<1>4. \A c \in R : Off(c)
  OBVIOUS
<1>5. new \in Seq(R)
  <2>1. \A i \in 1 .. Len(conf.comps) :
           /\ ~ IsPlugin(conf.comps[i]) => conf.comps[i] \in R
           /\ IsPlugin(conf.comps[i]) /\ ~ MustGo(conf.comps[i], w.measurement, w.cepId, last)
              => (IF last THEN reset(conf.comps[i]) ELSE conf.comps[i]) \in R
    BY <1>1, <1>2, <1>3
  <2> HIDE DEF R, s
  <2> QED BY <1>1, <2>1, LeftIn
<1> HIDE DEF new, R
<1>6. \A i \in 1 .. Len(new) : new[i] \in R
  BY <1>5
<1>7. AllOff(new)
  BY <1>4, <1>6 DEF AllOff
<1> QED BY <1>7 DEF new


-----------------------------------------------------------------------------
(* An output of the mapper's stands behind an output of the user's, or     *)
(* behind another one and its spacer; so it is never taken for a spacer by *)
(* the removal of what is before it.                                       *)
Look(c) == IF c.kind = "default" THEN "blank" ELSE IF c.type # "output" THEN "other"
           ELSE IF Named(c) = "added" THEN "http" ELSE "own"

Behind(s, i) ==
  /\ i > 1
  /\ \/ Look(s[i - 1]) = "own"
     \/ Look(s[i - 1]) = "blank" /\ i > 2 /\ Look(s[i - 2]) = "http"

Guarded(s) == \A i \in 1 .. Len(s) : Look(s[i]) = "http" => Behind(s, i)

HttpFor(s, c) == \E j \in 1 .. Len(s) : IsHttp(s[j]) /\ s[j].pass = c.tags

(* No metric is taken from the user's outputs that nobody else accepts.    *)
Served(s) ==
  \/ \A i \in 1 .. Len(s) : ~ OwnOutput(s[i])
  \/ Guarded(s) /\ \A i \in 1 .. Len(s) : IsOverride(s[i]) => HttpFor(s, s[i])

LEMMA LookIs ==
  ASSUME NEW c
  PROVE  /\ IsHttp(c) => Look(c) = "http"
         /\ OwnOutput(c) <=> Look(c) = "own"
         /\ Named(c) = "added" => Look(c) \notin {"own", "blank"}
         /\ Look(c) = "blank" <=> c.kind = "default"
         /\ IsOfType(c, "output") <=> Look(c) \in {"own", "http"}
         /\ Look(c) = "http" <=> Named(c) = "added" /\ IsOfType(c, "output")
<1>1. IsHttp(c) => c.kind = "plugin" /\ c.kind # "default" /\ Named(c) = "added" /\ c.type = "output" /\ IsPlugin(c)
  BY DEF IsHttp, IsPluginOf, IsPlugin, Named, Added
<1>2. Named(c) \in {"default", "added", "own"} /\ (Named(c) = "default" <=> c.kind = "default")
  BY DEF Named
<1> QED BY <1>1, <1>2 DEF Look, OwnOutput, IsOfType

LEMMA GuardRemoved ==
  ASSUME NEW C, NEW s \in Seq(C), NEW u \in Seq(C), NEW i \in Nat, Guarded(s), Stretched(u, s, i), i + 1 \in 1 .. Len(s),
         Named(s[i]) = "added", Named(s[i + 1]) # "own"
  PROVE  /\ Guarded(u)
         /\ \A m \in 1 .. Len(s) : IsHttp(s[m]) /\ m # i => \E j \in 1 .. Len(u) : u[j] = s[m]
<1>0. Len(s) \in Nat /\ Len(u) \in Nat /\ Len(s) = Len(u) + 2 /\ i \in 1 .. Len(u) + 1
  BY DEF Stretched
<1>1. /\ \A j \in 1 .. i - 1 : s[j] = u[j]
      /\ \A j \in i + 2 .. Len(s) : s[j] = u[j - 2]
  BY DEF Stretched
<1>2. Look(s[i]) \notin {"own", "blank"} /\ Look(s[i + 1]) # "own"
  BY LookIs DEF OwnOutput
<1>3. Look(s[i + 1]) # "http"
  <2>1. PICK k : k = i + 1
    OBVIOUS
  <2>2. Look(s[k]) = "http" => Behind(s, k)
    BY <2>1 DEF Guarded
  <2>3. k - 1 = i
    BY <1>0, <2>1
  <2> QED BY <1>2, <2>1, <2>2, <2>3 DEF Behind
<1>4. ASSUME NEW m \in 1 .. Len(s), IsHttp(s[m]), m # i PROVE \E j \in 1 .. Len(u) : u[j] = s[m]
  <2>1. Look(s[m]) = "http"
    BY <1>4, LookIs
  <2>2. m # i + 1
    BY <1>3, <2>1
  <2>3. CASE m \in 1 .. i - 1
    <3>1. m \in 1 .. Len(u) /\ u[m] = s[m]
      BY <1>0, <1>1, <2>3
    <3> QED BY <3>1
  <2>4. CASE m \in i + 2 .. Len(s)
    <3>1. m - 2 \in 1 .. Len(u) /\ u[m - 2] = s[m]
      BY <1>0, <1>1, <2>4
    <3> QED BY <3>1
  <2>5. m \in 1 .. i - 1 \/ m \in i + 2 .. Len(s)
    BY <1>0, <1>4, <2>2
  <2> QED BY <2>3, <2>4, <2>5
<1>5. ASSUME NEW j \in 1 .. Len(u), Look(u[j]) = "http" PROVE Behind(u, j)
  <2>1. CASE j \in 1 .. i - 1
    <3>1. s[j] = u[j] /\ j \in 1 .. Len(s)
      BY <1>0, <1>1, <2>1
    <3>2. Behind(s, j)
      BY <1>5, <3>1 DEF Guarded
    <3>3. j > 1 => s[j - 1] = u[j - 1]
      BY <1>0, <1>1, <2>1
    <3>4. j > 2 => s[j - 2] = u[j - 2]
      BY <1>0, <1>1, <2>1
    <3> QED BY <3>2, <3>3, <3>4 DEF Behind
  <2>2. CASE j \in i .. Len(u)
    <3>1. PICK k \in i + 2 .. Len(s) : k = j + 2
      BY <1>0, <2>2
    <3>2. s[k] = u[j] /\ k \in 1 .. Len(s) /\ k - 2 = j
      BY <1>0, <1>1, <3>1
    <3>3. Behind(s, k)
      BY <1>5, <3>2 DEF Guarded
    <3>4. CASE j = i
      <4>1. k - 1 = i + 1 /\ k - 2 = i
        BY <1>0, <3>1, <3>4
      <4>2. Look(s[i]) = "http"
        BY <1>2, <3>3, <4>1 DEF Behind
      <4>3. Behind(s, i)
        BY <1>0, <4>2 DEF Guarded
      <4>4. i > 1 => s[i - 1] = u[i - 1]
        BY <1>0, <1>1
      <4>5. i > 2 => s[i - 2] = u[i - 2]
        BY <1>0, <1>1
      <4> QED BY <3>4, <4>3, <4>4, <4>5 DEF Behind
    <3>5. CASE j = i + 1
      <4>1. k - 1 = i + 2 /\ k - 2 = i + 1
        BY <1>0, <3>1, <3>5
      <4>2. Look(s[i + 2]) = "own"
        BY <1>3, <3>3, <4>1 DEF Behind
      <4>3. s[i + 2] = u[i]
        <5>1. i + 2 \in i + 2 .. Len(s) /\ (i + 2) - 2 = i
          BY <1>0, <2>2, <3>5
        <5> QED BY <1>1, <5>1
      <4>4. j > 1 /\ j - 1 = i
        BY <1>0, <3>5
      <4> QED BY <4>2, <4>3, <4>4 DEF Behind
    <3>6. CASE j > i + 1
      <4>1. k - 1 \in i + 2 .. Len(s) /\ k - 2 \in i + 2 .. Len(s)
            /\ (k - 1) - 2 = j - 1 /\ (k - 2) - 2 = j - 2 /\ j > 2
        BY <1>0, <3>1, <3>6
      <4>2. s[k - 1] = u[j - 1] /\ s[k - 2] = u[j - 2]
        BY <1>1, <4>1
      <4> QED BY <3>3, <4>1, <4>2 DEF Behind
    <3> QED BY <1>0, <2>2, <3>4, <3>5, <3>6
  <2> QED BY <1>0, <2>1, <2>2
<1> QED BY <1>4, <1>5 DEF Guarded

(* What is left by a removal that is not the last.                         *)
HttpsLeft(s, t, measurement, cepId) ==
  \A m \in 1 .. Len(s) : IsHttp(s[m]) /\ ~ MustGo(s[m], measurement, cepId, FALSE)
                           => \E j \in 1 .. Len(t) : t[j] = s[m]

LEMMA GuardLeft ==
  ASSUME NEW D, NEW conf, Good(D, conf.comps), conf.reroutes \in Int, ~ (conf.reroutes - 1 < 1),
         NEW measurement \in Names, NEW cepId \in CepIds, Guarded(conf.comps)
  PROVE  /\ Guarded(removeReroute(conf, measurement, cepId).comps)
         /\ HttpsLeft(conf.comps, removeReroute(conf, measurement, cepId).comps, measurement, cepId)
<1> DEFINE s == conf.comps
           n == Len(s)
           C == Component(D)
           Stays(c) == IsHttp(c) /\ ~ MustGo(c, measurement, cepId, FALSE)
           Has(t) == \A m \in 1 .. n : Stays(s[m]) => \E j \in 1 .. Len(t) : t[j] = s[m]
           V == {v \in Seq(C) \X Nat : Good(D, v[1]) /\ Len(v[1]) >= n - v[2] /\ Guarded(v[1]) /\ Has(v[1])}
           new == removeReroute(conf, measurement, cepId).comps
<1>0. PICK last \in BOOLEAN : ~ last
  OBVIOUS
<1>l. last = (conf.reroutes - 1 < 1)
  BY <1>0
<1>m. \A c : MustGo(c, measurement, cepId, last) <=> MustGo(c, measurement, cepId, FALSE)
  BY <1>0 DEF MustGo
<1>1. s \in Seq(C) /\ n \in Nat
  BY DEF Good
<1>2. <<s, 0>> \in V
  <2>1. Has(s)
    OBVIOUS
  <2> HIDE DEF Has, s, C
  <2> QED BY <1>1, <2>1 DEF s
<1>3. ASSUME NEW k \in 1 .. n, NEW t \in Seq(C), <<t, k - 1>> \in V
      PROVE  <<Turn(t, n + 1 - k, measurement, cepId, last), k>> \in V
  <2> HIDE DEF C, n, s, Stays
  <2>1. Good(D, t) /\ Len(t) >= n - (k - 1) /\ Len(t) \in Nat /\ Guarded(t) /\ Has(t)
    BY <1>3
  <2>2. PICK i \in 1 .. Len(t) : i = n + 1 - k
    BY <1>1, <2>1
  <2> DEFINE u == Turn(t, i, measurement, cepId, last)
  <2>3. /\ Good(D, u)
        /\ \/ u = t
           \/ /\ IsPlugin(t[i]) /\ MustGo(t[i], measurement, cepId, last)
              /\ Stretched(u, t, i) /\ i + 1 \in 1 .. Len(t)
              /\ Named(t[i]) = "added" /\ Named(t[i + 1]) # "own"
    <3>1. /\ Good(D, Turn(t, i, measurement, cepId, last))
          /\ \/ Turn(t, i, measurement, cepId, last) = t
             \/ /\ IsPlugin(t[i]) /\ MustGo(t[i], measurement, cepId, last)
                /\ Stretched(Turn(t, i, measurement, cepId, last), t, i) /\ i + 1 \in 1 .. Len(t)
                /\ Class(t[i]) = "added" /\ Class(t[i + 1]) # "own"
      BY <1>0, <2>1, TurnIs
    <3> QED BY <3>1, NamedIs
  <2> HIDE DEF u
  <2>4. u \in Seq(C) /\ Len(u) \in Nat
    BY <2>3 DEF Good, C
  <2>5. Guarded(u) /\ Has(u) /\ Len(u) >= i - 1
    <3>1. CASE u = t
      BY <2>1, <3>1
    <3>2. CASE /\ IsPlugin(t[i]) /\ MustGo(t[i], measurement, cepId, last)
               /\ Stretched(u, t, i) /\ i + 1 \in 1 .. Len(t)
               /\ Named(t[i]) = "added" /\ Named(t[i + 1]) # "own"
      <4>1. /\ Guarded(u)
            /\ \A m \in 1 .. Len(t) : IsHttp(t[m]) /\ m # i => \E j \in 1 .. Len(u) : u[j] = t[m]
        BY <2>1, <2>4, <3>2, GuardRemoved
      <4>2. Len(u) >= i - 1
        BY <2>1, <2>4, <3>2 DEF Stretched
      <4>3. ASSUME NEW m \in 1 .. n, Stays(s[m]) PROVE \E j \in 1 .. Len(u) : u[j] = s[m]
        <5>1. PICK j \in 1 .. Len(t) : t[j] = s[m]
          BY <2>1, <4>3
        <5>2. IsHttp(t[j]) /\ ~ MustGo(t[j], measurement, cepId, last)
          BY <1>m, <4>3, <5>1 DEF Stays
        <5>3. j # i
          BY <3>2, <5>2
        <5> QED BY <4>1, <5>1, <5>2, <5>3
      <4> QED BY <4>1, <4>2, <4>3
    <3> QED BY <2>3, <3>1, <3>2
  <2> HIDE DEF Has
  <2>6. i - 1 = n - k
    BY <1>1, <2>2
  <2>7. <<u, k>> \in V
    BY <2>3, <2>4, <2>5, <2>6
  <2> QED BY <2>2, <2>7 DEF u
<1>4. V \in SUBSET (Seq(C) \X Nat)
  OBVIOUS
<1> HIDE DEF V
<1>5. <<new, n>> \in V
  BY <1>1, <1>2, <1>3, <1>4, <1>l, RemoveLoop
<1> HIDE DEF new
<1>6. Guarded(new) /\ Has(new)
  BY <1>5 DEF V
<1>7. HttpsLeft(s, new, measurement, cepId)
  BY <1>6 DEF HttpsLeft
<1> QED BY <1>6, <1>7 DEF new


Owned(s) == \E j \in 1 .. Len(s) : OwnOutput(s[j])

(* Nothing of s is lost in t, and nothing comes but what is in X.          *)
Kept(s, t, X) ==
  /\ \A m \in 1 .. Len(s) : \E j \in 1 .. Len(t) : t[j] = s[m]
  /\ \A j \in 1 .. Len(t) : t[j] \in X \/ \E m \in 1 .. Len(s) : t[j] = s[m]

LEMMA GuardAdded ==
  ASSUME NEW C, NEW s \in Seq(C), Len(s) >= 1, Spacer \in C, NEW p \in C, Named(p) = "added", IsPlugin(p),
         s[Len(s)] = Spacer, Guarded(s), Owned(s)
  PROVE  LET t == addPlugin(s, p)
         IN  /\ t \in Seq(C) /\ Len(t) >= 1 /\ t[Len(t)] = Spacer /\ Guarded(t) /\ Owned(t)
             /\ Kept(s, t, {Spacer, p}) /\ \E j \in 1 .. Len(t) : t[j] = p
<1> DEFINE n == Len(s)
           t == addPlugin(s, p)
<1>1. t \in Seq(C)
  BY AddedIs
<1>2. PICK i \in 1 .. Len(s) : AddedAt(s, t, p, i)
  BY AddedIs
<1> HIDE DEF t
<1>3. /\ n \in Nat /\ Len(t) \in Nat /\ Len(t) = n + 2 /\ i \in 1 .. n
      /\ \A j \in 1 .. i - 1 : t[j] = s[j]
      /\ \A j \in i + 2 .. Len(t) : t[j] = s[j - 2]
  BY <1>1, <1>2 DEF AddedAt, Stretched
<1>4. \A m \in 1 .. n : \E j \in 1 .. Len(t) : t[j] = s[m]
  <2>1. ASSUME NEW m \in 1 .. n PROVE \E j \in 1 .. Len(t) : t[j] = s[m]
    <3>1. CASE m < i
      <4>1. m \in 1 .. i - 1 /\ m \in 1 .. Len(t)
        BY <1>3, <3>1
      <4> QED BY <1>3, <4>1
    <3>2. CASE ~ (m < i)
      <4>1. m + 2 \in i + 2 .. Len(t) /\ m + 2 \in 1 .. Len(t) /\ (m + 2) - 2 = m
        BY <1>3, <3>2
      <4>2. t[m + 2] = s[m]
        BY <1>3, <4>1
      <4> QED BY <4>1, <4>2
    <3> QED BY <3>1, <3>2
  <2> QED BY <2>1
<1>5. /\ t[i] \in {Spacer, p} /\ t[i + 1] \in {Spacer, p} /\ i \in 1 .. Len(t) /\ i + 1 \in 1 .. Len(t)
      /\ t[i] = p \/ t[i + 1] = p
  BY <1>2, <1>3 DEF AddedAt
<1>6. \A j \in 1 .. Len(t) : t[j] \in {Spacer, p} \/ \E m \in 1 .. n : t[j] = s[m]
  <2>1. ASSUME NEW j \in 1 .. Len(t) PROVE t[j] \in {Spacer, p} \/ \E m \in 1 .. n : t[j] = s[m]
    <3>1. CASE j \in 1 .. i - 1
      <4>1. j \in 1 .. n /\ t[j] = s[j]
        BY <1>3, <3>1
      <4> QED BY <4>1
    <3>2. CASE j \in i + 2 .. Len(t)
      <4>1. j - 2 \in 1 .. n /\ t[j] = s[j - 2]
        BY <1>3, <3>2
      <4> QED BY <4>1
    <3>3. CASE j = i \/ j = i + 1
      BY <1>5, <3>3
    <3> QED BY <1>3, <3>1, <3>2, <3>3
  <2> QED BY <2>1
<1>7. Kept(s, t, {Spacer, p}) /\ \E j \in 1 .. Len(t) : t[j] = p
  BY <1>4, <1>5, <1>6 DEF Kept
<1>8. Owned(t)
  BY <1>4 DEF Owned
<1>9. t[Len(t)] = Spacer
  <2>1. Len(t) \in i + 2 .. Len(t) /\ Len(t) - 2 = n
    BY <1>3
  <2>2. t[Len(t)] = s[n]
    BY <1>3, <2>1
  <2> QED BY <2>2
<1>b. Look(Spacer) = "blank" /\ Look(p) \notin {"own", "blank"} /\ (Look(p) = "http" <=> p.type = "output")
  <2>1. IsOfType(p, "output") <=> p.type = "output"
    BY DEF IsPlugin, IsOfType
  <2> QED BY <2>1, SpacerIs, LookIs
<1>c. PICK o \in 1 .. n - 1 : IsOfType(s[o], "output")
  <2>1. PICK o \in 1 .. n : OwnOutput(s[o])
    BY DEF Owned
  <2>2. s[o] # Spacer
    BY <2>1, SpacerIs DEF OwnOutput
  <2>3. o \in 1 .. n - 1
    BY <1>3, <2>2
  <2> QED BY <2>1, <2>3 DEF OwnOutput
<1>10. ASSUME NEW j \in 1 .. i - 1, Look(t[j]) = "http" PROVE Behind(t, j)
  <2>1. s[j] = t[j] /\ j \in 1 .. n
    BY <1>3
  <2>2. Behind(s, j)
    BY <1>10, <2>1 DEF Guarded
  <2>3. j > 1 => s[j - 1] = t[j - 1]
    BY <1>3
  <2>4. j > 2 => s[j - 2] = t[j - 2]
    BY <1>3
  <2> QED BY <2>2, <2>3, <2>4 DEF Behind
<1>11. CASE t[i] = Spacer /\ t[i + 1] = p /\ i = n /\ \A j \in 1 .. n - 1 : ~ IsOfType(s[j], p.type)
  <2>1. Look(t[i]) # "http" /\ Look(t[i + 1]) # "http"
    BY <1>b, <1>c, <1>11
  <2>2. Len(t) = i + 2 /\ Look(t[i + 2]) # "http"
    BY <1>3, <1>9, <1>b, <1>11
  <2>3. \A j \in 1 .. Len(t) : j \in 1 .. i - 1 \/ j = i \/ j = i + 1 \/ j = i + 2
    <3>1. ASSUME NEW j \in 1 .. Len(t) PROVE j \in 1 .. i - 1 \/ j = i \/ j = i + 1 \/ j = i + 2
      <4>1. j \in Nat /\ i \in Nat /\ j >= 1 /\ j <= i + 2
        BY <1>3, <2>2
      <4> QED BY <4>1
    <3> QED BY <3>1
  <2>4. Guarded(t)
    BY <1>10, <2>1, <2>2, <2>3 DEF Guarded
  <2> QED BY <1>1, <1>3, <1>7, <1>8, <1>9, <2>4 DEF t
<1>12. CASE t[i] = p /\ t[i + 1] = Spacer /\ i > 1 /\ IsOfType(s[i - 1], p.type)
            /\ \A j \in 1 .. i - 2 : ~ IsOfType(s[j], p.type)
  <2>1. s[i - 1] = t[i - 1] /\ i - 1 \in 1 .. n /\ Look(s[i - 1]) # "blank"
    BY <1>3, <1>12, LookIs DEF IsOfType
  <2>2. ASSUME p.type = "output" PROVE Look(s[i - 1]) = "own"
    <3>1. Look(s[i - 1]) \in {"own", "http"}
      BY <1>12, <2>2, LookIs
    <3>2. PICK k \in 1 .. n : k = i - 1
      BY <2>1
    <3>3. Look(s[k]) = "http" => Behind(s, k)
      BY DEF Guarded
    <3>4. \A j \in 1 .. k - 1 : Look(s[j]) \notin {"own", "http"}
      <4>1. \A j \in 1 .. k - 1 : j \in 1 .. i - 2
        BY <1>3, <3>2
      <4> QED BY <1>12, <2>2, <4>1, LookIs
    <3>5. ~ Behind(s, k)
      <4>1. k > 1 => k - 1 \in 1 .. k - 1
        OBVIOUS
      <4>2. k > 2 => k - 2 \in 1 .. k - 1
        OBVIOUS
      <4> QED BY <3>4, <4>1, <4>2 DEF Behind
    <3> QED BY <3>1, <3>2, <3>3, <3>5
  <2>3. Look(s[i - 1]) \in {"own", "http"} => p.type = "output"
    <3>1. Look(s[i - 1]) \in {"own", "http"} => s[i - 1].type = "output"
      BY LookIs DEF IsOfType
    <3> QED BY <1>12, <3>1 DEF IsOfType
  <2>4. ASSUME NEW j \in 1 .. Len(t), Look(t[j]) = "http" PROVE Behind(t, j)
    <3>1. CASE j \in 1 .. i - 1
      BY <1>10, <2>4, <3>1
    <3>2. CASE j = i
      <4>1. Look(t[j - 1]) = "own"
        BY <1>12, <1>b, <2>1, <2>2, <2>4, <3>2
      <4> QED BY <1>12, <3>2, <4>1 DEF Behind
    <3>3. CASE j = i + 1
      BY <1>12, <1>b, <2>4, <3>3
    <3>4. CASE j = i + 2
      <4>1. t[j] = s[i] /\ j - 1 = i + 1 /\ j - 2 = i
        <5>1. j \in i + 2 .. Len(t) /\ j - 2 = i
          BY <1>3, <3>4
        <5> QED BY <1>3, <3>4, <5>1
      <4>2. Behind(s, i)
        BY <1>3, <2>4, <4>1 DEF Guarded
      <4>3. Look(s[i - 1]) = "own"
        BY <2>1, <4>2 DEF Behind
      <4>4. Look(p) = "http"
        BY <1>b, <2>3, <4>3
      <4>5. Look(t[j - 1]) = "blank" /\ Look(t[j - 2]) = "http" /\ j > 2
        BY <1>3, <1>12, <1>b, <4>1, <4>4, <3>4
      <4> QED BY <4>5 DEF Behind
    <3>5. CASE j = i + 3
      <4>1. PICK k \in 1 .. n : k = i + 1
        BY <1>3, <3>5
      <4>2. t[j] = s[k] /\ t[j - 1] = s[i] /\ j > 1 /\ k - 1 = i /\ k - 2 = i - 1
        <5>1. j \in i + 2 .. Len(t) /\ j - 2 = k /\ j - 1 \in i + 2 .. Len(t) /\ (j - 1) - 2 = i
          BY <1>3, <3>5, <4>1
        <5> QED BY <1>3, <3>5, <4>1, <5>1
      <4>3. Behind(s, k)
        BY <2>4, <4>2 DEF Guarded
      <4>4. Look(s[i - 1]) # "http"
        BY <2>2, <2>3
      <4>5. Look(s[i]) = "own"
        BY <4>2, <4>3, <4>4 DEF Behind
      <4> QED BY <4>2, <4>5 DEF Behind
    <3>6. CASE j > i + 3
      <4>1. PICK k \in 1 .. n : k = j - 2
        BY <1>3, <3>6
      <4>2. /\ j \in i + 2 .. Len(t) /\ j - 1 \in i + 2 .. Len(t) /\ j - 2 \in i + 2 .. Len(t) /\ j > 2
            /\ (j - 1) - 2 = k - 1 /\ (j - 2) - 2 = k - 2
        BY <1>3, <3>6, <4>1
      <4>3. t[j] = s[k] /\ t[j - 1] = s[k - 1] /\ t[j - 2] = s[k - 2]
        BY <1>3, <4>1, <4>2
      <4>4. Behind(s, k)
        BY <2>4, <4>3 DEF Guarded
      <4> QED BY <4>2, <4>3, <4>4 DEF Behind
    <3> QED BY <1>3, <3>1, <3>2, <3>3, <3>4, <3>5, <3>6
  <2>5. Guarded(t)
    BY <2>4 DEF Guarded
  <2> QED BY <1>1, <1>3, <1>7, <1>8, <1>9, <2>5 DEF t
<1> QED BY <1>2, <1>11, <1>12 DEF AddedAt


(* Every override has its alerting system, but the ones of X.              *)
Answers(s, X) == \A i \in 1 .. Len(s) : IsOverride(s[i]) => HttpFor(s, s[i]) \/ s[i] \in X

Sound(C, s) ==
  s \in Seq(C) /\ Len(s) >= 1 /\ s[Len(s)] = Spacer /\ Guarded(s) /\ Owned(s)

LEMMA AnswersAdded ==
  ASSUME NEW C, NEW s, Sound(C, s), NEW X, Answers(s, X), Spacer \in C, NEW p \in C, Named(p) = "added", IsPlugin(p),
         NEW Y, X \subseteq Y, IsOverride(p) => p \in Y
  PROVE  LET t == addPlugin(s, p)
         IN  Sound(C, t) /\ Answers(t, Y) /\ \E j \in 1 .. Len(t) : t[j] = p
<1> DEFINE t == addPlugin(s, p)
<1>1. /\ t \in Seq(C) /\ Len(t) >= 1 /\ t[Len(t)] = Spacer /\ Guarded(t) /\ Owned(t)
      /\ Kept(s, t, {Spacer, p}) /\ \E j \in 1 .. Len(t) : t[j] = p
  BY GuardAdded DEF Sound
<1> HIDE DEF t
<1>2. ASSUME NEW i \in 1 .. Len(t), IsOverride(t[i]) PROVE HttpFor(t, t[i]) \/ t[i] \in Y
  <2>1. CASE t[i] \in {Spacer, p}
    <3>1. t[i] # Spacer
      BY <1>2, SpacerIs DEF IsOverride, IsPluginOf
    <3> QED BY <1>2, <2>1, <3>1
  <2>2. CASE \E m \in 1 .. Len(s) : t[i] = s[m]
    <3>1. PICK m \in 1 .. Len(s) : t[i] = s[m]
      BY <2>2
    <3>2. HttpFor(s, s[m]) \/ s[m] \in X
      BY <1>2, <3>1 DEF Answers
    <3>3. ASSUME HttpFor(s, s[m]) PROVE HttpFor(t, t[i])
      <4>1. PICK k \in 1 .. Len(s) : IsHttp(s[k]) /\ s[k].pass = s[m].tags
        BY <3>3 DEF HttpFor
      <4>2. PICK j \in 1 .. Len(t) : t[j] = s[k]
        BY <1>1 DEF Kept
      <4> QED BY <3>1, <4>1, <4>2 DEF HttpFor
    <3> QED BY <3>1, <3>2, <3>3
  <2> QED BY <1>1, <2>1, <2>2 DEF Kept
<1>3. Sound(C, t) /\ Answers(t, Y)
  BY <1>1, <1>2 DEF Sound, Answers
<1> QED BY <1>1, <1>3 DEF t

LEMMA AddedPlugins ==
  ASSUME NEW m, NEW id, NEW b, NEW url
  PROVE  LET P1 == createBackloopHttpListenerInputPlugin
             P2 == createOverrideProcessorPlugin(m, id, b)
             P3 == createBasicStatsAggregatorPlugin(m, id)
             P4 == createCepHttpOutputPlugin(id, url)
         IN  /\ \A p \in {P1, P2, P3, P4} : Named(p) = "added" /\ IsPlugin(p)
             /\ ~ IsOverride(P1) /\ IsOverride(P2) /\ ~ IsOverride(P3) /\ ~ IsOverride(P4)
             /\ IsHttp(P4) /\ P4.pass = P2.tags
<1> DEFINE P1 == createBackloopHttpListenerInputPlugin
           P2 == createOverrideProcessorPlugin(m, id, b)
           P3 == createBasicStatsAggregatorPlugin(m, id)
           P4 == createCepHttpOutputPlugin(id, url)
<1>1. P1.kind = "plugin" /\ P1.type = "input" /\ P1.name = "backloop"
  BY DEF createBackloopHttpListenerInputPlugin, Plugin
<1>2. P2.kind = "plugin" /\ P2.type = "processor" /\ P2.name = "override" /\ P2.tags = <<id>>
  BY DEF createOverrideProcessorPlugin, Plugin
<1>3. P3.kind = "plugin" /\ P3.type = "aggregator" /\ P3.name = "basicstats"
  BY DEF createBasicStatsAggregatorPlugin, Plugin
<1>4. P4.kind = "plugin" /\ P4.type = "output" /\ P4.name = "http" /\ P4.pass = <<id>>
  BY DEF createCepHttpOutputPlugin, Plugin
<1> HIDE DEF P1, P2, P3, P4
<1> QED BY <1>1, <1>2, <1>3, <1>4 DEF Named, Added, IsPlugin, IsOverride, IsPluginOf, IsHttp, P1, P2, P3, P4

LEMMA SoundDefaults ==
  ASSUME NEW D, NEW s, Good(D, s), AllOff(s), NEW C, Component(D) \subseteq C,
         \A c \in Component(D) : Defaulted(c) \in C, Owned(s)
  PROVE  Sound(C, addDefaults(s)) /\ Answers(addDefaults(s), {})
<1> DEFINE d == addDefaults(s)
<1>1. s \in Seq(Component(D)) /\ s # <<>> /\ s[Len(s)] = Spacer /\ Len(s) \in Nat /\ Len(s) >= 1
  <2>1. s \in Seq(Component(D)) /\ s # <<>> /\ Last(s) = Spacer
    BY GoodEnds DEF Good
  <2> QED BY <2>1 DEF Last
<1>2. \A i \in 1 .. Len(s) : s[i] \in Component(D)
  BY <1>1, ElementOf
<1>3. d \in Seq(C) /\ d = [i \in 1 .. Len(s) |-> Defaulted(s[i])]
  <2>1. \A i \in 1 .. Len(s) : Defaulted(s[i]) \in C
    BY <1>2
  <2> QED BY <1>1, <2>1, DefaultedIs
<1>4. Len(d) = Len(s) /\ \A i \in 1 .. Len(s) : d[i] = Defaulted(s[i])
  BY <1>1, <1>3
<1> HIDE DEF d
<1>5. ASSUME NEW i \in 1 .. Len(s)
      PROVE  /\ Look(d[i]) # "http" /\ ~ IsOverride(d[i])
             /\ OwnOutput(s[i]) => OwnOutput(d[i])
  <2>1. PICK c \in Component(D) : c = s[i] /\ d[i] = Defaulted(c)
    BY <1>2, <1>4
  <2>2. CASE IsPlugin(c)
    <3>1. c.name \notin Added
      BY <2>1, <2>2 DEF AllOff, OffOwn
    <3>2. Defaulted(c).kind = "plugin" /\ c.kind = "plugin" /\ Defaulted(c).name = c.name /\ Defaulted(c).type = c.type
      BY <2>2, DefaultedPlugin DEF IsPlugin
    <3>3. Named(Defaulted(c)) = "own" /\ Named(c) = "own"
      BY <3>1, <3>2 DEF Named
    <3>4. ~ IsOverride(Defaulted(c))
      BY <3>1, <3>2 DEF IsOverride, Added
    <3>5. Look(Defaulted(c)) # "http"
      BY <3>3, LookIs
    <3>6. OwnOutput(c) => OwnOutput(Defaulted(c))
      BY <3>2, <3>3 DEF OwnOutput, IsOfType
    <3> QED BY <2>1, <3>4, <3>5, <3>6
  <2>3. CASE ~ IsPlugin(c)
    <3>1. Defaulted(c) = c
      BY <2>3, DefaultedPlugin
    <3>2. Named(c) # "added" /\ ~ IsOverride(c)
      BY <2>3 DEF Named, IsPlugin, IsOverride, IsPluginOf
    <3>3. Look(c) # "http"
      BY <3>2, LookIs
    <3> QED BY <2>1, <3>1, <3>2, <3>3
  <2> QED BY <2>2, <2>3
<1>6. Guarded(d) /\ Answers(d, {})
  BY <1>4, <1>5 DEF Guarded, Answers
<1>7. Owned(d)
  BY <1>4, <1>5 DEF Owned
<1>8. d[Len(d)] = Spacer
  <2>1. Defaulted(Spacer) = Spacer
    BY DEF Defaulted, IsPluginOf, IsPlugin, Spacer
  <2>2. Len(s) \in 1 .. Len(s)
    BY <1>1
  <2> QED BY <1>1, <1>4, <2>1, <2>2
<1>9. Sound(C, d)
  BY <1>1, <1>3, <1>4, <1>6, <1>7, <1>8 DEF Sound
<1> QED BY <1>6, <1>9 DEF d


LEMMA NotOwned ==
  ASSUME NEW D, NEW conf, Good(D, conf.comps), ~ Owned(conf.comps), NEW w, NEW url
  PROVE  ~ Owned(rerouteMesurementToCep(conf, w, url).comps)
<1> DEFINE s == conf.comps
           P1 == createBackloopHttpListenerInputPlugin
           P2 == createOverrideProcessorPlugin(w.measurement, w.cepId, w.proxy)
           P3 == createBasicStatsAggregatorPlugin(w.measurement, w.cepId)
           P4 == createCepHttpOutputPlugin(w.cepId, url)
           R == {c \in {s[i] : i \in 1 .. Len(s)} \cup {Defaulted(s[i]) : i \in 1 .. Len(s)}
                         \cup {Spacer, P1, P2, P3, P4} : ~ OwnOutput(c)}
           new == rerouteMesurementToCep(conf, w, url).comps
<1>1. s \in Seq(Component(D)) /\ s # <<>> /\ DOMAIN s = 1 .. Len(s) /\ Len(s) >= 1
  <2>1. s \in Seq(Component(D)) /\ s # <<>>
    BY GoodEnds DEF Good
  <2> QED BY <2>1
<1>2. ~ OwnOutput(Spacer)
  BY SpacerIs DEF OwnOutput
<1>3. ~ OwnOutput(P1) /\ ~ OwnOutput(P2) /\ ~ OwnOutput(P3) /\ ~ OwnOutput(P4)
  <2>1. \A p \in {P1, P2, P3, P4} : Named(p) = "added" /\ IsPlugin(p)
    BY AddedPlugins
  <2> HIDE DEF P1, P2, P3, P4
  <2> QED BY <2>1 DEF OwnOutput
<1>4. \A i \in 1 .. Len(s) : ~ OwnOutput(s[i])
  BY DEF Owned
<1>5. ASSUME NEW i \in 1 .. Len(s) PROVE ~ OwnOutput(Defaulted(s[i]))
  <2>1. PICK c : c = s[i]
    OBVIOUS
  <2>2. c \in Component(D) /\ ~ OwnOutput(c)
    BY <1>1, <1>4, <2>1, ElementOf
  <2>3. CASE IsPlugin(c)
    <3>1. Defaulted(c).kind = c.kind /\ c.kind = "plugin" /\ Defaulted(c).name = c.name /\ Defaulted(c).type = c.type
      BY <2>2, <2>3, DefaultedPlugin DEF IsPlugin
    <3> QED BY <2>1, <2>2, <3>1 DEF OwnOutput, IsOfType, Named
  <2>4. CASE ~ IsPlugin(c)
    <3>1. Defaulted(c) = c
      BY <2>2, <2>4, DefaultedPlugin
    <3> QED BY <2>1, <2>2, <3>1
  <2> QED BY <2>3, <2>4
<1> HIDE DEF P1, P2, P3, P4, s
<1>6. \A c \in R : ~ OwnOutput(c)
  OBVIOUS
<1>7. /\ \A i \in 1 .. Len(s) : s[i] \in R /\ Defaulted(s[i]) \in R
      /\ Spacer \in R /\ P1 \in R /\ P2 \in R /\ P3 \in R /\ P4 \in R
  BY <1>2, <1>3, <1>4, <1>5
<1> HIDE DEF R
<1>8. new \in Seq(R)
  BY <1>1, <1>7, RerouteIn DEF s, P1, P2, P3, P4
<1> HIDE DEF new
<1>9. \A i \in 1 .. Len(new) : new[i] \in R
  BY <1>8
<1>10. ~ Owned(new)
  BY <1>6, <1>9 DEF Owned
<1> QED BY <1>10 DEF new

LEMMA ServedRerouted ==
  ASSUME NEW D, NEW conf, Good(D, conf.comps), NEW w, NEW url,
         conf.reroutes < 1 => AllOff(conf.comps), ~ (conf.reroutes < 1) => Served(conf.comps)
  PROVE  Served(rerouteMesurementToCep(conf, w, url).comps)
<1>1. CASE ~ Owned(conf.comps)
  <2>1. ~ Owned(rerouteMesurementToCep(conf, w, url).comps)
    BY <1>1, NotOwned
  <2> QED BY <2>1 DEF Owned, Served
<1>2. CASE Owned(conf.comps)
  <2> DEFINE P1 == createBackloopHttpListenerInputPlugin
             P2 == createOverrideProcessorPlugin(w.measurement, w.cepId, w.proxy)
             P3 == createBasicStatsAggregatorPlugin(w.measurement, w.cepId)
             P4 == createCepHttpOutputPlugin(w.cepId, url)
             s == conf.comps
             d == addDefaults(s)
             once == IF conf.reroutes < 1 THEN addPlugin(d, P1) ELSE s
             over == addPlugin(once, P2)
             aggr == IF ~ w.proxy /\ w.aggregates THEN addPlugin(over, P3) ELSE over
             new  == addPlugin(aggr, P4)
             C == Component(D) \cup {Defaulted(c) : c \in Component(D)} \cup {Spacer, P1, P2, P3, P4}
  <2>0. rerouteMesurementToCep(conf, w, url).comps = new
    BY DEF rerouteMesurementToCep
  <2>1. /\ \A p \in {P1, P2, P3, P4} : Named(p) = "added" /\ IsPlugin(p)
        /\ ~ IsOverride(P1) /\ IsOverride(P2) /\ ~ IsOverride(P3) /\ ~ IsOverride(P4)
        /\ IsHttp(P4) /\ P4.pass = P2.tags
    BY AddedPlugins
  <2> HIDE DEF P1, P2, P3, P4
  <2>2. /\ Component(D) \subseteq C /\ (\A c \in Component(D) : Defaulted(c) \in C)
        /\ Spacer \in C /\ P1 \in C /\ P2 \in C /\ P3 \in C /\ P4 \in C
    OBVIOUS
  <2> HIDE DEF C
  <2>3. Sound(C, once) /\ Answers(once, {})
    <3>1. CASE conf.reroutes < 1
      <4>1. Sound(C, d) /\ Answers(d, {})
        BY <1>2, <2>2, <3>1, SoundDefaults
      <4> HIDE DEF d
      <4>2. Sound(C, addPlugin(d, P1)) /\ Answers(addPlugin(d, P1), {})
        BY <2>1, <2>2, <4>1, AnswersAdded
      <4> QED BY <3>1, <4>2
    <3>2. CASE ~ (conf.reroutes < 1)
      <4>1. s \in Seq(Component(D)) /\ s # <<>> /\ Last(s) = Spacer
        BY GoodEnds DEF Good
      <4>2. s \in Seq(C) /\ Len(s) >= 1 /\ s[Len(s)] = Spacer
        BY <2>2, <4>1 DEF Last
      <4>3. Guarded(s) /\ Answers(s, {})
        BY <1>2, <3>2 DEF Served, Owned, Answers
      <4> QED BY <1>2, <3>2, <4>2, <4>3 DEF Sound
    <3> QED BY <3>1, <3>2
  <2> HIDE DEF once
  <2>4. Sound(C, over) /\ Answers(over, {P2})
    <3>1. {} \subseteq {P2} /\ P2 \in {P2} /\ Named(P2) = "added" /\ IsPlugin(P2)
      BY <2>1
    <3>2. Sound(C, addPlugin(once, P2)) /\ Answers(addPlugin(once, P2), {P2})
      BY <2>2, <2>3, <3>1, AnswersAdded
    <3> QED BY <3>2
  <2> HIDE DEF over
  <2>5. Sound(C, aggr) /\ Answers(aggr, {P2})
    <3>1. Sound(C, addPlugin(over, P3)) /\ Answers(addPlugin(over, P3), {P2})
      BY <2>1, <2>2, <2>4, AnswersAdded
    <3> QED BY <2>4, <3>1
  <2> HIDE DEF aggr
  <2>6. Sound(C, new) /\ Answers(new, {P2}) /\ \E j \in 1 .. Len(new) : new[j] = P4
    BY <2>1, <2>2, <2>5, AnswersAdded
  <2> HIDE DEF new
  <2>7. HttpFor(new, P2)
    BY <2>1, <2>6 DEF HttpFor
  <2>8. \A i \in 1 .. Len(new) : IsOverride(new[i]) => HttpFor(new, new[i])
    BY <2>6, <2>7 DEF Answers
  <2> QED BY <2>0, <2>6, <2>8 DEF Served, Sound
<1> QED BY <1>1, <1>2

LEMMA ServedRemoved ==
  ASSUME NEW D, NEW conf, Good(D, conf.comps), conf.reroutes \in Int, ~ (conf.reroutes - 1 < 1),
         NEW W, AllOn(conf.comps, W), \A v \in W : v.cepId \notin Reserved, NEW w \in W,
         w.measurement \in Names, w.cepId \in CepIds,
         \A v \in W : v.cepId = w.cepId => v.measurement = w.measurement,
         Served(conf.comps)
  PROVE  Served(removeReroute(conf, w.measurement, w.cepId).comps)
<1> DEFINE s == conf.comps
           Left(c) == ~ (IsPlugin(c) /\ MustGo(c, w.measurement, w.cepId, FALSE))
           R == {c \in {s[i] : i \in 1 .. Len(s)} : Left(c)}
           new == removeReroute(conf, w.measurement, w.cepId).comps
<1>0. PICK last \in BOOLEAN : ~ last
  OBVIOUS
<1>l. last = (conf.reroutes - 1 < 1)
  BY <1>0
<1>m. \A c : MustGo(c, w.measurement, w.cepId, last) <=> MustGo(c, w.measurement, w.cepId, FALSE)
  BY <1>0 DEF MustGo
<1>1. new \in Seq(R)
  <2>1. \A i \in 1 .. Len(conf.comps) :
           /\ ~ IsPlugin(conf.comps[i]) => conf.comps[i] \in R
           /\ IsPlugin(conf.comps[i]) /\ ~ MustGo(conf.comps[i], w.measurement, w.cepId, last)
              => (IF last THEN reset(conf.comps[i]) ELSE conf.comps[i]) \in R
    BY <1>0, <1>m
  <2> HIDE DEF R, s
  <2> QED BY <1>l, <2>1, LeftIn
<1>2. \A i \in 1 .. Len(new) : Left(new[i]) /\ \E m \in 1 .. Len(s) : new[i] = s[m]
  <2>1. \A c \in R : Left(c) /\ \E m \in 1 .. Len(s) : c = s[m]
    OBVIOUS
  <2> HIDE DEF R, new, Left, s
  <2>2. \A i \in 1 .. Len(new) : new[i] \in R
    BY <1>1
  <2> QED BY <2>1, <2>2
<1> HIDE DEF new, R
<1>3. CASE ~ Owned(s)
  <2>1. ~ Owned(new)
    BY <1>2, <1>3 DEF Owned
  <2> QED BY <2>1 DEF Owned, Served, new
<1>4. CASE Owned(s)
  <2>1. Guarded(s) /\ \A i \in 1 .. Len(s) : IsOverride(s[i]) => HttpFor(s, s[i])
    BY <1>4 DEF Served, Owned
  <2>2. /\ Guarded(new)
        /\ HttpsLeft(s, new, w.measurement, w.cepId)
    <3>1. Guarded(conf.comps)
      BY <2>1
    <3> QED BY <3>1, GuardLeft DEF new
  <2>3. ASSUME NEW i \in 1 .. Len(new), IsOverride(new[i]) PROVE HttpFor(new, new[i])
    <3>1. PICK m \in 1 .. Len(s) : new[i] = s[m] /\ Left(s[m])
      BY <1>2
    <3>2. PICK c : c = s[m] /\ OnElement(c, W) /\ IsOverride(c)
      BY <2>3, <3>1 DEF AllOn
    <3>3. PICK v \in W : OverrideOf(v, c) /\ c.tags = <<v.cepId>> /\ Head(c.tags) = v.cepId /\ c.names = v.measurement
      <4>1. OnElement(c, W) /\ IsOverride(c)
        BY <3>2
      <4> QED BY <4>1, OnOverride
    <3>4. v.cepId # w.cepId
      <4>1. ASSUME v.cepId = w.cepId PROVE FALSE
        <5>1. c.names = w.measurement
          BY <3>3, <4>1
        <5>2. MustGo(c, w.measurement, w.cepId, FALSE) /\ IsPlugin(c)
          BY <3>2, <5>1 DEF MustGo, IsOverride, IsPluginOf
        <5> QED BY <3>1, <3>2, <5>2
      <4> QED BY <4>1
    <3>5. PICK j \in 1 .. Len(s) : IsHttp(s[j]) /\ s[j].pass = c.tags
      BY <2>1, <3>2 DEF HttpFor
    <3>6. ~ MustGo(s[j], w.measurement, w.cepId, FALSE)
      <4>1. PICK e : e = s[j] /\ IsHttp(e) /\ e.pass = <<v.cepId>>
        BY <3>3, <3>5
      <4>2. ~ Contains(e.pass, w.cepId)
        <5>1. PICK x : x = v.cepId /\ x # w.cepId
          BY <3>4
        <5>2. ~ Contains(<<x>>, w.cepId)
          BY <5>1 DEF Contains
        <5> QED BY <4>1, <5>1, <5>2
      <4>3. ~ MustGo(e, w.measurement, w.cepId, FALSE)
        BY <4>1, <4>2 DEF MustGo, IsHttp, IsPluginOf, hasTagpassForToCepId
      <4> QED BY <4>1, <4>3
    <3>7. PICK k \in 1 .. Len(new) : new[k] = s[j]
      BY <2>2, <3>5, <3>6 DEF HttpsLeft
    <3> QED BY <3>1, <3>2, <3>5, <3>7 DEF HttpFor
  <2> QED BY <2>2, <2>3 DEF Served, new
<1> QED BY <1>3, <1>4


-----------------------------------------------------------------------------
(* A configuration with the reroutes of W.                                 *)
Routes(conf, W) ==
  /\ conf.reroutes < 1 => AllOff(conf.comps)
  /\ ~ (conf.reroutes < 1) => AllOn(conf.comps, W) /\ Served(conf.comps)

Routable(s) ==
  AllOff(s) \/ \E W : (\A w \in W : w.cepId \notin Reserved) /\ AllOn(s, W) /\ Served(s)

LEMMA RoutableRoutes ==
  ASSUME NEW C, NEW s \in Seq(C), Routable(s), Parses(s), NEW names
  PROVE  RoutesWell(s, names)
<1>1. CASE AllOff(s)
  <2>1. \A i \in 1 .. Len(s) : IsPlugin(s[i]) => OffOwn(s[i])
    BY <1>1 DEF AllOff
  <2> QED BY <2>1, RoutesWhileOff
<1>2. CASE \E W : (\A w \in W : w.cepId \notin Reserved) /\ AllOn(s, W) /\ Served(s)
  <2>1. PICK W : (\A w \in W : w.cepId \notin Reserved) /\ AllOn(s, W) /\ Served(s)
    BY <1>2
  <2>2. Answered(s)
    BY <2>1 DEF Served, Answered, HttpFor
  <2>3. \A i \in 1 .. Len(s) : OnElement(s[i], W)
    BY <2>1 DEF AllOn
  <2> QED BY <2>1, <2>2, <2>3, RoutesWhileOn
<1> QED BY <1>1, <1>2 DEF Routable

LEMMA RoutesRoutable ==
  ASSUME NEW conf, NEW W, \A w \in W : w.cepId \notin Reserved, Routes(conf, W)
  PROVE  Routable(conf.comps)
BY DEF Routes, Routable

LEMMA RerouteKeeps ==
  ASSUME NEW D, NEW conf, Good(D, conf.comps), conf.reroutes \in Nat, NEW W, NEW w, NEW url \in Hosts, Routes(conf, W)
  PROVE  Routes(rerouteMesurementToCep(conf, w, url), W \union {w})
<1> DEFINE new == rerouteMesurementToCep(conf, w, url)
           X == W \union {w}
<1>1. new.reroutes = conf.reroutes + 1
  BY DEF rerouteMesurementToCep
<1>2. ~ (new.reroutes < 1)
  BY <1>1
<1>3. w \in X /\ W \subseteq X
  OBVIOUS
<1> HIDE DEF X
<1>4. AllOn(new.comps, X)
  <2>1. ~ (conf.reroutes < 1) => AllOn(conf.comps, X)
    BY <1>3 DEF Routes, AllOn, OnElement
  <2>2. conf.reroutes < 1 => AllOff(conf.comps)
    BY DEF Routes
  <2> QED BY <1>3, <2>1, <2>2, OnRerouted
<1>5. Served(new.comps)
  BY ServedRerouted DEF Routes
<1> HIDE DEF new
<1>6. Routes(new, X)
  BY <1>2, <1>4, <1>5 DEF Routes
<1> QED BY <1>6 DEF new, X

LEMMA RemoveKeeps ==
  ASSUME NEW D, NEW conf, Good(D, conf.comps), conf.reroutes \in Nat, conf.reroutes # 0,
         NEW W, Routes(conf, W), \A v \in W : v.cepId \notin Reserved, NEW w \in W,
         w.measurement \in Names, w.cepId \in CepIds,
         \A v \in W : v.cepId = w.cepId => v.measurement = w.measurement,
         conf.reroutes = 1 => W = {w}, NEW X, W \subseteq X \union {w},
         ~ removeRerouteFails(conf, w.measurement, w.cepId)
  PROVE  Routes(removeReroute(conf, w.measurement, w.cepId), X)
<1> DEFINE new == removeReroute(conf, w.measurement, w.cepId)
<1>1. new.reroutes = conf.reroutes - 1
  BY DEF removeReroute
<1>2. AllOn(conf.comps, W) /\ Served(conf.comps)
  BY DEF Routes
<1>3. CASE conf.reroutes = 1
  <2>1. conf.reroutes - 1 < 1 /\ AllOn(conf.comps, {w})
    BY <1>2, <1>3
  <2>2. AllOff(new.comps)
    BY <2>1, OffRemoved
  <2>3. new.reroutes < 1
    BY <1>1, <1>3
  <2> HIDE DEF new
  <2>4. Routes(new, X)
    BY <2>2, <2>3 DEF Routes
  <2> QED BY <2>4 DEF new
<1>4. CASE conf.reroutes # 1
  <2>1. ~ (conf.reroutes - 1 < 1) /\ conf.reroutes \in Int
    BY <1>4
  <2>2. AllOn(new.comps, X)
    BY <1>2, <2>1, OnRemoved
  <2>3. Served(new.comps)
    BY <1>2, <2>1, ServedRemoved
  <2>4. ~ (new.reroutes < 1)
    BY <1>1, <2>1
  <2> HIDE DEF new
  <2>5. Routes(new, X)
    BY <2>2, <2>3, <2>4 DEF Routes
  <2> QED BY <2>5 DEF new
<1> QED BY <1>3, <1>4

-----------------------------------------------------------------------------
(* The calls of an undo and those of the place: a reroute is taken back by *)
(* the call that is one earlier in its list.                               *)
Paired(c, d) ==
  /\ c.name = "reroute" <=> d.name = "unroute"
  /\ c.name = "reroute" => c.what = d.what

Aligned(f, g) ==
  /\ Len(f) = Len(g)
  /\ f # <<>> => f[1].name # "reroute" /\ g[Len(g)].name # "unroute"
  /\ \A i \in 1 .. Len(f) - 1 : Paired(f[i + 1], g[i])

(* u is s with t behind it.                                                *)
Joined(s, t, u) ==
  /\ Len(u) = Len(s) + Len(t) /\ Len(s) \in Nat /\ Len(t) \in Nat
  /\ \A j \in 1 .. Len(s) : u[j] = s[j]
  /\ \A j \in 1 .. Len(t) : u[Len(s) + j] = t[j]
  /\ s = <<>> <=> Len(s) = 0

LEMMA CatAt ==
  ASSUME NEW S, NEW s \in Seq(S), NEW t \in Seq(S)
  PROVE  Cat(s, t) \in Seq(S) /\ Joined(s, t, Cat(s, t))
<1>1. /\ s \o t \in Seq(S) /\ Len(s \o t) = Len(s) + Len(t)
      /\ \A j \in 1 .. Len(s) : (s \o t)[j] = s[j]
      /\ \A j \in Len(s) + 1 .. Len(s) + Len(t) : (s \o t)[j] = t[j - Len(s)]
  BY ConcatIs
<1>2. Len(s) \in Nat /\ Len(t) \in Nat /\ (s = <<>> <=> Len(s) = 0)
  OBVIOUS
<1> DEFINE u == s \o t
<1> HIDE DEF u
<1>3. ASSUME NEW j \in 1 .. Len(t) PROVE u[Len(s) + j] = t[j]
  <2>1. Len(s) + j \in Len(s) + 1 .. Len(s) + Len(t) /\ (Len(s) + j) - Len(s) = j
    BY <1>2
  <2> QED BY <1>1, <2>1 DEF u
<1> QED BY <1>1, <1>2, <1>3 DEF u, Cat, Joined

LEMMA AlignedCat ==
  ASSUME NEW S, NEW T, NEW f \in Seq(S), NEW p \in Seq(S), NEW g \in Seq(T), NEW q \in Seq(T),
         Aligned(f, g), Aligned(p, q)
  PROVE  Aligned(Cat(f, p), Cat(g, q))
<1> DEFINE x == Cat(f, p)
           y == Cat(g, q)
<1>1. /\ Len(x) = Len(f) + Len(p) /\ Len(f) \in Nat /\ Len(p) \in Nat
      /\ \A j \in 1 .. Len(f) : x[j] = f[j]
      /\ \A j \in 1 .. Len(p) : x[Len(f) + j] = p[j]
      /\ f = <<>> <=> Len(f) = 0
  <2>1. Joined(f, p, x)
    BY CatAt
  <2> QED BY <2>1 DEF Joined
<1>2. /\ Len(y) = Len(g) + Len(q)
      /\ \A j \in 1 .. Len(g) : y[j] = g[j]
      /\ \A j \in 1 .. Len(q) : y[Len(g) + j] = q[j]
  <2>1. Joined(g, q, y)
    BY CatAt
  <2> QED BY <2>1 DEF Joined
<1>3. x \in Seq(S) /\ (p = <<>> <=> Len(p) = 0) /\ (x = <<>> <=> Len(x) = 0)
  <2>1. x \in Seq(S)
    BY CatAt
  <2> HIDE DEF x
  <2> QED BY <2>1
<1>4. Len(f) = Len(g) /\ Len(p) = Len(q)
  BY DEF Aligned
<1> HIDE DEF x, y
<1>5. ASSUME x # <<>> PROVE x[1].name # "reroute" /\ y[Len(y)].name # "unroute"
  <2>1. x[1].name # "reroute"
    <3>1. CASE Len(f) # 0
      <4>1. 1 \in 1 .. Len(f)
        BY <1>1, <3>1
      <4> QED BY <1>1, <3>1, <4>1 DEF Aligned
    <3>2. CASE Len(f) = 0
      <4>1. 1 \in 1 .. Len(p) /\ Len(f) + 1 = 1 /\ p # <<>>
        BY <1>1, <1>3, <1>5, <3>2
      <4>2. x[1] = p[1]
        BY <1>1, <4>1
      <4> QED BY <4>1, <4>2 DEF Aligned
    <3> QED BY <3>1, <3>2
  <2>2. y[Len(y)].name # "unroute"
    <3>1. CASE Len(p) # 0
      <4>1. Len(q) \in 1 .. Len(q)
        BY <1>1, <1>4, <3>1
      <4>2. y[Len(y)] = q[Len(q)]
        BY <1>2, <4>1
      <4> QED BY <1>3, <3>1, <4>2 DEF Aligned
    <3>2. CASE Len(p) = 0
      <4>1. Len(y) = Len(g) /\ Len(g) \in 1 .. Len(g) /\ f # <<>>
        BY <1>1, <1>2, <1>3, <1>4, <1>5, <3>2
      <4>2. y[Len(y)] = g[Len(g)]
        BY <1>2, <4>1
      <4> QED BY <4>1, <4>2 DEF Aligned
    <3> QED BY <3>1, <3>2
  <2> QED BY <2>1, <2>2
<1>6. ASSUME NEW i \in 1 .. Len(x) - 1 PROVE Paired(x[i + 1], y[i])
  <2>1. CASE i < Len(f)
    <3>1. i + 1 \in 1 .. Len(f) /\ i \in 1 .. Len(g) /\ i \in 1 .. Len(f) - 1
      BY <1>1, <1>4, <2>1
    <3>2. x[i + 1] = f[i + 1] /\ y[i] = g[i]
      BY <1>1, <1>2, <3>1
    <3> QED BY <3>1, <3>2 DEF Aligned
  <2>2. CASE i = Len(f)
    <3>1. 1 \in 1 .. Len(p) /\ i \in 1 .. Len(g) /\ f # <<>> /\ p # <<>> /\ i = Len(g)
      BY <1>1, <1>3, <1>4, <2>2
    <3>2. x[i + 1] = p[1] /\ y[i] = g[Len(g)]
      BY <1>1, <1>2, <2>2, <3>1
    <3> QED BY <3>1, <3>2 DEF Aligned, Paired
  <2>3. CASE i > Len(f)
    <3>1. PICK j : j = i - Len(f)
      OBVIOUS
    <3>2. /\ j \in 1 .. Len(p) - 1 /\ j + 1 \in 1 .. Len(p) /\ j \in 1 .. Len(q)
          /\ i = Len(g) + j /\ i + 1 = Len(f) + (j + 1)
      BY <1>1, <1>4, <2>3, <3>1
    <3>3. x[i + 1] = p[j + 1] /\ y[i] = q[j]
      BY <1>1, <1>2, <3>2
    <3> QED BY <3>2, <3>3 DEF Aligned
  <2> QED BY <1>1, <2>1, <2>2, <2>3
<1>7. Len(x) = Len(y)
  BY <1>1, <1>2, <1>4
<1>8. Aligned(x, y)
  BY <1>5, <1>6, <1>7 DEF Aligned
<1> QED BY <1>8 DEF x, y

(* One tree: the statement first and then its reroutes; the removals of    *)
(* these first and then that of the statement.                             *)
LEMMA AlignedTree ==
  ASSUME NEW S, NEW T, NEW r \in Seq(S), NEW q \in Seq(T), NEW d \in S, NEW u \in T,
         Len(r) = Len(q), \A j \in 1 .. Len(r) : Paired(r[j], q[j]),
         d.name # "reroute", u.name # "unroute"
  PROVE  Aligned(Cat(<<d>>, r), Cat(q, <<u>>))
<1> DEFINE e == <<d>>
           l == <<u>>
           x == Cat(e, r)
           y == Cat(q, l)
<1>0. e \in Seq(S) /\ l \in Seq(T) /\ Len(e) = 1 /\ Len(l) = 1 /\ e[1] = d /\ l[1] = u
  BY OneOf, OneIs
<1> HIDE DEF e, l
<1>1. /\ Len(x) = 1 + Len(r) /\ Len(r) \in Nat
      /\ \A j \in 1 .. 1 : x[j] = e[j]
      /\ \A j \in 1 .. Len(r) : x[1 + j] = r[j]
  <2>1. Joined(e, r, x)
    BY <1>0, CatAt
  <2> QED BY <1>0, <2>1 DEF Joined
<1>2. /\ Len(y) = Len(q) + 1
      /\ \A j \in 1 .. Len(q) : y[j] = q[j]
      /\ \A j \in 1 .. 1 : y[Len(q) + j] = l[j]
  <2>1. Joined(q, l, y)
    BY <1>0, CatAt
  <2> QED BY <1>0, <2>1 DEF Joined
<1> HIDE DEF x, y
<1>3. x[1] = d /\ y[Len(y)] = u /\ Len(x) = Len(y)
  BY <1>0, <1>1, <1>2
<1>4. ASSUME NEW i \in 1 .. Len(x) - 1 PROVE Paired(x[i + 1], y[i])
  <2>1. i \in 1 .. Len(r) /\ i \in 1 .. Len(q) /\ i + 1 = 1 + i
    BY <1>1
  <2>2. x[1 + i] = r[i] /\ y[i] = q[i]
    BY <1>1, <1>2, <2>1
  <2> QED BY <2>1, <2>2
<1>5. Aligned(x, y)
  BY <1>3, <1>4 DEF Aligned
<1> QED BY <1>5 DEF x, y, e, l

LEMMA AlignedFlat ==
  ASSUME NEW S, NEW T, NEW v \in Seq(Seq(S)), NEW w \in Seq(Seq(T)), Len(v) = Len(w),
         \A k \in 1 .. Len(v) : Aligned(v[k], w[k])
  PROVE  Aligned(FlattenSeq(v), FlattenSeq(w))
<1> DEFINE n == Len(v)
<1>1. PICK F : Concats(F, S, v)
  BY ConcatsExist
<1>2. PICK G : Concats(G, T, w)
  BY ConcatsExist
<1>3. FlattenSeq(v) = F[n] /\ FlattenSeq(w) = G[n]
  BY <1>1, <1>2, FlattenIs
<1>4. /\ n \in Nat /\ \A k \in 1 .. n : v[k] \in Seq(S) /\ w[k] \in Seq(T)
      /\ F \in [0 .. n -> Seq(S)] /\ F[0] = <<>> /\ \A k \in 1 .. n : F[k] = Cat(F[k - 1], v[k])
      /\ G \in [0 .. n -> Seq(T)] /\ G[0] = <<>> /\ \A k \in 1 .. n : G[k] = Cat(G[k - 1], w[k])
  <2>1. n \in Nat /\ \A k \in 1 .. n : v[k] \in Seq(S)
    BY ElementOf
  <2>2. \A k \in 1 .. Len(w) : w[k] \in Seq(T)
    BY ElementOf
  <2> QED BY <1>1, <1>2, <2>1, <2>2 DEF Concats
<1> HIDE DEF n
<1> DEFINE P == {k \in 0 .. n : Aligned(F[k], G[k])}
<1>5. 0 \in P
  <2>1. Aligned(<<>>, <<>>)
    <3>1. Len(<<>>) = 0
      OBVIOUS
    <3> QED BY <3>1 DEF Aligned
  <2> QED BY <1>4, <2>1
<1>6. ASSUME NEW k \in 0 .. n - 1, k \in P PROVE k + 1 \in P
  <2>1. PICK i \in 1 .. n : i = k + 1 /\ i - 1 = k
    BY <1>4
  <2>2. F[k] \in Seq(S) /\ G[k] \in Seq(T) /\ v[i] \in Seq(S) /\ w[i] \in Seq(T)
    <3>1. k \in 0 .. n
      BY <1>4
    <3> QED BY <1>4, <3>1
  <2>3. Aligned(F[k], G[k]) /\ Aligned(v[i], w[i])
    BY <1>6 DEF n
  <2>4. Aligned(Cat(F[k], v[i]), Cat(G[k], w[i]))
    BY <2>2, <2>3, AlignedCat
  <2>5. F[i] = Cat(F[k], v[i]) /\ G[i] = Cat(G[k], w[i])
    BY <1>4, <2>1
  <2> QED BY <2>1, <2>4, <2>5
<1> HIDE DEF P
<1>7. \A k \in 0 .. n : k \in P
  BY <1>4, <1>5, <1>6, UpTo
<1>8. n \in 0 .. n
  BY <1>4
<1> QED BY <1>3, <1>7, <1>8 DEF P

DeployPart(a, tree, t) ==
  <<Call("deploy", t.host, <<a, t.root>>)>>
  \o [j \in DOMAIN t.conds |-> Call("reroute", t.host, Described(a, tree, t.conds[j]))]

UndeployPart(a, tree, t) ==
  [j \in DOMAIN t.conds |-> Call("unroute", t.host, Described(a, tree, t.conds[j]))]
  \o <<Call("undeploy", t.host, <<a, t.root>>)>>

(* The calls of an undo: it takes back only what is in the trees.          *)
Taken(a, tree) ==
  {c \in CallsFor(a, "undeploy", "unroute", "restore") : c.name = "unroute" =>
     \E t \in Range(getLocallyPlaceableAlertTrees(tree)) :
       \E j \in DOMAIN t.conds : c.what = Described(a, tree, t.conds[j])}

LEMMA PartsAre ==
  ASSUME NEW a \in Ids, NEW tree, NEW t \in LocalTrees(N(a), Hosts),
         t \in Range(getLocallyPlaceableAlertTrees(tree))
  PROVE  /\ DeployPart(a, tree, t) \in Seq(CallsFor(a, "deploy", "reroute", "update"))
         /\ UndeployPart(a, tree, t) \in Seq(Taken(a, tree))
         /\ Aligned(DeployPart(a, tree, t), UndeployPart(a, tree, t))
<1> DEFINE S == CallsFor(a, "deploy", "reroute", "update")
           U == CallsFor(a, "undeploy", "unroute", "restore")
           T == Taken(a, tree)
           D(j) == Described(a, tree, t.conds[j])
           r == [j \in DOMAIN t.conds |-> Call("reroute", t.host, D(j))]
           q == [j \in DOMAIN t.conds |-> Call("unroute", t.host, D(j))]
           d == Call("deploy", t.host, <<a, t.root>>)
           u == Call("undeploy", t.host, <<a, t.root>>)
<1>1. t.root \in Roots(N(a)) /\ t.host \in Hosts /\ t.conds \in Seq(Leaves(N(a), Hosts))
  BY DEF LocalTrees, Roots
<1>2. DOMAIN t.conds = 1 .. Len(t.conds) /\ Len(t.conds) \in Nat
  BY <1>1
<1>3. \A j \in DOMAIN t.conds : D(j) \in Whats(a)
  BY <1>1, DescribedType
<1>4. /\ \A h \in Hosts, v \in Whats(a) : Call("reroute", h, v) \in S /\ Call("unroute", h, v) \in U
      /\ \A h \in Hosts, x \in Roots(N(a)) : Call("deploy", h, <<a, x>>) \in S /\ Call("undeploy", h, <<a, x>>) \in U
  BY CallIn
<1>5. /\ d.name = "deploy" /\ u.name = "undeploy"
      /\ \A h, v : /\ Call("reroute", h, v).name = "reroute" /\ Call("reroute", h, v).what = v
                   /\ Call("unroute", h, v).name = "unroute" /\ Call("unroute", h, v).what = v
  BY DEF Call
<1> HIDE DEF S, U
<1>6. d \in S /\ u \in U
  BY <1>1, <1>4
<1>7. u \in T
  BY <1>5, <1>6 DEF Taken, U
<1>8. ASSUME NEW j \in DOMAIN t.conds
      PROVE  /\ r[j] \in S /\ q[j] \in T
             /\ Paired(r[j], q[j])
  <2>1. r[j] = Call("reroute", t.host, D(j)) /\ q[j] = Call("unroute", t.host, D(j))
    OBVIOUS
  <2>4. D(j) \in Whats(a)
    BY <1>3
  <2>5. \E i \in DOMAIN t.conds : D(j) = Described(a, tree, t.conds[i])
    OBVIOUS
  <2> HIDE DEF r, q, D
  <2>2. r[j] \in S /\ q[j] \in U
    BY <1>1, <1>4, <2>1, <2>4
  <2>3. q[j].what = D(j) /\ r[j].what = D(j) /\ q[j].name = "unroute" /\ r[j].name = "reroute"
    BY <1>5, <2>1
  <2>6. q[j] \in T
    BY <2>2, <2>3, <2>5 DEF Taken, U
  <2> QED BY <2>2, <2>3, <2>6 DEF Paired
<1>9. DeployPart(a, tree, t) = Cat(<<d>>, r) /\ UndeployPart(a, tree, t) = Cat(q, <<u>>)
  BY DEF DeployPart, UndeployPart, Cat
<1>10. DOMAIN r = DOMAIN t.conds /\ DOMAIN q = DOMAIN t.conds
  OBVIOUS
<1>11. r = [j \in DOMAIN r |-> r[j]] /\ q = [j \in DOMAIN q |-> q[j]]
  OBVIOUS
<1> HIDE DEF r, q, d, u, T, D
<1>12. r \in Seq(S) /\ q \in Seq(T) /\ Len(r) = Len(t.conds) /\ Len(q) = Len(t.conds)
  <2>1. r \in [1 .. Len(t.conds) -> S] /\ q \in [1 .. Len(t.conds) -> T]
    BY <1>2, <1>8, <1>10, <1>11
  <2> QED BY <1>2, <2>1
<1>13. <<d>> \in Seq(S) /\ <<u>> \in Seq(T)
  BY <1>6, <1>7, OneOf
<1>14. Cat(<<d>>, r) \in Seq(S)
  BY <1>12, <1>13, CatIs
<1>15. Cat(q, <<u>>) \in Seq(T)
  BY <1>12, <1>13, CatIs
<1>16. Aligned(Cat(<<d>>, r), Cat(q, <<u>>))
  <2>1. Len(r) = Len(q) /\ \A j \in 1 .. Len(r) : Paired(r[j], q[j])
    BY <1>2, <1>8, <1>12
  <2>2. d.name # "reroute" /\ u.name # "unroute"
    BY <1>5
  <2> QED BY <1>6, <1>7, <1>12, <2>1, <2>2, AlignedTree
<1> QED BY <1>9, <1>14, <1>15, <1>16 DEF S, T

LEMMA CallsAligned ==
  ASSUME NEW a \in Ids, NEW tree \in TreesOf(N(a), Hosts \union {Nowhere}),
         \A i \in 1 .. N(a) : tree.cond[i] \in Hosts
  PROVE  /\ placeAlertLocally(a, tree) \in Seq(CallsFor(a, "deploy", "reroute", "update"))
         /\ revertLocalPlacementOfAlert(a, tree) \in Seq(Taken(a, tree))
         /\ Aligned(placeAlertLocally(a, tree), revertLocalPlacementOfAlert(a, tree))
<1> DEFINE S == CallsFor(a, "deploy", "reroute", "update")
           T == Taken(a, tree)
           trees == getLocallyPlaceableAlertTrees(tree)
           v == [i \in DOMAIN trees |-> DeployPart(a, tree, trees[i])]
           w == [i \in DOMAIN trees |-> UndeployPart(a, tree, trees[i])]
           d == Call("update", "", a)
           u == Call("restore", "", a)
<1>0. N(a) \in Nat /\ N(a) >= 1
  BY AlertIs
<1>1. trees \in Seq(LocalTrees(N(a), Hosts))
  BY <1>0, LocalType
<1>2. /\ placeAlertLocally(a, tree) = Cat(FlattenSeq(v), <<d>>)
      /\ revertLocalPlacementOfAlert(a, tree) = Cat(FlattenSeq(w), <<u>>)
  BY DEF placeAlertLocally, revertLocalPlacementOfAlert, DeployPart, UndeployPart, Cat
<1>3. \A i \in DOMAIN trees : trees[i] \in Range(trees)
  BY DEF Range
<1>4. DOMAIN trees = 1 .. Len(trees) /\ Len(trees) \in Nat /\ \A i \in 1 .. Len(trees) : trees[i] \in LocalTrees(N(a), Hosts)
  <2> HIDE DEF trees
  <2> QED BY <1>1, ElementOf
<1>5. ASSUME NEW i \in DOMAIN trees
      PROVE  v[i] \in Seq(S) /\ w[i] \in Seq(T) /\ Aligned(v[i], w[i])
  <2>1. PICK t \in LocalTrees(N(a), Hosts) : t = trees[i] /\ t \in Range(trees)
    BY <1>3, <1>4
  <2>2. /\ DeployPart(a, tree, t) \in Seq(S)
        /\ UndeployPart(a, tree, t) \in Seq(T)
        /\ Aligned(DeployPart(a, tree, t), UndeployPart(a, tree, t))
    BY <2>1, PartsAre
  <2> QED BY <2>1, <2>2
<1>6. DOMAIN v = DOMAIN trees /\ DOMAIN w = DOMAIN trees /\ v = [i \in DOMAIN v |-> v[i]] /\ w = [i \in DOMAIN w |-> w[i]]
  OBVIOUS
<1>7. d \in S /\ u \in T /\ d.name # "reroute" /\ u.name # "unroute"
  <2>1. d.name = "update" /\ u.name = "restore"
    BY DEF Call
  <2> QED BY <2>1 DEF Taken, CallsFor
<1> HIDE DEF trees, v, w, d, u, S, T
<1>8. v \in Seq(Seq(S)) /\ w \in Seq(Seq(T)) /\ Len(v) = Len(trees) /\ Len(w) = Len(trees)
  <2>1. v \in [1 .. Len(trees) -> Seq(S)] /\ w \in [1 .. Len(trees) -> Seq(T)]
    BY <1>4, <1>5, <1>6
  <2> DEFINE P == Seq(S)
             Q == Seq(T)
  <2>2. v \in [1 .. Len(trees) -> P] /\ w \in [1 .. Len(trees) -> Q]
    BY <2>1
  <2> HIDE DEF P, Q
  <2>3. v \in Seq(P) /\ Len(v) = Len(trees)
    BY <1>4, <2>2
  <2>4. w \in Seq(Q) /\ Len(w) = Len(trees)
    BY <1>4, <2>2
  <2> QED BY <2>3, <2>4 DEF P, Q
<1>9. FlattenSeq(v) \in Seq(S) /\ FlattenSeq(w) \in Seq(T)
  <2>1. FlattenSeq(v) \in Seq(S)
    BY <1>8, FlattenType
  <2>2. FlattenSeq(w) \in Seq(T)
    BY <1>8, FlattenType
  <2> QED BY <2>1, <2>2
<1>10. Aligned(FlattenSeq(v), FlattenSeq(w))
  <2>1. Len(v) = Len(w) /\ \A k \in 1 .. Len(v) : Aligned(v[k], w[k])
    BY <1>4, <1>5, <1>8
  <2> QED BY <1>8, <2>1, AlignedFlat
<1>11. <<d>> \in Seq(S) /\ <<u>> \in Seq(T) /\ Aligned(<<d>>, <<u>>)
  <2>1. <<d>> \in Seq(S) /\ <<u>> \in Seq(T)
    BY <1>7, OneOf
  <2>2. Len(<<d>>) = 1 /\ Len(<<u>>) = 1 /\ <<d>>[1] = d /\ <<u>>[1] = u
    BY OneIs
  <2>3. Aligned(<<d>>, <<u>>)
    <3> DEFINE e == <<d>>
               l == <<u>>
    <3>1. Len(e) = 1 /\ Len(l) = 1 /\ e[1] = d /\ l[1] = u
      BY <2>2
    <3> HIDE DEF e, l
    <3>2. Aligned(e, l)
      BY <1>7, <3>1 DEF Aligned
    <3> QED BY <3>2 DEF e, l
  <2> QED BY <2>1, <2>3
<1> DEFINE e == <<d>>
           l == <<u>>
           f == FlattenSeq(v)
           g == FlattenSeq(w)
<1>12. e \in Seq(S) /\ l \in Seq(T) /\ f \in Seq(S) /\ g \in Seq(T) /\ Aligned(e, l) /\ Aligned(f, g)
  BY <1>9, <1>10, <1>11
<1> HIDE DEF e, l, f, g
<1>13. Cat(f, e) \in Seq(S) /\ Cat(g, l) \in Seq(T)
  <2>1. Cat(f, e) \in Seq(S)
    BY <1>12, CatIs
  <2>2. Cat(g, l) \in Seq(T)
    BY <1>12, CatIs
  <2> QED BY <2>1, <2>2
<1>14. Aligned(Cat(f, e), Cat(g, l))
  BY <1>12, AlignedCat
<1> QED BY <1>2, <1>13, <1>14 DEF e, l, f, g, S, T

-----------------------------------------------------------------------------
(* The reroutes that an undo has still to take back, as the positions of   *)
(* the calls that do so.                                                   *)
Bare(a)    == [alertTree[a] EXCEPT !.proxied = {}]
Placing(a) == placeAlertLocally(a, Bare(a))
Undoing(a) == revertLocalPlacementOfAlert(a, Bare(a))

Due(a, i) ==
  /\ history # <<>>
  /\ IF Last(history) = "place"
     THEN a < alert \/ (a = alert /\ i < Len(Undoing(a)) - Len(calls))
     ELSE a > alert \/ (a = alert /\ i > Len(Undoing(a)) - Len(calls))

Removal(a, i, h) ==
  /\ i \in 1 .. Len(Undoing(a))
  /\ Undoing(a)[i].name = "unroute" /\ Undoing(a)[i].what.source = h

Slots(h)  == {s \in Ids \X Nat : Removal(s[1], s[2], h) /\ Due(s[1], s[2])}
Of(s)     == Undoing(s[1])[s[2]].what
Wanted(h) == {Of(s) : s \in Slots(h)}

EndOf(s, t) ==
  Len(s) <= Len(t) /\ \A j \in 1 .. Len(s) : s[j] = t[Len(t) - Len(s) + j]

Ending ==
  calls # <<>> => EndOf(calls, IF Last(history) = "place" THEN Placing(alert)
                                                          ELSE Undoing(alert))

(* What CallsAligned says of the calls of an alert that has been placed.   *)
Laid(a) ==
  /\ Len(Undoing(a)) \in Nat /\ Len(Undoing(a)) >= 1 /\ Len(Placing(a)) = Len(Undoing(a))
  /\ Placing(a)[1].name # "reroute" /\ Undoing(a)[Len(Undoing(a))].name # "unroute"
  /\ \A i \in 1 .. Len(Undoing(a)) - 1 : Paired(Placing(a)[i + 1], Undoing(a)[i])
  /\ \A i \in 1 .. Len(Undoing(a)) : Undoing(a)[i] \in Taken(a, Bare(a))

LEMMA BareIs ==
  ASSUME NEW a \in Ids, NEW p \in AllPolicies, Deployable(a, p), PlacedBy(a, p)
  PROVE  Bare(a) = Best(a, p) /\ Laid(a)
<1> DEFINE b == Best(a, p)
           t == alertTree[a]
<1>1. PolicyOK(p)
  BY EveryPolicyOK DEF AllPolicies
<1>2. b \in TreesOf(N(a), Somewhere) /\ b.cond = p[a].cond /\ b.proxied = {}
  BY <1>1, BestOf
<1>3. t = [b EXCEPT !.proxied = ReplacedBelow(b)]
  BY DEF PlacedBy
<1> HIDE DEF b
<1>4. [t EXCEPT !.proxied = {}] = b
  BY <1>2, <1>3 DEF TreesOf
<1>5. Bare(a) = b
  BY <1>4 DEF Bare
<1>6. b \in TreesOf(N(a), Hosts \union {Nowhere}) /\ \A i \in 1 .. N(a) : b.cond[i] \in Hosts
  BY <1>2 DEF Deployable, Somewhere
<1>7. /\ placeAlertLocally(a, b) \in Seq(CallsFor(a, "deploy", "reroute", "update"))
      /\ revertLocalPlacementOfAlert(a, b) \in Seq(Taken(a, b))
      /\ Aligned(placeAlertLocally(a, b), revertLocalPlacementOfAlert(a, b))
  BY <1>6, CallsAligned
<1>8. placeAlertLocally(a, b) # <<>>
  BY <1>6, PlaceType
<1>9. Placing(a) = placeAlertLocally(a, b) /\ Undoing(a) = revertLocalPlacementOfAlert(a, b)
  BY <1>5 DEF Placing, Undoing
<1> DEFINE f == Placing(a)
           g == Undoing(a)
           S == CallsFor(a, "deploy", "reroute", "update")
           T == Taken(a, Bare(a))
<1>10. f \in Seq(S) /\ g \in Seq(T) /\ Aligned(f, g) /\ f # <<>>
  BY <1>5, <1>7, <1>8, <1>9
<1> HIDE DEF f, g, S, T
<1>11. /\ Len(g) \in Nat /\ Len(g) >= 1 /\ Len(f) = Len(g)
  <2>1. Len(f) \in Nat /\ Len(f) # 0
    BY <1>10
  <2> QED BY <1>10, <2>1 DEF Aligned
<1>12. \A i \in 1 .. Len(g) : g[i] \in T
  BY <1>10, ElementOf
<1>13. /\ f[1].name # "reroute" /\ g[Len(g)].name # "unroute"
       /\ \A i \in 1 .. Len(g) - 1 : Paired(f[i + 1], g[i])
  BY <1>10, <1>11 DEF Aligned
<1> QED BY <1>5, <1>11, <1>12, <1>13 DEF Laid, f, g, T, b

LEMMA PlacedLaid ==
  ASSUME TypeInv, TreeInv, ~ crashed, NEW a \in Ids, a <= alert \/ Len(history) > 1
  PROVE  Laid(a)
<1>1. \/ alertTree[a] = NewTree(N(a)) /\ a > alert /\ Len(history) <= 1
      \/ \E p \in AllPolicies : Deployable(a, p) /\ PlacedBy(a, p)
  BY DEF TreeInv
<1>2. ~ (a > alert /\ Len(history) <= 1)
  BY IdsAre DEF TypeInv
<1>3. PICK p \in AllPolicies : Deployable(a, p) /\ PlacedBy(a, p)
  BY <1>1, <1>2
<1> QED BY <1>3, BareIs

LEMMA SameLists ==
  ASSUME UNCHANGED <<alertTree, policy>>, NEW a
  PROVE  Placing(a)' = Placing(a) /\ Undoing(a)' = Undoing(a)
BY DEF Placing, Undoing, Bare, placeAlertLocally, revertLocalPlacementOfAlert, Described

LEMMA TailEnds ==
  ASSUME NEW S, NEW s \in Seq(S), s # <<>>, NEW t, Len(t) \in Nat, EndOf(s, t)
  PROVE  /\ EndOf(Tail(s), t) /\ Len(Tail(s)) = Len(s) - 1 /\ Len(s) \in 1 .. Len(t)
         /\ Head(s) = t[Len(t) - Len(s) + 1]
<1>1. Len(s) \in Nat /\ Len(s) # 0 /\ Head(s) = s[1] /\ Len(Tail(s)) = Len(s) - 1
      /\ \A j \in 1 .. Len(s) - 1 : Tail(s)[j] = s[j + 1]
  OBVIOUS
<1>2. 1 \in 1 .. Len(s)
  BY <1>1
<1>3. ASSUME NEW j \in 1 .. Len(s) - 1 PROVE Tail(s)[j] = t[Len(t) - (Len(s) - 1) + j]
  <2>1. j + 1 \in 1 .. Len(s) /\ Len(t) - Len(s) + (j + 1) = Len(t) - (Len(s) - 1) + j
    BY <1>1
  <2> QED BY <1>1, <2>1 DEF EndOf
<1> DEFINE r == Tail(s)
<1>4. Len(r) = Len(s) - 1 /\ \A j \in 1 .. Len(s) - 1 : r[j] = t[Len(t) - (Len(s) - 1) + j]
  BY <1>1, <1>3
<1> HIDE DEF r
<1>5. EndOf(r, t)
  BY <1>1, <1>4 DEF EndOf
<1> QED BY <1>1, <1>2, <1>4, <1>5 DEF EndOf, r

(* The call that is made is the next of the alert's: k of them have been.  *)
LEMMA CallAt ==
  ASSUME TypeInv, TreeInv, ~ crashed, calls # <<>>, Ending, Done
  PROVE  /\ alert \in Ids /\ Laid(alert) /\ EndOf(Tail(calls), IF Last(history) = "place" THEN Placing(alert) ELSE Undoing(alert))
         /\ history # <<>> /\ Last(history) = command /\ command \in {"place", "undo"}
         /\ \E k \in 0 .. Len(Undoing(alert)) - 1 :
              /\ Len(Undoing(alert)) - Len(calls) = k /\ Len(Undoing(alert)) - Len(Tail(calls)) = k + 1
              /\ Head(calls) = (IF Last(history) = "place" THEN Placing(alert) ELSE Undoing(alert))[k + 1]
<1>1. alert \in Ids /\ command \in {"place", "undo"} /\ \E S : calls \in Seq(S)
  BY DEF TypeInv, CallsOK
<1>2. history # <<>> /\ Last(history) = command
  BY <1>1 DEF TreeInv
<1>3. Laid(alert)
  <2>1. alert <= alert
    BY DEF TypeInv
  <2> QED BY <1>1, <2>1, PlacedLaid
<1> DEFINE t == IF Last(history) = "place" THEN Placing(alert) ELSE Undoing(alert)
<1>4. PICK S : calls \in Seq(S)
  BY <1>1
<1>5. EndOf(calls, t) /\ Len(t) = Len(Undoing(alert)) /\ Len(t) \in Nat
  BY <1>3 DEF Ending, Laid
<1> HIDE DEF t
<1>6. /\ EndOf(Tail(calls), t) /\ Len(Tail(calls)) = Len(calls) - 1 /\ Len(calls) \in 1 .. Len(t)
      /\ Head(calls) = t[Len(t) - Len(calls) + 1]
  BY <1>4, <1>5, TailEnds
<1>7. PICK k : k = Len(t) - Len(calls)
  OBVIOUS
<1>8. k \in 0 .. Len(t) - 1 /\ Len(t) - Len(Tail(calls)) = k + 1 /\ Head(calls) = t[k + 1]
  BY <1>5, <1>6, <1>7
<1> QED BY <1>1, <1>2, <1>3, <1>5, <1>6, <1>7, <1>8 DEF t

(* A call of a place adds the removal that belongs to it ...               *)
LEMMA PlaceSlots ==
  ASSUME TypeInv, TreeInv, ~ crashed, calls # <<>>, Ending, Done, command = "place", NEW h
  PROVE  IF Head(calls).name = "reroute" /\ Head(calls).what.source = h
         THEN \E s : s \notin Slots(h) /\ Slots(h)' = Slots(h) \union {s} /\ Of(s) = Head(calls).what
         ELSE Slots(h)' = Slots(h)
<1> DEFINE g == Undoing(alert)
           n == Len(g)
           c == Head(calls)
<1>1. /\ alert \in Ids /\ Laid(alert) /\ history # <<>> /\ Last(history) = "place"
      /\ \E k \in 0 .. n - 1 :
           n - Len(calls) = k /\ n - Len(Tail(calls)) = k + 1 /\ c = Placing(alert)[k + 1]
  BY CallAt
<1>2. UNCHANGED <<alertTree, policy, alert, history>> /\ calls' = Tail(calls)
  BY DEF Done
<1>3. PICK k \in 0 .. n - 1 :
        n - Len(calls) = k /\ n - Len(Tail(calls)) = k + 1 /\ c = Placing(alert)[k + 1]
  BY <1>1
<1>4. /\ n \in Nat /\ n >= 1 /\ Placing(alert)[1].name # "reroute" /\ g[n].name # "unroute"
      /\ \A i \in 1 .. n - 1 : Paired(Placing(alert)[i + 1], g[i])
  BY <1>1 DEF Laid
<1>5. \A a : Undoing(a)' = Undoing(a)
  BY <1>2, SameLists
<1>6. \A a, i : Removal(a, i, h)' <=> Removal(a, i, h)
  BY <1>5 DEF Removal
<1>7. \A a, i : Due(a, i) <=> a < alert \/ (a = alert /\ i < k)
  BY <1>1, <1>3 DEF Due
<1>8. \A a, i : Due(a, i)' <=> a < alert \/ (a = alert /\ i < k + 1)
  <2>1. n' = n
    BY <1>2, <1>5
  <2> QED BY <1>1, <1>2, <1>3, <1>5 DEF Due
<1>9. alert \in Nat /\ Ids \subseteq Nat /\ ~ (alert < alert) /\ Ids' = Ids
  BY <1>1, IdsAre DEF Ids
<1>10. \A s : s \in Slots(h) <=> s \in Ids \X Nat /\ Removal(s[1], s[2], h) /\ (s[1] < alert \/ (s[1] = alert /\ s[2] < k))
  BY <1>7 DEF Slots
<1>11. \A s : s \in Slots(h)' <=> s \in Ids \X Nat /\ Removal(s[1], s[2], h) /\ (s[1] < alert \/ (s[1] = alert /\ s[2] < k + 1))
  BY <1>6, <1>8, <1>9 DEF Slots
<1>12. c.name = "reroute" /\ c.what.source = h <=> Removal(alert, k, h)
  <2>1. CASE k = 0
    <3>1. k + 1 = 1 /\ ~ (k \in 1 .. n)
      BY <1>4, <2>1
    <3> QED BY <1>3, <1>4, <3>1 DEF Removal
  <2>2. CASE k # 0
    <3>1. k \in 1 .. n - 1 /\ k \in 1 .. n
      BY <1>3, <1>4, <2>2
    <3>2. Paired(c, g[k])
      BY <1>3, <1>4, <3>1
    <3> QED BY <3>1, <3>2 DEF Paired, Removal
  <2> QED BY <2>1, <2>2
<1>13. CASE Removal(alert, k, h)
  <2> DEFINE s == <<alert, k>>
  <2>1. s \in Ids \X Nat /\ s[1] = alert /\ s[2] = k
    BY <1>1, <1>3
  <2>2. Of(s) = c.what
    <3>1. k \in 1 .. n - 1
      <4>1. k \in 1 .. n
        BY <1>13 DEF Removal
      <4> QED BY <1>3, <1>4, <4>1
    <3>2. Paired(c, g[k])
      BY <1>3, <1>4, <3>1
    <3> QED BY <1>12, <1>13, <2>1, <3>2 DEF Paired, Of
  <2>3. \A u \in Ids \X Nat : u[1] = alert /\ u[2] = k => u = s
    OBVIOUS
  <2> HIDE DEF s
  <2>4. s \notin Slots(h)
    BY <1>3, <1>9, <1>10, <2>1
  <2>5. \A u \in Ids \X Nat : u[2] \in Nat
    OBVIOUS
  <2>6. ASSUME NEW u PROVE u \in Slots(h)' <=> u \in Slots(h) \union {s}
    <3>1. CASE u \in Ids \X Nat
      <4>1. u[2] < k + 1 <=> u[2] < k \/ u[2] = k
        BY <1>3, <2>5, <3>1
      <4>2. u[1] = alert /\ u[2] = k <=> u = s
        BY <2>1, <2>3, <3>1
      <4> QED BY <1>10, <1>11, <1>13, <2>1, <3>1, <4>1, <4>2
    <3>2. CASE u \notin Ids \X Nat
      BY <1>10, <1>11, <2>1, <3>2
    <3> QED BY <3>1, <3>2
  <2>7. Slots(h)' = Slots(h) \union {s}
    BY <2>6
  <2> QED BY <1>12, <1>13, <2>2, <2>4, <2>7
<1>14. CASE ~ Removal(alert, k, h)
  <2>1. ASSUME NEW u \in Ids \X Nat, Removal(u[1], u[2], h)
        PROVE  u[1] = alert => (u[2] < k + 1 <=> u[2] < k)
    <3>1. u[2] \in Nat
      OBVIOUS
    <3>2. u[1] = alert => u[2] # k
      BY <1>14, <2>1
    <3> QED BY <1>3, <3>1, <3>2
  <2>2. Slots(h)' = Slots(h)
    BY <1>10, <1>11, <2>1
  <2> QED BY <1>12, <1>14, <2>2
<1> QED BY <1>13, <1>14

(* ... and a call of an undo removes the one that it is.                   *)
LEMMA UndoSlots ==
  ASSUME TypeInv, TreeInv, ~ crashed, calls # <<>>, Ending, Done, command = "undo", NEW h
  PROVE  IF Head(calls).name = "unroute" /\ Head(calls).what.source = h
         THEN \E s \in Slots(h) : Slots(h)' = Slots(h) \ {s} /\ Of(s) = Head(calls).what
         ELSE Slots(h)' = Slots(h)
<1> DEFINE g == Undoing(alert)
           n == Len(g)
           c == Head(calls)
<1>1. /\ alert \in Ids /\ Laid(alert) /\ history # <<>> /\ Last(history) = "undo"
      /\ \E k \in 0 .. n - 1 :
           n - Len(calls) = k /\ n - Len(Tail(calls)) = k + 1 /\ c = g[k + 1]
  BY CallAt
<1>2. UNCHANGED <<alertTree, policy, alert, history>> /\ calls' = Tail(calls)
  BY DEF Done
<1>3. PICK k \in 0 .. n - 1 :
        n - Len(calls) = k /\ n - Len(Tail(calls)) = k + 1 /\ c = g[k + 1]
  BY <1>1
<1>4. n \in Nat /\ k + 1 \in 1 .. n
  BY <1>1 DEF Laid
<1>5. \A a : Undoing(a)' = Undoing(a)
  BY <1>2, SameLists
<1>6. \A a, i : Removal(a, i, h)' <=> Removal(a, i, h)
  BY <1>5 DEF Removal
<1>7. \A a, i : Due(a, i) <=> a > alert \/ (a = alert /\ i > k)
  BY <1>1, <1>3 DEF Due
<1>8. \A a, i : Due(a, i)' <=> a > alert \/ (a = alert /\ i > k + 1)
  <2>1. n' = n
    BY <1>2, <1>5
  <2> QED BY <1>1, <1>2, <1>3, <1>5 DEF Due
<1>9. alert \in Nat /\ Ids \subseteq Nat /\ ~ (alert > alert) /\ Ids' = Ids
  BY <1>1, IdsAre DEF Ids
<1>10. \A s : s \in Slots(h) <=> s \in Ids \X Nat /\ Removal(s[1], s[2], h) /\ (s[1] > alert \/ (s[1] = alert /\ s[2] > k))
  BY <1>7 DEF Slots
<1>11. \A s : s \in Slots(h)' <=> s \in Ids \X Nat /\ Removal(s[1], s[2], h) /\ (s[1] > alert \/ (s[1] = alert /\ s[2] > k + 1))
  BY <1>6, <1>8, <1>9 DEF Slots
<1>12. c.name = "unroute" /\ c.what.source = h <=> Removal(alert, k + 1, h)
  BY <1>3, <1>4 DEF Removal
<1>13. CASE Removal(alert, k + 1, h)
  <2> DEFINE s == <<alert, k + 1>>
  <2>1. s \in Ids \X Nat /\ s[1] = alert /\ s[2] = k + 1
    BY <1>1, <1>3
  <2>2. Of(s) = c.what
    BY <1>3, <2>1 DEF Of
  <2>3. \A u \in Ids \X Nat : u[1] = alert /\ u[2] = k + 1 => u = s
    OBVIOUS
  <2> HIDE DEF s
  <2>4. s \in Slots(h)
    BY <1>3, <1>10, <1>13, <2>1
  <2>5. \A u \in Ids \X Nat : u[2] \in Nat
    OBVIOUS
  <2>6. ASSUME NEW u PROVE u \in Slots(h)' <=> u \in Slots(h) \ {s}
    <3>1. CASE u \in Ids \X Nat
      <4>1. u[2] > k <=> u[2] > k + 1 \/ u[2] = k + 1
        BY <1>3, <2>5, <3>1
      <4>2. u[1] = alert /\ u[2] = k + 1 <=> u = s
        BY <2>1, <2>3, <3>1
      <4>3. u = s => ~ (u[1] > alert) /\ ~ (u[2] > k + 1)
        BY <1>3, <1>9, <2>1
      <4> QED BY <1>10, <1>11, <1>13, <2>1, <3>1, <4>1, <4>2, <4>3
    <3>2. CASE u \notin Ids \X Nat
      BY <1>10, <1>11, <2>1, <3>2
    <3> QED BY <3>1, <3>2
  <2>7. Slots(h)' = Slots(h) \ {s}
    BY <2>6
  <2> QED BY <1>12, <1>13, <2>2, <2>4, <2>7
<1>14. CASE ~ Removal(alert, k + 1, h)
  <2>1. ASSUME NEW u \in Ids \X Nat, Removal(u[1], u[2], h)
        PROVE  u[1] = alert => (u[2] > k <=> u[2] > k + 1)
    <3>1. u[2] \in Nat
      OBVIOUS
    <3>2. u[1] = alert => u[2] # k + 1
      BY <1>14, <2>1
    <3> QED BY <1>3, <3>1, <3>2
  <2>2. Slots(h)' = Slots(h)
    BY <1>10, <1>11, <2>1
  <2> QED BY <1>12, <1>14, <2>2
<1> QED BY <1>13, <1>14

LaidOut ==
  ~ crashed => \A a \in 1 .. Len(Alerts) : a <= alert \/ Len(history) > 1 => Laid(a)

LEMMA AllLaid == TypeInv /\ TreeInv => LaidOut
BY PlacedLaid, IdsAre DEF LaidOut

LEMMA AllLaidNext == TypeInv' /\ TreeInv' => LaidOut'
BY AllLaid, PTL

LEMMA LaidNext ==
  ASSUME TypeInv', TreeInv', ~ crashed', NEW a \in Ids, a <= alert' \/ Len(history') > 1
  PROVE  Laid(a)'
<1>1. LaidOut'
  BY AllLaidNext
<1> QED BY <1>1, IdsAre DEF LaidOut

(* Commands take turns.                                                    *)
LEMMA TurnOf ==
  ASSUME TypeInv, NEW name \in {"place", "undo"}, Start(name), InTurn'
  PROVE  /\ Len(history) \in Nat /\ history' # <<>> /\ Last(history') = name /\ Len(history') = Len(history) + 1
         /\ name = "place" => history = <<>> \/ (Last(history) = "undo" /\ Len(history) > 1)
         /\ name = "undo" => history # <<>> /\ Last(history) = "place" /\ Len(history') > 1
         /\ InTurn
<1> DEFINE H == {"place", "undo"}
<1>1. history \in Seq(H) /\ name \in H /\ history' = Append(history, name)
  BY DEF TypeInv, Start
<1>2. /\ Len(history) \in Nat /\ Len(history') = Len(history) + 1 /\ DOMAIN history = 1 .. Len(history)
      /\ DOMAIN history' = 1 .. Len(history) + 1 /\ history'[Len(history) + 1] = name
      /\ \A i \in 1 .. Len(history) : history'[i] = history[i]
      /\ (history = <<>> <=> Len(history) = 0) /\ history' # <<>>
  <2> HIDE DEF H
  <2>1. Append(history, name) \in Seq(H) /\ Append(history, name) # <<>>
    BY <1>1
  <2> QED BY <1>1, <2>1
<1>3. Last(history') = name
  BY <1>2 DEF Last
<1>4. ASSUME NEW i \in 1 .. Len(history) + 1
      PROVE  history'[i] = IF i % 2 = 1 THEN "place" ELSE "undo"
  BY <1>2 DEF InTurn
<1>5. InTurn
  <2>1. \A i \in 1 .. Len(history) : i \in 1 .. Len(history) + 1
    BY <1>2
  <2> QED BY <1>2, <1>4, <2>1 DEF InTurn
<1>6. name = IF (Len(history) + 1) % 2 = 1 THEN "place" ELSE "undo"
  <2>1. Len(history) + 1 \in 1 .. Len(history) + 1
    BY <1>2
  <2> QED BY <1>2, <1>4, <2>1
<1>7. history # <<>> => Last(history) = IF Len(history) % 2 = 1 THEN "place" ELSE "undo"
  <2>1. ASSUME history # <<>> PROVE Len(history) \in 1 .. Len(history) + 1 /\ Len(history) \in 1 .. Len(history)
    BY <1>2, <2>1
  <2> QED BY <1>2, <1>4, <2>1 DEF Last
<1>8. PICK m \in Nat : m = Len(history)
  BY <1>2
<1>9. m % 2 = 1 <=> (m + 1) % 2 # 1
  BY <1>8
<1>10. m % 2 # 1 /\ m # 0 => m > 1
  BY <1>8
<1>11. m # 0 => m + 1 > 1
  BY <1>8
<1>12. (0 + 1) % 2 = 1
  OBVIOUS
<1>13. name = "place" => history = <<>> \/ (Last(history) = "undo" /\ Len(history) > 1)
  <2>1. ASSUME name = "place", history # <<>> PROVE Last(history) = "undo" /\ Len(history) > 1
    <3>1. (m + 1) % 2 = 1
      BY <1>6, <1>8, <2>1
    <3>2. m % 2 # 1 /\ m # 0
      BY <1>2, <1>8, <1>9, <2>1, <3>1
    <3>3. Last(history) = "undo"
      BY <1>7, <1>8, <2>1, <3>2
    <3>4. m > 1
      BY <1>10, <3>2
    <3> QED BY <1>8, <3>3, <3>4
  <2> QED BY <2>1
<1>14. name = "undo" => history # <<>> /\ Last(history) = "place" /\ Len(history') > 1
  <2>1. name = "undo" => Len(history) # 0
    BY <1>6, <1>12
  <2> QED BY <1>2, <1>6, <1>7, <1>8, <1>9, <1>11, <2>1
<1> QED BY <1>2, <1>3, <1>5, <1>13, <1>14

(* When a command starts every removal or none is due.                     *)
LEMMA StartSlots ==
  ASSUME TypeInv, TreeInv, TypeInv', TreeInv', NEW name \in {"place", "undo"}, Start(name), InTurn', NEW h
  PROVE  /\ Slots(h)' = Slots(h) /\ InTurn /\ calls' = <<>>
         /\ name = "place" => Slots(h) = {}
         /\ name = "undo" => \A s : Of(s)' = Of(s)
<1>1. /\ command = "none" /\ ~ crashed /\ crashed' = crashed /\ command' = name /\ alert' = 0
      /\ calls' = <<>> /\ alertTree' = alertTree
  BY DEF Start
<1>2. /\ Len(history) \in Nat /\ history' # <<>> /\ Last(history') = name /\ Len(history') = Len(history) + 1
      /\ name = "place" => history = <<>> \/ (Last(history) = "undo" /\ Len(history) > 1)
      /\ name = "undo" => history # <<>> /\ Last(history) = "place" /\ Len(history') > 1
      /\ InTurn
  BY TurnOf
<1>3. calls = <<>>
  BY <1>1 DEF TypeInv, CallsOK
<1>4. history # <<>> => alert = Len(Alerts)
  BY <1>1 DEF TreeInv
<1>5. Ids = 1 .. Len(Alerts) /\ Len(Alerts) \in Nat /\ Ids' = Ids
  BY IdsAre DEF Ids
<1>6. Len(calls) = 0 /\ Len(calls') = 0
  BY <1>1, <1>3
<1>7. CASE name = "place"
  <2>1. ASSUME NEW a \in Ids, NEW i \in Nat, Removal(a, i, h), Due(a, i) PROVE FALSE
    <3>1. history # <<>> /\ Last(history) = "undo" /\ Len(history) > 1
      BY <1>2, <1>7, <2>1 DEF Due
    <3>2. Laid(a)
      BY <1>1, <3>1, PlacedLaid
    <3>3. a > Len(Alerts) \/ i > Len(Undoing(a)) - 0
      BY <1>4, <1>6, <2>1, <3>1 DEF Due
    <3>4. i \in 1 .. Len(Undoing(a)) /\ Len(Undoing(a)) \in Nat
      BY <2>1, <3>2 DEF Removal, Laid
    <3> QED BY <1>5, <3>3, <3>4
  <2>2. ASSUME NEW a \in Ids, NEW i \in Nat, Due(a, i)' PROVE FALSE
    <3>1. a < 0 \/ a = 0
      BY <1>1, <1>2, <1>7, <2>2 DEF Due
    <3> QED BY <1>5, <3>1
  <2>3. Slots(h) = {} /\ Slots(h)' = {}
    BY <1>5, <2>1, <2>2 DEF Slots
  <2> QED BY <1>1, <1>2, <1>7, <2>3
<1>8. CASE name = "undo"
  <2>0. policy' = policy
    BY <1>8 DEF Start
  <2>1. \A a : Undoing(a)' = Undoing(a)
    BY <1>1, <2>0, SameLists
  <2>2. \A a, i : Removal(a, i, h)' <=> Removal(a, i, h)
    BY <2>1 DEF Removal
  <2>3. ASSUME NEW a \in Ids, NEW i \in Nat, Removal(a, i, h) PROVE Due(a, i) /\ Due(a, i)'
    <3>1. Laid(a)
      <4>1. a <= alert
        BY <1>2, <1>4, <1>5, <1>8
      <4> QED BY <1>1, <4>1, PlacedLaid
    <3>2. i \in 1 .. Len(Undoing(a)) /\ Len(Undoing(a)) \in Nat /\ i # Len(Undoing(a))
      BY <2>3, <3>1 DEF Removal, Laid
    <3>3. a < Len(Alerts) \/ a = Len(Alerts)
      BY <1>5
    <3>4. Due(a, i)
      BY <1>2, <1>4, <1>6, <1>8, <3>2, <3>3 DEF Due
    <3>5. Due(a, i)'
      <4>1. a > 0
        BY <1>5
      <4> QED BY <1>1, <1>2, <1>8, <4>1 DEF Due
    <3> QED BY <3>4, <3>5
  <2>4. Slots(h)' = Slots(h)
    BY <1>5, <2>2, <2>3 DEF Slots
  <2>5. \A s : Of(s)' = Of(s)
    BY <2>1 DEF Of
  <2> QED BY <1>1, <1>2, <1>8, <2>4, <2>5
<1> QED BY <1>7, <1>8

(* When it comes to the next alert, none more or none less.                *)
LEMMA TurnSlots ==
  ASSUME TypeInv, TreeInv, TypeInv', TreeInv', NextAlert, ~ crashed', NEW h
  PROVE  Slots(h)' = Slots(h) /\ \A s \in Slots(h) : Of(s)' = Of(s)
<1>0. PICK a : a = alert + 1
  OBVIOUS
<1>1. /\ a \in Ids /\ alert' = a /\ ~ crashed /\ calls = <<>>
      /\ UNCHANGED <<policy, world, command, files, history, faults>>
      /\ \A b \in Ids : b # a => alertTree'[b] = alertTree[b]
      /\ command = "place" => /\ Deployable(a, policy) /\ PlacedBy(a, policy)'
                              /\ calls' = placeAlertLocally(a, Best(a, policy))
      /\ command # "place" => /\ alertTree' = alertTree /\ alertTree[a].proxied = {}
                              /\ calls' = revertLocalPlacementOfAlert(a, alertTree[a])
                              /\ \E p \in AllPolicies : Deployable(a, p) /\ PlacedBy(a, p)
  BY <1>0, TreeTurned
<1>2. command # "none" /\ history # <<>> /\ Last(history) = command /\ Last(history') = command /\ history' # <<>>
  BY <1>1 DEF NextAlert, TreeInv
<1>3. alert \in Nat /\ a \in Nat /\ Ids \subseteq Nat /\ Ids' = Ids
  BY <1>1, IdsAre DEF TypeInv, Ids
<1>4. Laid(a)'
  <2>1. a <= alert'
    BY <1>1, <1>3
  <2> QED BY <1>1, <2>1, LaidNext
<1>5. ASSUME NEW b \in Ids, b # a PROVE Undoing(b)' = Undoing(b)
  BY <1>1, <1>5 DEF Undoing, Bare, revertLocalPlacementOfAlert, Described
<1>6. \A b \in Ids : \A i : b # a => (Removal(b, i, h)' <=> Removal(b, i, h))
  BY <1>5 DEF Removal
<1>7. Len(calls) = 0
  BY <1>1
<1>8. ASSUME NEW b \in Ids, b # a, b <= alert PROVE Laid(b)
  BY <1>1, <1>8, PlacedLaid
<1>9. ASSUME Last(history) = "place", NEW s \in Ids \X Nat
      PROVE  /\ s \in Slots(h) => s[1] # a
             /\ s \in Slots(h)' <=> s \in Slots(h)
  <2>1. PICK b \in Ids, i \in Nat : s[1] = b /\ s[2] = i
    OBVIOUS
  <2>2. s \in Slots(h) <=> Removal(b, i, h) /\ (b < alert \/ (b = alert /\ i < Len(Undoing(b)) - 0))
    BY <1>2, <1>7, <1>9, <2>1 DEF Slots, Due
  <2>3. s \in Slots(h)' <=> Removal(b, i, h)' /\ (b < a \/ (b = a /\ i < Len(Undoing(b)') - Len(calls')))
    BY <1>1, <1>2, <1>3, <1>9, <2>1 DEF Slots, Due
  <2>4. s \in Slots(h) => b # a
    BY <1>0, <1>3, <2>2
  <2>5. CASE b = a
    <3>1. Len(calls') = Len(Undoing(a)') /\ Len(Undoing(a)') \in Nat
      <4>1. Bare(a)' = Best(a, policy)
        <5> DEFINE t == Best(a, policy)
        <5>1. t \in TreesOf(N(a), Somewhere) /\ t.proxied = {}
          BY <1>1, BestOf DEF TypeInv
        <5>2. alertTree'[a] = [t EXCEPT !.proxied = ReplacedBelow(t)]
          BY <1>1, <1>2, <1>9 DEF PlacedBy, Best
        <5> HIDE DEF t
        <5>3. [alertTree'[a] EXCEPT !.proxied = {}] = t
          BY <5>1, <5>2 DEF TreesOf
        <5> QED BY <5>3 DEF Bare, t
      <4>2. calls' = Placing(a)'
        BY <1>1, <1>2, <1>9, <4>1 DEF Placing, placeAlertLocally, Described
      <4> QED BY <1>4, <4>2 DEF Laid
    <3>2. ~ (i < Len(Undoing(a)') - Len(calls'))
      BY <3>1
    <3> QED BY <1>3, <2>1, <2>3, <2>4, <2>5, <3>2
  <2>6. CASE b # a
    <3>1. b < a <=> b < alert \/ b = alert
      BY <1>0, <1>3
    <3>2. Removal(b, i, h) /\ b = alert => i < Len(Undoing(b)) - 0
      <4>1. ASSUME Removal(b, i, h), b = alert PROVE i < Len(Undoing(b)) - 0
        <5>1. Laid(b)
          BY <1>3, <1>8, <2>6, <4>1
        <5>2. i \in 1 .. Len(Undoing(b)) /\ Len(Undoing(b)) \in Nat /\ i # Len(Undoing(b))
          BY <4>1, <5>1 DEF Removal, Laid
        <5> QED BY <5>2
      <4> QED BY <4>1
    <3>3. Removal(b, i, h)' <=> Removal(b, i, h)
      BY <1>6, <2>6
    <3>4. s \in Slots(h)' <=> s \in Slots(h)
      BY <2>2, <2>3, <2>6, <3>1, <3>2, <3>3
    <3> QED BY <2>1, <2>4, <3>4
  <2> QED BY <2>1, <2>4, <2>5, <2>6
<1>10. ASSUME Last(history) # "place", NEW s \in Ids \X Nat
       PROVE  s \in Slots(h)' <=> s \in Slots(h)
  <2>0. alertTree' = alertTree /\ policy' = policy
    BY <1>1, <1>2, <1>10
  <2>1. PICK b \in Ids, i \in Nat : s[1] = b /\ s[2] = i
    OBVIOUS
  <2>2. s \in Slots(h) <=> Removal(b, i, h) /\ (b > alert \/ (b = alert /\ i > Len(Undoing(b)) - 0))
    BY <1>2, <1>7, <1>10, <2>1 DEF Slots, Due
  <2>3. s \in Slots(h)' <=> Removal(b, i, h)' /\ (b > a \/ (b = a /\ i > Len(Undoing(b)') - Len(calls')))
    BY <1>1, <1>2, <1>3, <1>10, <2>1 DEF Slots, Due
  <2>4. Undoing(b)' = Undoing(b) /\ (Removal(b, i, h)' <=> Removal(b, i, h))
    BY <2>0, SameLists DEF Removal
  <2>5. Removal(b, i, h) /\ b = alert => ~ (i > Len(Undoing(b)) - 0)
    <3>1. ASSUME Removal(b, i, h), b = alert PROVE ~ (i > Len(Undoing(b)) - 0)
      <4>1. Laid(b)
        <5>1. b # a /\ b <= alert
          BY <1>0, <1>3, <3>1
        <5> QED BY <1>8, <5>1
      <4>2. i \in 1 .. Len(Undoing(b)) /\ Len(Undoing(b)) \in Nat
        BY <3>1, <4>1 DEF Removal, Laid
      <4> QED BY <4>2
    <3> QED BY <3>1
  <2>6. Removal(b, i, h)' /\ b = a => i > Len(Undoing(b)') - Len(calls')
    <3>1. ASSUME Removal(b, i, h)', b = a PROVE i > Len(Undoing(b)') - Len(calls')
      <4>1. calls' = Undoing(a)'
        <5>1. calls' = revertLocalPlacementOfAlert(a, alertTree[a]) /\ alertTree[a].proxied = {}
          BY <1>1, <1>2, <1>10
        <5>2. [alertTree[a] EXCEPT !.proxied = {}] = alertTree[a]
          <6>1. PICK p \in AllPolicies : PlacedBy(a, p)
            BY <1>1, <1>2, <1>10
          <6> DEFINE t == Best(a, p)
                     r == ReplacedBelow(t)
          <6>2. PolicyOK(p)
            BY EveryPolicyOK DEF AllPolicies
          <6>3. t \in TreesOf(N(a), Somewhere)
            BY <1>1, <6>2, BestOf
          <6>4. alertTree[a] = [t EXCEPT !.proxied = r]
            BY <6>1 DEF PlacedBy
          <6> HIDE DEF t, r
          <6> QED BY <5>1, <6>3, <6>4 DEF TreesOf
        <5> QED BY <2>0, <5>1, <5>2, SameLists DEF Undoing, Bare
      <4>2. Len(Undoing(a)') \in Nat /\ i \in 1 .. Len(Undoing(a)')
        BY <1>4, <3>1 DEF Laid, Removal
      <4> QED BY <3>1, <4>1, <4>2
    <3> QED BY <3>1
  <2>7. b > alert <=> b > a \/ b = a
    BY <1>0, <1>3
  <2> QED BY <2>2, <2>3, <2>4, <2>5, <2>6, <2>7
<1>11. \A s : (s \in Slots(h) => s \in Ids \X Nat) /\ (s \in Slots(h)' => s \in Ids \X Nat)
  BY <1>3 DEF Slots
<1>12. Slots(h)' = Slots(h)
  <2>1. \A s \in Ids \X Nat : s \in Slots(h)' <=> s \in Slots(h)
    BY <1>9, <1>10
  <2> QED BY <1>11, <2>1
<1>13. ASSUME NEW s \in Slots(h) PROVE Of(s)' = Of(s)
  <2>1. s \in Ids \X Nat
    BY <1>11
  <2>2. CASE Last(history) = "place"
    <3>1. s[1] # a /\ s[1] \in Ids
      BY <1>9, <2>1, <2>2
    <3> QED BY <1>5, <3>1 DEF Of
  <2>3. CASE Last(history) # "place"
    <3>1. alertTree' = alertTree /\ policy' = policy
      BY <1>1, <1>2, <2>3
    <3> QED BY <3>1, SameLists DEF Of
  <2> QED BY <2>2, <2>3
<1> QED BY <1>12, <1>13

(* The calls that NextAlert leaves are those of the tree that it leaves.   *)
LEMMA TurnCalls ==
  ASSUME TypeInv, TreeInv, NextAlert, ~ crashed', NEW a, a = alert + 1
  PROVE  calls' = IF Last(history) = "place" THEN Placing(a)' ELSE Undoing(a)'
<1>1. /\ a \in Ids /\ alert' = a /\ ~ crashed /\ calls = <<>>
      /\ UNCHANGED <<policy, world, command, files, history, faults>>
      /\ \A b \in Ids : b # a => alertTree'[b] = alertTree[b]
      /\ command = "place" => /\ Deployable(a, policy) /\ PlacedBy(a, policy)'
                              /\ calls' = placeAlertLocally(a, Best(a, policy))
      /\ command # "place" => /\ alertTree' = alertTree /\ alertTree[a].proxied = {}
                              /\ calls' = revertLocalPlacementOfAlert(a, alertTree[a])
                              /\ \E p \in AllPolicies : Deployable(a, p) /\ PlacedBy(a, p)
  BY TreeTurned
<1>2. command # "none" /\ Last(history) = command
  BY <1>1 DEF NextAlert, TreeInv
<1>3. CASE command = "place"
  <2>1. Bare(a)' = Best(a, policy)
    <3> DEFINE t == Best(a, policy)
               r == ReplacedBelow(t)
    <3>1. t \in TreesOf(N(a), Somewhere) /\ t.proxied = {}
      BY <1>1, BestOf DEF TypeInv
    <3>2. alertTree'[a] = [t EXCEPT !.proxied = r]
      BY <1>1, <1>3 DEF PlacedBy, Best
    <3> HIDE DEF t, r
    <3>3. [alertTree'[a] EXCEPT !.proxied = {}] = t
      BY <3>1, <3>2 DEF TreesOf
    <3> QED BY <3>3 DEF Bare, t
  <2>2. calls' = Placing(a)'
    <3>1. PICK t : t = Best(a, policy)
      OBVIOUS
    <3>2. calls' = placeAlertLocally(a, t) /\ Bare(a)' = t /\ policy' = policy
      BY <1>1, <1>3, <2>1, <3>1
    <3> QED BY <3>2 DEF Placing, placeAlertLocally, Described
  <2> QED BY <1>2, <1>3, <2>2
<1>4. CASE command # "place"
  <2>1. PICK p \in AllPolicies : PlacedBy(a, p)
    BY <1>1, <1>4
  <2> DEFINE t == Best(a, p)
             r == ReplacedBelow(t)
  <2>2. PolicyOK(p)
    BY EveryPolicyOK DEF AllPolicies
  <2>3. t \in TreesOf(N(a), Somewhere)
    BY <1>1, <2>2, BestOf
  <2>4. alertTree[a] = [t EXCEPT !.proxied = r]
    BY <2>1 DEF PlacedBy
  <2> HIDE DEF t, r
  <2>5. [alertTree[a] EXCEPT !.proxied = {}] = alertTree[a]
    BY <1>1, <1>4, <2>3, <2>4 DEF TreesOf
  <2>6. calls' = Undoing(a)
    BY <1>1, <1>4, <2>5 DEF Undoing, Bare
  <2>7. Undoing(a)' = Undoing(a)
    BY <1>1, <1>4, SameLists
  <2> QED BY <1>2, <1>4, <2>6, <2>7
<1> QED BY <1>3, <1>4

EndInv == ~ crashed => Ending

LEMMA EndInit == Init => EndInv
BY DEF Init, EndInv, Ending

LEMMA EndDone ==
  ASSUME TypeInv, TreeInv, ~ crashed, calls # <<>>, Ending, Done
  PROVE  Ending'
<1>1. EndOf(Tail(calls), IF Last(history) = "place" THEN Placing(alert) ELSE Undoing(alert))
  BY CallAt
<1>2. UNCHANGED <<alertTree, policy, alert, history>> /\ calls' = Tail(calls)
  BY DEF Done
<1>3. Placing(alert)' = Placing(alert) /\ Undoing(alert)' = Undoing(alert)
  <2>1. \A a : Placing(a)' = Placing(a) /\ Undoing(a)' = Undoing(a)
    BY <1>2, SameLists
  <2> QED BY <1>2 DEF Placing, Undoing, Bare, placeAlertLocally, revertLocalPlacementOfAlert, Described
<1> QED BY <1>1, <1>2, <1>3 DEF Ending

(* Every step of the process but the making of a call.                     *)
Making ==
  /\ ~ crashed /\ ~ crashed' /\ calls # <<>> /\ Done

LEMMA StepIs ==
  ASSUME Next
  PROVE  Crash \/ Start("place") \/ Start("undo") \/ (NextAlert /\ ~ crashed') \/ Finish \/ Making
<1>1. CASE addAlertTree \/ removeAlertTree
  BY <1>1 DEF addAlertTree, removeAlertTree, Making, Doing, Done
<1>2. CASE addRerouteMetricToLocalAlertingSystem \/ restoreInstanceCentralAlertPlacement
  BY <1>2 DEF addRerouteMetricToLocalAlertingSystem, restoreInstanceCentralAlertPlacement, Making, Doing, Done
<1>3. CASE removeRerouteMetricToLocalAlertingSystem
  BY <1>3 DEF removeRerouteMetricToLocalAlertingSystem, Making, Doing, Done, Crash
<1>4. CASE updateInstanceForLocallyPlacedAlert
  BY <1>4 DEF updateInstanceForLocallyPlacedAlert, Making, Doing, Done, Crash
<1>5. CASE NextAlert
  BY <1>5 DEF NextAlert
<1> QED BY <1>1, <1>2, <1>3, <1>4, <1>5 DEF Next

LEMMA EndNext == TypeInv /\ TreeInv /\ TypeInv' /\ TreeInv' /\ EndInv /\ [Next]_vars => EndInv'
<1> SUFFICES ASSUME TypeInv, TreeInv, TypeInv', TreeInv', EndInv, [Next]_vars, ~ crashed' PROVE Ending'
  BY DEF EndInv
<1>1. ASSUME calls' = <<>> PROVE Ending'
  BY <1>1 DEF Ending
<1>2. CASE Start("place") \/ Start("undo")
  BY <1>1, <1>2 DEF Start
<1>3. CASE Finish
  BY <1>1, <1>3 DEF Finish
<1>4. CASE NextAlert
  <2>0. PICK a : a = alert + 1
    OBVIOUS
  <2>1. calls' = IF Last(history) = "place" THEN Placing(a)' ELSE Undoing(a)'
    BY <1>4, <2>0, TurnCalls
  <2>2. alert' = a /\ a \in Ids /\ history' = history
    BY <1>4, <2>0, TreeTurned
  <2>3. Laid(a)'
    <3>1. a <= alert'
      BY <2>2, IdsAre
    <3> QED BY <2>2, <3>1, LaidNext
  <2>4. Len(Placing(a)') = Len(Undoing(a)') /\ Len(Undoing(a)') \in Nat
    BY <2>3 DEF Laid
  <2> DEFINE t == IF Last(history) = "place" THEN Placing(a)' ELSE Undoing(a)'
  <2>5. Len(t) \in Nat
    BY <2>4
  <2> HIDE DEF t
  <2>6. EndOf(t, t)
    BY <2>5 DEF EndOf
  <2>7. EndOf(calls', IF Last(history') = "place" THEN Placing(alert)' ELSE Undoing(alert)')
    <3>1. Placing(alert)' = Placing(a)' /\ Undoing(alert)' = Undoing(a)'
      BY <2>2 DEF Placing, Undoing, Bare, placeAlertLocally, revertLocalPlacementOfAlert, Described
    <3> QED BY <2>1, <2>2, <2>6, <3>1 DEF t
  <2> QED BY <2>7 DEF Ending
<1>5. CASE Making
  BY <1>5, EndDone DEF Making, EndInv
<1>6. CASE UNCHANGED vars
  <2>1. UNCHANGED <<alertTree, policy, alert, history, calls, crashed>>
    BY <1>6 DEF vars
  <2>2. Placing(alert)' = Placing(alert) /\ Undoing(alert)' = Undoing(alert)
    BY <2>1 DEF Placing, Undoing, Bare, placeAlertLocally, revertLocalPlacementOfAlert, Described
  <2> QED BY <2>1, <2>2 DEF EndInv, Ending
<1>7. CASE Crash
  BY <1>7 DEF Crash
<1> QED BY <1>2, <1>3, <1>4, <1>5, <1>6, <1>7, StepIs

-----------------------------------------------------------------------------
(* What is still rerouted.                                                 *)
LEMMA SlotPlaced ==
  ASSUME TypeInv, TreeInv, ~ crashed, InTurn, NEW h, NEW s \in Slots(h)
  PROVE  /\ s[1] \in Ids /\ s[2] \in Nat /\ Removal(s[1], s[2], h)
         /\ \E p \in AllPolicies : Deployable(s[1], p) /\ PlacedBy(s[1], p)
<1> DEFINE a == s[1]
<1>1. a \in Ids /\ s[2] \in Nat /\ Removal(a, s[2], h) /\ Due(a, s[2])
  BY DEF Slots
<1>2. a <= alert \/ Len(history) > 1
  <2>1. CASE Last(history) = "place"
    BY <1>1, <2>1, IdsAre DEF Due, TypeInv
  <2>2. CASE Last(history) # "place"
    <3>1. history # <<>> /\ history \in Seq({"place", "undo"})
      BY <1>1 DEF Due, TypeInv
    <3>2. ASSUME Len(history) = 1 PROVE FALSE
      <4>1. 1 \in DOMAIN history /\ Last(history) = history[1]
        BY <3>1, <3>2 DEF Last
      <4>2. history[1] = "place"
        BY <4>1 DEF InTurn
      <4> QED BY <2>2, <4>1, <4>2
    <3>3. Len(history) \in Nat /\ Len(history) # 0
      BY <3>1
    <3>4. Len(history) > 1
      <4>1. PICK m \in Nat : m = Len(history)
        BY <3>3
      <4>2. m # 1 /\ m # 0
        BY <3>2, <3>3, <4>1
      <4>3. m > 1
        BY <4>2
      <4> QED BY <4>1, <4>3
    <3> QED BY <3>4
  <2> QED BY <2>1, <2>2
<1>3. \/ alertTree[a] = NewTree(N(a)) /\ a > alert /\ Len(history) <= 1
      \/ \E p \in AllPolicies : Deployable(a, p) /\ PlacedBy(a, p)
  BY <1>1 DEF TreeInv
<1>4. ~ (a > alert /\ Len(history) <= 1)
  BY <1>1, <1>2, IdsAre DEF TypeInv
<1> QED BY <1>1, <1>3, <1>4

LEMMA ProxyFrom ==
  ASSUME NEW h \in Hosts, NEW a \in Ids, NEW p \in AllPolicies,
         NEW t \in Range(getLocallyPlaceableAlertTrees(Best(a, p))),
         NEW j \in DOMAIN t.conds, t.conds[j] = <<"proxy", h>>
  PROVE  a \in ProxiedFrom[h]
BY DEF ProxiedFrom, Best, N, AllPolicies

LEMMA WantedIs ==
  ASSUME TypeInv, TreeInv, ~ crashed, InTurn, NEW h \in Hosts, NEW s \in Slots(h)
  PROVE  /\ s[1] \in Ids /\ Of(s) \in Whats(s[1]) /\ Of(s).source = h
         /\ Of(s).proxy = TRUE => s[1] \in ProxiedFrom[h]
<1>1. PICK a \in Ids, i \in Nat : a = s[1] /\ i = s[2] /\ Removal(a, i, h)
  BY SlotPlaced
<1>2. PICK p \in AllPolicies : Deployable(a, p) /\ PlacedBy(a, p)
  BY <1>1, SlotPlaced
<1>3. Bare(a) = Best(a, p) /\ Laid(a)
  BY <1>2, BareIs
<1> DEFINE c == Undoing(a)[i]
           b == Best(a, p)
           trees == getLocallyPlaceableAlertTrees(b)
<1>4. c \in Taken(a, b) /\ c.name = "unroute" /\ c.what.source = h
  BY <1>1, <1>3 DEF Laid, Removal
<1>5. Of(s) = c.what
  BY <1>1 DEF Of
<1> HIDE DEF c
<1>6. c \in CallsFor(a, "undeploy", "unroute", "restore")
  BY <1>4 DEF Taken
<1>7. c.what \in Whats(a)
  BY <1>4, <1>6, CallIs
<1>8. PICK t \in Range(trees) : \E j \in DOMAIN t.conds : c.what = Described(a, b, t.conds[j])
  BY <1>4 DEF Taken
<1>9. PICK j \in DOMAIN t.conds : c.what = Described(a, b, t.conds[j])
  BY <1>8
<1>10. t \in LocalTrees(N(a), Hosts)
  <2>1. PolicyOK(p)
    BY EveryPolicyOK DEF AllPolicies
  <2>2. b \in TreesOf(N(a), Somewhere) /\ b.cond = p[a].cond
    BY <2>1, BestOf
  <2>3. N(a) \in Nat /\ N(a) >= 1
    BY AlertIs
  <2> HIDE DEF b
  <2>4. trees \in Seq(LocalTrees(N(a), Hosts))
    BY <1>2, <2>2, <2>3, LocalType DEF Deployable, Somewhere
  <2>5. \E k \in DOMAIN trees : t = trees[k]
    BY <1>8 DEF Range
  <2> HIDE DEF trees
  <2> QED BY <2>4, <2>5, ElementOf
<1>11. ASSUME c.what.proxy = TRUE PROVE t.conds[j] = <<"proxy", h>>
  <2>1. t.conds \in Seq(Leaves(N(a), Hosts))
    BY <1>10 DEF LocalTrees
  <2>2. t.conds[j] \in Leaves(N(a), Hosts)
    BY <1>9, <2>1
  <2> DEFINE node == t.conds[j]
  <2>3. c.what = Described(a, b, node) /\ node \in Leaves(N(a), Hosts)
    BY <1>9, <2>2
  <2> HIDE DEF node
  <2>4. CASE \E x \in Hosts : node = <<"proxy", x>>
    <3>1. PICK x \in Hosts : node = <<"proxy", x>>
      BY <2>4
    <3>2. Described(a, b, node).source = x
      BY <3>1 DEF Described
    <3>3. x = h
      BY <1>4, <2>3, <3>2
    <3> QED BY <3>1, <3>3 DEF node
  <2>5. CASE \E x \in 1 .. N(a) : node = Cond(x)
    <3>1. PICK x \in 1 .. N(a) : node = Cond(x)
      BY <2>5
    <3>2. node[1] # "proxy"
      BY <3>1 DEF Cond
    <3>3. Described(a, b, node).proxy = FALSE
      BY <3>2 DEF Described
    <3>4. (TRUE = FALSE) = FALSE
      OBVIOUS
    <3> QED BY <1>11, <2>3, <3>3
  <2> QED BY <2>3, <2>4, <2>5 DEF Leaves
<1>12. c.what.proxy = TRUE => a \in ProxiedFrom[h]
  BY <1>8, <1>9, <1>11, ProxyFrom
<1> QED BY <1>1, <1>4, <1>5, <1>7, <1>12

LEMMA OneProxied ==
  ASSUME NEW h \in Hosts, Cardinality(ProxiedFrom[h]) <= 1, NEW a \in ProxiedFrom[h], NEW b \in ProxiedFrom[h]
  PROVE  a = b
<1> DEFINE P == ProxiedFrom[h]
<1>1. P \subseteq Ids
  BY DEF ProxiedFrom
<1>2. IsFiniteSet(P)
  <2>1. IsFiniteSet(1 .. Len(Alerts))
    BY IdsAre, FS_Interval
  <2> HIDE DEF P
  <2> QED BY <1>1, <2>1, IdsAre, FS_Subset
<1>3. ASSUME a # b PROVE FALSE
  <2> HIDE DEF P
  <2>1. IsFiniteSet({a}) /\ Cardinality({a}) = 1
    BY FS_Singleton
  <2>2. IsFiniteSet({a} \cup {b}) /\ Cardinality({a} \cup {b}) = 2
    <3>1. PICK S : S = {a}
      OBVIOUS
    <3>2. IsFiniteSet(S) /\ Cardinality(S) = 1 /\ b \notin S
      BY <1>3, <2>1, <3>1
    <3>3. IsFiniteSet(S \cup {b}) /\ Cardinality(S \cup {b}) = IF b \in S THEN Cardinality(S) ELSE Cardinality(S) + 1
      BY <3>2, FS_AddElement
    <3> QED BY <3>1, <3>2, <3>3
  <2>3. {a} \cup {b} \in SUBSET P
    BY DEF P
  <2>4. Cardinality({a} \cup {b}) <= Cardinality(P)
    BY <1>2, <2>3, FS_Subset
  <2>5. Cardinality(P) \in Nat
    BY <1>2, FS_CardinalityType
  <2> QED BY <2>2, <2>4, <2>5 DEF P
<1> QED BY <1>3

(* An id is that of one measurement.                                       *)
LEMMA OneMeasurement ==
  ASSUME TypeInv, TreeInv, ~ crashed, InTurn, NEW h \in Hosts, Cardinality(ProxiedFrom[h]) <= 1,
         NEW v \in Wanted(h), NEW w \in Wanted(h), v.cepId = w.cepId
  PROVE  v.measurement = w.measurement
<1>1. PICK r \in Slots(h) : v = Of(r)
  BY DEF Wanted
<1>2. PICK s \in Slots(h) : w = Of(s)
  BY DEF Wanted
<1>3. r[1] \in Ids /\ v \in Whats(r[1]) /\ (v.proxy = TRUE => r[1] \in ProxiedFrom[h])
  BY <1>1, WantedIs
<1>4. s[1] \in Ids /\ w \in Whats(s[1]) /\ (w.proxy = TRUE => s[1] \in ProxiedFrom[h])
  BY <1>2, WantedIs
<1>5. PICK a \in Ids : a = r[1]
  BY <1>3
<1>6. PICK b \in Ids : b = s[1]
  BY <1>4
<1>7. Meant(a, v) /\ Meant(b, w)
  BY <1>3, <1>4, <1>5, <1>6 DEF Whats
<1>8. \A x \in Ids : DOMAIN Alerts[x].conds = 1 .. N(x)
  BY AlertIs
<1>9. ASSUME NEW x \in Ids, NEW y \in Ids, NEW i \in 1 .. N(x), NEW j \in 1 .. N(y)
      PROVE  /\ Alerts[x].conds[i].name = Alerts[y].conds[j].name => (x = y /\ i = j)
             /\ Alerts[x].conds[i].name # Null
  <2>1. i \in DOMAIN Alerts[x].conds /\ j \in DOMAIN Alerts[y].conds
    BY <1>8
  <2> QED BY <2>1, NamesAssumption DEF Ids
<1>10. CASE v.proxy = TRUE
  <2>1. v.cepId = Null /\ v.measurement = Alerts[a].id
    <3>1. ~ (v.proxy = FALSE)
      BY <1>10
    <3> QED BY <1>7, <3>1 DEF Meant
  <2>2. ~ \E i \in 1 .. N(b) : w.cepId = Alerts[b].conds[i].name
    BY <1>9, <2>1
  <2>3. w.proxy = TRUE /\ w.measurement = Alerts[b].id
    BY <1>7, <2>2 DEF Meant
  <2>4. a = b
    BY <1>3, <1>4, <1>5, <1>6, <1>10, <2>3, OneProxied
  <2> QED BY <2>1, <2>3, <2>4
<1>11. CASE v.proxy # TRUE
  <2>1. PICK i \in 1 .. N(a) : v.cepId = Alerts[a].conds[i].name /\ v.measurement = Alerts[a].conds[i].measurement
    BY <1>7, <1>11 DEF Meant
  <2>2. w.cepId # Null
    BY <1>9, <2>1
  <2>3. PICK j \in 1 .. N(b) : w.cepId = Alerts[b].conds[j].name /\ w.measurement = Alerts[b].conds[j].measurement
    BY <1>7, <2>2 DEF Meant
  <2>5. Alerts[a].conds[i].name = Alerts[b].conds[j].name
    BY <2>1, <2>3
  <2>4. a = b /\ i = j
    <3> HIDE <2>1, <2>3
    <3> QED BY <1>9, <2>5
  <2> QED BY <2>1, <2>3, <2>4
<1> QED BY <1>10, <1>11

LEMMA NotReserved ==
  ASSUME NEW a \in Ids, NEW w \in Whats(a)
  PROVE  w.cepId \notin Reserved
<1>1. \A i \in 1 .. N(a) : Alerts[a].conds[i].name \notin {"absent", "default", "false", "maybe", Null}
  BY AlertIs, NamesAssumption DEF Ids
<1> QED BY <1>1 DEF Whats, Meant, Reserved, Null

LEMMA WantedSame ==
  ASSUME NEW h, Slots(h)' = Slots(h), \A s \in Slots(h) : Of(s)' = Of(s)
  PROVE  Wanted(h)' = Wanted(h)
BY DEF Wanted

LEMMA WantedMore ==
  ASSUME NEW h, NEW s, Slots(h)' = Slots(h) \union {s}, \A u : Of(u)' = Of(u)
  PROVE  Wanted(h)' = Wanted(h) \union {Of(s)}
BY DEF Wanted

LEMMA WantedLess ==
  ASSUME NEW h, NEW s \in Slots(h), Slots(h)' = Slots(h) \ {s}, \A u : Of(u)' = Of(u)
  PROVE  Wanted(h) \subseteq Wanted(h)' \union {Of(s)} /\ Wanted(h)' \subseteq Wanted(h) /\ Of(s) \in Wanted(h)
<1>1. \A u \in Slots(h) : u \in Slots(h)' \/ u = s
  OBVIOUS
<1>2. \A u \in Slots(h)' : u \in Slots(h)
  OBVIOUS
<1> QED BY <1>1, <1>2 DEF Wanted

(* What a step does to the reroutes of a host: nothing, one more, or one   *)
(* less.                                                                   *)
Saving(h) == running'[h] \in {running[h], config'[h].comps}

Quiet(h) ==
  /\ Slots(h)' = Slots(h) /\ Wanted(h)' = Wanted(h)
  /\ config'[h] = config[h] /\ running'[h] = running[h]

More(h, s, w, url) ==
  /\ s \notin Slots(h) /\ Slots(h)' = Slots(h) \union {s} /\ Wanted(h)' = Wanted(h) \union {w}
  /\ \E a \in Ids : w \in Whats(a)
  /\ config'[h] = rerouteMesurementToCep(config[h], w, url) /\ Saving(h)

Less(h, s, w) ==
  /\ s \in Slots(h) /\ Slots(h)' = Slots(h) \ {s} /\ w = Of(s) /\ w \in Wanted(h)
  /\ Wanted(h) \subseteq Wanted(h)' \union {w} /\ Wanted(h)' \subseteq Wanted(h)
  /\ ~ removeRerouteFails(config[h], w.measurement, w.cepId)
  /\ config'[h] = removeReroute(config[h], w.measurement, w.cepId) /\ Saving(h)

LEMMA SavedAt ==
  ASSUME FileInv, NEW x, NEW new, saveConfig(x, new), NEW h \in Hosts
  PROVE  /\ h = x => config'[h] = new /\ Saving(h)
         /\ h # x => config'[h] = config[h] /\ running'[h] = running[h]
<1>1. config' = [config EXCEPT ![x] = new] /\ DOMAIN config = Hosts /\ DOMAIN running = Hosts
  BY DEF saveConfig, FileInv
<1>2. running' = running \/ running' = [running EXCEPT ![x] = new.comps]
  BY DEF saveConfig
<1>3. /\ h = x => config'[h] = new
      /\ h # x => config'[h] = config[h] /\ running'[h] = running[h]
  BY <1>1, <1>2
<1>4. ASSUME h = x PROVE running'[h] = running[h] \/ running'[h] = new.comps
  BY <1>1, <1>2, <1>4
<1> QED BY <1>3, <1>4 DEF Saving

LEMMA OfSame ==
  ASSUME Done
  PROVE  \A s : Of(s)' = Of(s)
<1>1. UNCHANGED <<alertTree, policy>>
  BY DEF Done
<1> QED BY <1>1, SameLists DEF Of

LEMMA QuietCall ==
  ASSUME TypeInv, TreeInv, ~ crashed, calls # <<>>, Ending, Done,
         Head(calls).name \notin {"reroute", "unroute"}, UNCHANGED <<config, running>>, NEW h
  PROVE  Quiet(h)
<1>1. command \in {"place", "undo"}
  BY CallAt
<1>2. Slots(h)' = Slots(h)
  BY <1>1, PlaceSlots, UndoSlots
<1>3. Wanted(h)' = Wanted(h)
  BY <1>2, OfSame, WantedSame
<1> QED BY <1>2, <1>3 DEF Quiet

LEMMA RerouteCall ==
  ASSUME TypeInv, TreeInv, FileInv, Ending, addRerouteMetricToLocalAlertingSystem, NEW h \in Hosts
  PROVE  Quiet(h) \/ \E s, w : \E url \in Hosts : More(h, s, w, url)
<1> DEFINE x == What.source
           new == rerouteMesurementToCep(config[x], What, Here)
           c == Head(calls)
<1>1. ~ crashed /\ calls # <<>> /\ Done /\ c.name = "reroute" /\ saveConfig(x, new) /\ Doing("reroute")
      /\ What = c.what
  BY DEF addRerouteMetricToLocalAlertingSystem, Doing, What
<1>2. alert \in Ids /\ command = "place" /\ Here \in Hosts /\ What \in Whats(alert)
  BY <1>1, DoingIs DEF TypeInv
<1>3. \A s : Of(s)' = Of(s)
  BY <1>1, OfSame
<1>4. /\ h = x => config'[h] = new /\ Saving(h)
      /\ h # x => config'[h] = config[h] /\ running'[h] = running[h]
  <2> HIDE DEF new, x
  <2> QED BY <1>1, SavedAt
<1>5. CASE h = x
  <2>1. PICK s : s \notin Slots(h) /\ Slots(h)' = Slots(h) \union {s} /\ Of(s) = What
    BY <1>1, <1>2, <1>5, PlaceSlots
  <2>2. Wanted(h)' = Wanted(h) \union {What}
    BY <1>3, <2>1, WantedMore
  <2>3. config'[h] = rerouteMesurementToCep(config[h], What, Here)
    BY <1>4, <1>5
  <2>4. Saving(h)
    BY <1>4, <1>5
  <2>5. \E a \in Ids : What \in Whats(a)
    BY <1>2
  <2>6. More(h, s, What, Here)
    BY <2>1, <2>2, <2>3, <2>4, <2>5 DEF More
  <2> QED BY <1>2, <2>6
<1>6. CASE h # x
  <2>1. Slots(h)' = Slots(h)
    BY <1>1, <1>2, <1>6, PlaceSlots
  <2>2. Wanted(h)' = Wanted(h)
    BY <1>3, <2>1, WantedSame
  <2>3. Quiet(h)
    BY <1>4, <1>6, <2>1, <2>2 DEF Quiet
  <2> QED BY <2>3
<1> QED BY <1>5, <1>6

LEMMA UnrouteCall ==
  ASSUME TypeInv, TreeInv, FileInv, Ending, removeRerouteMetricToLocalAlertingSystem, ~ crashed', NEW h \in Hosts
  PROVE  Quiet(h) \/ \E s, w : Less(h, s, w)
<1> DEFINE x == What.source
           new == removeReroute(config[x], What.measurement, What.cepId)
           c == Head(calls)
<1>1. ~ crashed /\ calls # <<>> /\ Done /\ c.name = "unroute" /\ saveConfig(x, new) /\ Doing("unroute")
      /\ What = c.what /\ ~ removeRerouteFails(config[x], What.measurement, What.cepId)
  BY DEF removeRerouteMetricToLocalAlertingSystem, Doing, What, Crash
<1>2. command = "undo"
  BY <1>1, DoingIs DEF TypeInv
<1>3. \A s : Of(s)' = Of(s)
  BY <1>1, OfSame
<1>4. /\ h = x => config'[h] = new /\ Saving(h)
      /\ h # x => config'[h] = config[h] /\ running'[h] = running[h]
  <2> HIDE DEF new, x
  <2> QED BY <1>1, SavedAt
<1>5. CASE h = x
  <2>1. PICK s \in Slots(h) : Slots(h)' = Slots(h) \ {s} /\ Of(s) = What
    BY <1>1, <1>2, <1>5, UndoSlots
  <2>2. Wanted(h) \subseteq Wanted(h)' \union {What} /\ Wanted(h)' \subseteq Wanted(h) /\ What \in Wanted(h)
    BY <1>3, <2>1, WantedLess
  <2>3. config'[h] = removeReroute(config[h], What.measurement, What.cepId)
        /\ ~ removeRerouteFails(config[h], What.measurement, What.cepId)
    BY <1>1, <1>4, <1>5
  <2>4. Saving(h)
    BY <1>4, <1>5
  <2>5. Less(h, s, What)
    BY <2>1, <2>2, <2>3, <2>4 DEF Less
  <2> QED BY <2>5
<1>6. CASE h # x
  <2>1. Slots(h)' = Slots(h)
    BY <1>1, <1>2, <1>6, UndoSlots
  <2>2. Wanted(h)' = Wanted(h)
    BY <1>3, <2>1, WantedSame
  <2>3. Quiet(h)
    BY <1>4, <1>6, <2>1, <2>2 DEF Quiet
  <2> QED BY <2>3
<1> QED BY <1>5, <1>6

LEMMA InTurnBefore ==
  ASSUME TypeInv, [Next]_vars, InTurn'
  PROVE  InTurn
<1>1. CASE Start("place") \/ Start("undo")
  BY <1>1, TurnOf
<1>2. CASE history' = history
  BY <1>2 DEF InTurn
<1>3. CASE Crash \/ NextAlert \/ Finish \/ Making
  BY <1>2, <1>3 DEF Crash, NextAlert, Finish, Making, Done
<1>4. CASE UNCHANGED vars
  BY <1>2, <1>4 DEF vars
<1> QED BY <1>1, <1>3, <1>4, StepIs

LEMMA StepOnHost ==
  ASSUME TypeInv, TreeInv, TypeInv', TreeInv', FileInv, EndInv, [Next]_vars, InTurn', ~ crashed', NEW h \in Hosts
  PROVE  ~ crashed /\ (Quiet(h) \/ (\E s, w : \E url \in Hosts : More(h, s, w, url)) \/ (\E s, w : Less(h, s, w)))
<1>1. CASE Start("place")
  <2>1. ~ crashed /\ UNCHANGED <<config, running>>
    BY <1>1 DEF Start, world
  <2>2. Slots(h)' = Slots(h) /\ Slots(h) = {}
    BY <1>1, StartSlots
  <2>3. Wanted(h)' = Wanted(h)
    BY <2>2, WantedSame
  <2> QED BY <2>1, <2>2, <2>3 DEF Quiet
<1>2. CASE Start("undo")
  <2>1. ~ crashed /\ UNCHANGED <<config, running>>
    BY <1>2 DEF Start, world
  <2>2. Slots(h)' = Slots(h) /\ \A s : Of(s)' = Of(s)
    BY <1>2, StartSlots
  <2>3. Wanted(h)' = Wanted(h)
    BY <2>2, WantedSame
  <2> QED BY <2>1, <2>2, <2>3 DEF Quiet
<1>3. CASE NextAlert
  <2>1. ~ crashed /\ UNCHANGED <<config, running>>
    BY <1>3 DEF NextAlert, Crash, world
  <2>2. Slots(h)' = Slots(h) /\ \A s \in Slots(h) : Of(s)' = Of(s)
    BY <1>3, TurnSlots
  <2>3. Wanted(h)' = Wanted(h)
    BY <2>2, WantedSame
  <2> QED BY <2>1, <2>2, <2>3 DEF Quiet
<1>4. ASSUME UNCHANGED <<policy, alertTree, config, running, alert, calls, history, crashed>>
      PROVE  ~ crashed /\ Quiet(h)
  <2>1. \A a : Undoing(a)' = Undoing(a)
    BY <1>4, SameLists
  <2>2. \A a, i : (Removal(a, i, h)' <=> Removal(a, i, h)) /\ (Due(a, i)' <=> Due(a, i))
    BY <1>4, <2>1 DEF Removal, Due
  <2>3. Slots(h)' = Slots(h)
    BY <2>2 DEF Slots, Ids
  <2>4. \A s : Of(s)' = Of(s)
    BY <2>1 DEF Of
  <2>5. Wanted(h)' = Wanted(h)
    BY <2>3, <2>4, WantedSame
  <2> QED BY <1>4, <2>3, <2>5 DEF Quiet
<1>5. CASE Finish
  BY <1>4, <1>5 DEF Finish, world
<1>6. CASE UNCHANGED vars
  BY <1>4, <1>6 DEF vars, world
<1>7. CASE addAlertTree \/ removeAlertTree
  <2>1. ~ crashed /\ calls # <<>> /\ Done /\ Head(calls).name \notin {"reroute", "unroute"} /\ UNCHANGED <<config, running>>
    BY <1>7 DEF addAlertTree, removeAlertTree, Doing
  <2> QED BY <2>1, QuietCall DEF EndInv
<1>8. CASE updateInstanceForLocallyPlacedAlert
  <2>1. ~ crashed /\ calls # <<>> /\ Done /\ Head(calls).name \notin {"reroute", "unroute"} /\ UNCHANGED <<config, running>>
    BY <1>8 DEF updateInstanceForLocallyPlacedAlert, Doing, Crash
  <2> QED BY <2>1, QuietCall DEF EndInv
<1>9. CASE restoreInstanceCentralAlertPlacement
  <2>1. ~ crashed /\ calls # <<>> /\ Done /\ Head(calls).name \notin {"reroute", "unroute"} /\ UNCHANGED <<config, running>>
    BY <1>9 DEF restoreInstanceCentralAlertPlacement, Doing, world
  <2> QED BY <2>1, QuietCall DEF EndInv
<1>10. CASE addRerouteMetricToLocalAlertingSystem
  <2>1. ~ crashed
    BY <1>10 DEF addRerouteMetricToLocalAlertingSystem, Doing
  <2> QED BY <1>10, <2>1, RerouteCall DEF EndInv
<1>11. CASE removeRerouteMetricToLocalAlertingSystem
  <2>1. ~ crashed
    BY <1>11 DEF removeRerouteMetricToLocalAlertingSystem, Doing
  <2> QED BY <1>11, <2>1, UnrouteCall DEF EndInv
<1> QED BY <1>1, <1>2, <1>3, <1>5, <1>6, <1>7, <1>8, <1>9, <1>10, <1>11 DEF Next

-----------------------------------------------------------------------------
(* numberOfReroutes is the number of removals to come, and what an agent   *)
(* has is what they take away.                                             *)
CountInv ==
  ~ crashed /\ InTurn =>
    \A h \in Hosts : IsFiniteSet(Slots(h)) /\ config[h].reroutes = Cardinality(Slots(h))

Ordinary(h) == Cardinality(ProxiedFrom[h]) <= 1 /\ Unfiltered(files[h])

RouteInv ==
  InTurn => \A h \in Hosts : Ordinary(h) =>
    /\ ~ crashed => Routes(config[h], Wanted(h))
    /\ Routable(running[h])

LEMMA FirstlyOff ==
  ASSUME Init, NEW h \in Hosts, Unfiltered(files[h])
  PROVE  AllOff(files[h])
<1>1. files[h] \in Seq(Component(STRING))
  BY FilesAssumption DEF Init
<1>2. DOMAIN files[h] = 1 .. Len(files[h])
  BY <1>1
<1> QED BY <1>2 DEF Unfiltered, AllOff, OffOwn

LEMMA CountInit == Init => CountInv /\ RouteInv
<1> SUFFICES ASSUME Init PROVE CountInv /\ RouteInv
  OBVIOUS
<1>1. /\ history = <<>> /\ running = files
      /\ \A h \in Hosts : config[h].comps = files[h] /\ config[h].reroutes = 0
  BY DEF Init
<1>2. \A h : Slots(h) = {}
  BY <1>1 DEF Slots, Due
<1>3. CountInv
  BY <1>1, <1>2, FS_EmptySet DEF CountInv
<1>4. ASSUME NEW h \in Hosts, Ordinary(h) PROVE Routes(config[h], Wanted(h)) /\ Routable(running[h])
  <2>1. AllOff(files[h])
    BY <1>4, FirstlyOff DEF Ordinary
  <2>2. config[h].reroutes < 1
    BY <1>1
  <2> QED BY <1>1, <2>1, <2>2 DEF Routes, Routable
<1> QED BY <1>3, <1>4 DEF RouteInv

LEMMA CountNext ==
  ASSUME TypeInv, TreeInv, TypeInv', TreeInv', FileInv, EndInv, CountInv, [Next]_vars
  PROVE  CountInv'
<1> SUFFICES ASSUME ~ crashed', InTurn', NEW h \in Hosts
             PROVE  IsFiniteSet(Slots(h))' /\ (config[h].reroutes = Cardinality(Slots(h)))'
  BY DEF CountInv
<1>1. InTurn
  BY InTurnBefore
<1>2. ~ crashed /\ (Quiet(h) \/ (\E s, w : \E url \in Hosts : More(h, s, w, url)) \/ (\E s, w : Less(h, s, w)))
  BY StepOnHost
<1>3. IsFiniteSet(Slots(h)) /\ config[h].reroutes = Cardinality(Slots(h)) /\ Cardinality(Slots(h)) \in Nat
  <2>1. IsFiniteSet(Slots(h)) /\ config[h].reroutes = Cardinality(Slots(h))
    BY <1>1, <1>2 DEF CountInv
  <2> QED BY <2>1, FS_CardinalityType
<1>4. CASE Quiet(h)
  <2>1. Slots(h)' = Slots(h) /\ config'[h] = config[h]
    BY <1>4 DEF Quiet
  <2> QED BY <1>3, <2>1
<1>5. CASE \E s, w : \E url \in Hosts : More(h, s, w, url)
  <2>1. PICK s, w, url : More(h, s, w, url)
    BY <1>5
  <2>2. s \notin Slots(h) /\ Slots(h)' = Slots(h) \union {s} /\ config'[h].reroutes = config[h].reroutes + 1
    BY <2>1 DEF More, rerouteMesurementToCep
  <2>3. PICK S : S = Slots(h)
    OBVIOUS
  <2>4. /\ IsFiniteSet(S \cup {s})
        /\ Cardinality(S \cup {s}) = IF s \in S THEN Cardinality(S) ELSE Cardinality(S) + 1
    BY <1>3, <2>3, FS_AddElement
  <2> QED BY <1>3, <2>2, <2>3, <2>4
<1>6. CASE \E s, w : Less(h, s, w)
  <2>1. PICK s, w : Less(h, s, w)
    BY <1>6
  <2>2. s \in Slots(h) /\ Slots(h)' = Slots(h) \ {s} /\ config'[h].reroutes = config[h].reroutes - 1
    <3>1. /\ s \in Slots(h) /\ Slots(h)' = Slots(h) \ {s}
          /\ config'[h] = removeReroute(config[h], w.measurement, w.cepId)
      BY <2>1 DEF Less
    <3>2. \A conf, m, c : removeReroute(conf, m, c).reroutes = conf.reroutes - 1
      BY DEF removeReroute
    <3> QED BY <3>1, <3>2
  <2>3. PICK S : S = Slots(h)
    OBVIOUS
  <2>4. /\ IsFiniteSet(S \ {s})
        /\ Cardinality(S \ {s}) = IF s \in S THEN Cardinality(S) - 1 ELSE Cardinality(S)
    BY <1>3, <2>3, FS_RemoveElement
  <2> QED BY <1>3, <2>2, <2>3, <2>4
<1> QED BY <1>2, <1>4, <1>5, <1>6

LEMMA FreeIds ==
  ASSUME TypeInv, TreeInv, ~ crashed, InTurn, NEW h \in Hosts
  PROVE  \A w \in Wanted(h) : w.cepId \notin Reserved
<1> SUFFICES ASSUME NEW w \in Wanted(h) PROVE w.cepId \notin Reserved
  OBVIOUS
<1>1. PICK s \in Slots(h) : w = Of(s)
  BY DEF Wanted
<1>2. s[1] \in Ids /\ w \in Whats(s[1])
  BY <1>1, WantedIs
<1> QED BY <1>2, NotReserved

LEMMA RouteStep ==
  ASSUME TypeInv, TreeInv, TypeInv', TreeInv', FileInv, EndInv, CountInv, RouteInv, [Next]_vars,
         InTurn', ~ crashed', NEW h \in Hosts, Ordinary(h)
  PROVE  Routes(config'[h], Wanted(h)') /\ Routable(running'[h])
<1>1. InTurn
  BY InTurnBefore
<1>2. ~ crashed /\ (Quiet(h) \/ (\E s, w : \E url \in Hosts : More(h, s, w, url)) \/ (\E s, w : Less(h, s, w)))
  BY StepOnHost
<1>3. Routes(config[h], Wanted(h)) /\ Routable(running[h])
  BY <1>1, <1>2 DEF RouteInv
<1>4. \A w \in Wanted(h) : w.cepId \notin Reserved
  BY <1>1, <1>2, FreeIds
<1>5. /\ IsFiniteSet(Slots(h)) /\ config[h].reroutes = Cardinality(Slots(h))
      /\ config[h].reroutes \in Nat
  <2>1. IsFiniteSet(Slots(h)) /\ config[h].reroutes = Cardinality(Slots(h))
    BY <1>1, <1>2 DEF CountInv
  <2> QED BY <2>1, FS_CardinalityType
<1>6. PICK D : Good(D, config[h].comps)
  BY DEF FileInv, Faithful
<1>7. PICK conf : conf = config[h]
  OBVIOUS
<1>8. PICK W : W = Wanted(h)
  OBVIOUS
<1>9. Routes(conf, W) /\ (\A w \in W : w.cepId \notin Reserved) /\ conf.reroutes \in Nat /\ Good(D, conf.comps)
  BY <1>3, <1>4, <1>5, <1>6, <1>7, <1>8
<1>10. CASE Quiet(h)
  <2>1. config'[h] = config[h] /\ running'[h] = running[h] /\ Wanted(h)' = Wanted(h)
    BY <1>10 DEF Quiet
  <2> QED BY <1>3, <2>1
<1>11. ASSUME Saving(h), Routes(config'[h], Wanted(h)'), \A w \in Wanted(h)' : w.cepId \notin Reserved
       PROVE  Routable(running'[h])
  <2>1. Routable(config'[h].comps)
    BY <1>11, RoutesRoutable
  <2> QED BY <1>3, <1>11, <2>1 DEF Saving
<1>12. CASE \E s, w : \E url \in Hosts : More(h, s, w, url)
  <2>0. PICK s, w : \E url \in Hosts : More(h, s, w, url)
    BY <1>12
  <2>1. PICK url \in Hosts : More(h, s, w, url)
    BY <2>0
  <2>2. /\ Wanted(h)' = W \union {w} /\ config'[h] = rerouteMesurementToCep(conf, w, url) /\ Saving(h)
        /\ \E a \in Ids : w \in Whats(a)
    BY <1>7, <1>8, <2>1 DEF More
  <2>3. w.cepId \notin Reserved
    BY <2>2, NotReserved
  <2>4. Routes(rerouteMesurementToCep(conf, w, url), W \union {w})
    BY <1>9, RerouteKeeps
  <2>5. Routes(config'[h], Wanted(h)') /\ \A v \in Wanted(h)' : v.cepId \notin Reserved
    BY <1>9, <2>2, <2>3, <2>4
  <2> QED BY <1>11, <2>2, <2>5
<1>13. CASE \E s, w : Less(h, s, w)
  <2>1. PICK s, w : Less(h, s, w)
    BY <1>13
  <2>2. PICK X : X = Wanted(h)'
    OBVIOUS
  <2>3. /\ s \in Slots(h) /\ w = Of(s) /\ w \in W /\ W \subseteq X \union {w} /\ X \subseteq W
        /\ ~ removeRerouteFails(conf, w.measurement, w.cepId)
        /\ config'[h] = removeReroute(conf, w.measurement, w.cepId) /\ Saving(h)
    BY <1>7, <1>8, <2>1, <2>2 DEF Less
  <2>4. conf.reroutes # 0 /\ (conf.reroutes = 1 => W = {w})
    <3>1. PICK S : S = Slots(h)
      OBVIOUS
    <3>2. IsFiniteSet(S) /\ conf.reroutes = Cardinality(S) /\ s \in S
      BY <1>5, <1>7, <2>3, <3>1
    <3>3. Cardinality(S) # 0
      BY <3>2, FS_EmptySet
    <3>4. Cardinality(S) = 1 => S = {s}
      <4>1. Cardinality(S) = 1 => \E y : S = {y}
        BY <3>2, FS_Singleton
      <4> QED BY <3>2, <4>1
    <3>5. S = {s} => W = {w}
      BY <1>8, <2>3, <3>1 DEF Wanted
    <3> QED BY <3>2, <3>3, <3>4, <3>5
  <2>5. \A v \in W : v.cepId = w.cepId => v.measurement = w.measurement
    BY <1>1, <1>2, <1>8, <2>3, OneMeasurement DEF Ordinary
  <2>n. w.measurement \in Names /\ w.cepId \in CepIds
    <3>1. s[1] \in Ids /\ w \in Whats(s[1])
      BY <1>1, <1>2, <2>3, WantedIs
    <3> QED BY <3>1, WhatIs
  <2>6. Routes(removeReroute(conf, w.measurement, w.cepId), X)
    BY <1>9, <2>3, <2>4, <2>5, <2>n, RemoveKeeps
  <2>7. Routes(config'[h], Wanted(h)') /\ \A v \in Wanted(h)' : v.cepId \notin Reserved
    BY <1>9, <2>2, <2>3, <2>6
  <2> QED BY <1>11, <2>3, <2>7
<1> QED BY <1>2, <1>10, <1>12, <1>13

LEMMA RouteNext ==
  ASSUME TypeInv, TreeInv, TypeInv', TreeInv', FileInv, EndInv, CountInv, RouteInv, [Next]_vars
  PROVE  RouteInv'
<1> SUFFICES ASSUME InTurn', NEW h \in Hosts, Ordinary(h)'
             PROVE  (~ crashed' => Routes(config'[h], Wanted(h)')) /\ Routable(running'[h])
  BY DEF RouteInv
<1>1. InTurn
  BY InTurnBefore
<1>2. files' = files
  BY DEF Next, Start, NextAlert, Crash, Finish, addAlertTree, removeAlertTree,
         addRerouteMetricToLocalAlertingSystem, removeRerouteMetricToLocalAlertingSystem,
         updateInstanceForLocallyPlacedAlert, restoreInstanceCentralAlertPlacement, Done, vars
<1>3. Ordinary(h)
  BY <1>2 DEF Ordinary, ProxiedFrom, Ids
<1>4. CASE ~ crashed'
  BY <1>3, <1>4, RouteStep
<1>5. CASE crashed'
  <2>1. running' = running
    <3>1. CASE UNCHANGED vars
      BY <3>1 DEF vars, world
    <3>2. CASE Next
      <4>1. Start("place") \/ Start("undo") \/ Finish \/ Making => ~ crashed'
        BY DEF Start, Finish, Making
      <4>2. Crash
        BY <1>5, <3>2, <4>1, StepIs
      <4> QED BY <4>2 DEF Crash, world
    <3> QED BY <3>1, <3>2
  <2> QED BY <1>1, <1>3, <1>5, <2>1 DEF RouteInv
<1> QED BY <1>4, <1>5

(* While places and undos take turns, an agent never loses a metric        *)
(* between its filters, for any number of hosts, alerts, policies,         *)
(* commands and failing calls: numberOfReroutes is the number of the       *)
(* removals that are still to come, so that the defaults go with the last  *)
(* of them, and a removal takes what its reroute added and leaves what the *)
(* others did.  This is of files whose plugins have no filters, and of     *)
(* hosts that the proxies of one alert at most have metrics from.          *)
THEOREM MetricsNeverStranded == Spec => []NoMetricStranded
<1>1. FileInv /\ RouteInv => NoMetricStranded
  <2> SUFFICES ASSUME FileInv, RouteInv, InTurn, NEW h \in Hosts, Ordinary(h), Parses(running[h])
               PROVE  RoutesWell(running[h], Names)
    BY DEF NoMetricStranded, Ordinary
  <2>1. PICK D : Good(D, running[h])
    BY DEF FileInv, Faithful
  <2>2. running[h] \in Seq(Component(D))
    BY <2>1 DEF Good
  <2>3. Routable(running[h])
    BY DEF RouteInv
  <2> QED BY <2>2, <2>3, RoutableRoutes
<1>2. TypeInv /\ TreeInv /\ TypeInv' /\ TreeInv' /\ FileInv /\ EndInv /\ CountInv /\ RouteInv /\ [Next]_vars
        => CountInv' /\ RouteInv'
  BY CountNext, RouteNext
<1> QED BY TypeInit, TypeNext, FileInit, FileNext, TreeInit, TreeNext, EndInit, EndNext, CountInit,
           <1>1, <1>2, PTL DEF Spec

=============================================================================

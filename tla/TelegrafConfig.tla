--------------------------- MODULE TelegrafConfig ---------------------------
(***************************************************************************)
(* The agent's configuration file as the mapper sees it: a list of         *)
(* components, of which the ones of kind "default" are comments and blank  *)
(* lines.  rerouteMesurementToCep and removeReroute change it; both are    *)
(* given as operators on a record of the list and numberOfReroutes.        *)
(*                                                                         *)
(* Of a plugin's options the model keeps those that the two look at:       *)
(*   names    the measurement in namepass                                  *)
(*   to       the host in the url of an http output                        *)
(*   tags     what its tags tables say of to_cep, "absent" for a table     *)
(*            that is silent                                               *)
(*   pass     what its tagpass tables pass of to_cep: a cepId, "default"   *)
(*            for false and maybe with aggregated, "absent" for a table    *)
(*            that is silent of one of the two                             *)
(*   passLast whether the user's last table is a tagpass                   *)
(*   drop     its tagdrop table: "none", "aggregated" or "false", the      *)
(*            value of aggregated or of to_cep that it drops               *)
(*   exclude  its tagexclude option: "none", "own" or "default"            *)
(*            (createCepHttpOutputPlugin's own option, or the default)      *)
(* and, as a history that no code looks at,                                *)
(*   user     whether the user wrote it                                    *)
(***************************************************************************)
EXTENDS Integers, Sequences, SequencesExt, FiniteSetsExt

PluginTypes == {"output", "processor", "aggregator", "input"}

Spacer    == [kind |-> "default"]
Header(t) == [kind |-> "header", type |-> t]

(* The components of a file, with texts from D.                            *)
Component(D) ==
  {Spacer} \union {Header(t) : t \in PluginTypes} \union
  [kind : {"plugin"}, type : PluginTypes, name : D, names : D, to : D,
   tags : Seq(D), pass : Seq(D), passLast : BOOLEAN,
   drop : {"none", "aggregated", "false"},
   exclude : {"none", "own", "default"}, user : BOOLEAN]

IsPlugin(c)       == c.kind = "plugin"
IsOfType(c, t)    == c.kind # "default" /\ c.type = t
IsPluginOf(c, t)  == IsPlugin(c) /\ c.type = t

(* What the parser makes of any file: with a plugin it adds the lines      *)
(* before it and the blank lines behind it as components of their own, and *)
(* so it does at the end of the file.                                      *)
FromParser(comps) ==
  /\ comps # <<>> /\ Last(comps) = Spacer
  /\ \A i \in DOMAIN comps :
       IsPlugin(comps[i]) => /\ i > 1 /\ comps[i - 1] = Spacer /\ comps[i + 1] = Spacer
                             /\ comps[i].user

Plugin(t, name) ==
  [kind |-> "plugin", type |-> t, name |-> name, names |-> "", to |-> "",
   tags |-> <<>>, pass |-> <<>>, passLast |-> FALSE, drop |-> "none",
   exclude |-> "none", user |-> FALSE]

createBackloopHttpListenerInputPlugin ==
  [Plugin("input", "backloop") EXCEPT !.tags = <<"false">>]

createOverrideProcessorPlugin(measurement, cepId, proxy) ==
  [Plugin("processor", "override") EXCEPT
     !.names = measurement, !.tags = <<cepId>>,
     !.drop = IF proxy THEN "none" ELSE "false"]

createBasicStatsAggregatorPlugin(measurement, cepId) ==
  [Plugin("aggregator", "basicstats") EXCEPT !.names = measurement,
                                             !.pass = <<cepId>>]

createCepHttpOutputPlugin(cepId, url) ==
  [Plugin("output", "http") EXCEPT !.to = url, !.pass = <<cepId>>,
                                   !.drop = "aggregated", !.exclude = "own"]

(* Mutant: the plugin comes without a spacer.                              *)
addPlugin_noSpacer(comps, p) ==
  LET n    == Len(comps)
      here == {i \in 1 .. n - 1 : IsOfType(comps[i], p.type)}
  IN  InsertAt(comps, IF here = {} THEN n ELSE Min(here) + 1, p)

(* Mutant: a plugin without a section goes to the very end of the file.    *)
addPlugin_atEnd(comps, p) ==
  LET here == {i \in 1 .. Len(comps) - 1 : IsOfType(comps[i], p.type)}
  IN  IF here = {} THEN comps \o <<Spacer, p>>
      ELSE InsertAt(InsertAt(comps, Min(here) + 1, Spacer), Min(here) + 1, p)

(* After the first component of the section, with a spacer behind it; or,  *)
(* if the file ends first, before its last component, and then the spacer  *)
(* comes first.                                                            *)
addPlugin(comps, p) ==
  LET n    == Len(comps)
      here == {i \in 1 .. n - 1 : IsOfType(comps[i], p.type)}
  IN  IF here = {}
      THEN InsertAt(InsertAt(comps, n, Spacer), n + 1, p)
      ELSE InsertAt(InsertAt(comps, Min(here) + 1, Spacer), Min(here) + 1, p)

(* Mutant: the filter of an output comes behind those that it has.         *)
addTagpass_last(p) == Append(p.pass, "default")

(* addSubComponent puts a table before a tagpass or tagdrop that is last.  *)
addTagpass(p) ==
  IF p.passLast /\ p.pass # <<>> THEN InsertAt(p.pass, Len(p.pass), "default")
                                ELSE Append(p.pass, "default")

(* What every input and output gets as soon as there is a reroute: a tag   *)
(* to_cep = maybe, and the filters that keep rerouted metrics out.         *)
addDefaults(comps) ==
  [i \in DOMAIN comps |->
     CASE IsPluginOf(comps[i], "input") ->
            [comps[i] EXCEPT !.tags = Append(@, "maybe")]
       [] IsPluginOf(comps[i], "output") ->
            [comps[i] EXCEPT !.exclude = "default",
                             !.pass = addTagpass(comps[i])]
       [] OTHER -> comps[i]]

(* cond.aggregates: its policy has an interval and a method.               *)
rerouteMesurementToCep(conf, cond, url) ==
  LET once == IF conf.reroutes < 1
              THEN addPlugin(addDefaults(conf.comps),
                             createBackloopHttpListenerInputPlugin)
              ELSE conf.comps
      over == addPlugin(once, createOverrideProcessorPlugin(
                               cond.measurement, cond.cepId, cond.proxy))
      aggr == IF ~ cond.proxy /\ cond.aggregates
              THEN addPlugin(over, createBasicStatsAggregatorPlugin(
                                     cond.measurement, cond.cepId))
              ELSE over
  IN  [comps    |-> addPlugin(aggr, createCepHttpOutputPlugin(cond.cepId, url)),
       reroutes |-> conf.reroutes + 1]

-----------------------------------------------------------------------------
(* getSubComponentByName: the first table of that name.                    *)
FirstTable(s) == IF s = <<>> THEN "none" ELSE Head(s)

hasTagpassForToCepId(cepId, p) == Contains(p.pass, cepId)

(* The plugins of this reroute: but every override of the measurement goes, *)
(* whichever condition it was made for.                                    *)
MustGo(p, measurement, cepId, last) ==
  \/ IsPluginOf(p, "output") /\ p.name = "http" /\ hasTagpassForToCepId(cepId, p)
  \/ IsPluginOf(p, "aggregator") /\ p.name = "basicstats"
                                 /\ hasTagpassForToCepId(cepId, p)
  \/ IsPluginOf(p, "processor") /\ p.name = "override" /\ p.names = measurement
  \/ IsPluginOf(p, "input") /\ p.name = "backloop" /\ last

(* The first tags table of an input is asked for to_cep, and so is the     *)
(* first tagpass of an output; if it is a table of the user's that has no  *)
(* such option, there is nothing to ask.                                   *)
HasNoTagToAskFor(p) ==
  \/ IsPluginOf(p, "input") /\ FirstTable(p.tags) = "absent"
  \/ IsPluginOf(p, "output") /\ p.exclude = "default" /\ FirstTable(p.pass) = "absent"

(* Mutant: the tag of the inputs stays.                                    *)
reset_outputs(p) ==
  IF IsPluginOf(p, "output") /\ p.exclude = "default" /\ FirstTable(p.pass) = "default"
  THEN [p EXCEPT !.exclude = "none", !.pass = Tail(@)] ELSE p

(* The defaults are taken away again: one of each.                         *)
reset(p) ==
  CASE IsPluginOf(p, "output") /\ p.exclude = "default"
                               /\ FirstTable(p.pass) = "default" ->
         [p EXCEPT !.exclude = "none", !.pass = Tail(@)]
    [] IsPluginOf(p, "input") /\ FirstTable(p.tags) = "maybe" ->
         [p EXCEPT !.tags = Tail(@)]
    [] OTHER -> p

(* configComponents.remove(i), for the plugin and for its spacer.          *)
removeTwice(comps, i) == RemoveAt(RemoveAt(comps, i), i)

(* The loop goes from the last component to the first, so that a removal   *)
(* does not move those it has still to look at.                            *)
removeReroute(conf, measurement, cepId) ==
  LET last == conf.reroutes - 1 < 1
      n    == Len(conf.comps)
      loop[k \in 0 .. n] ==
        IF k = 0 THEN conf.comps
        ELSE LET rest == loop[k - 1]
                 i    == n + 1 - k
             IN  IF ~ IsPlugin(rest[i]) THEN rest
                 ELSE IF MustGo(rest[i], measurement, cepId, last) THEN removeTwice(rest, i)
                 ELSE IF last THEN [rest EXCEPT ![i] = reset(@)]
                 ELSE rest
  IN  [comps |-> loop[n], reroutes |-> conf.reroutes - 1]

(* The last removeReroute comes to such a plugin and the process ends      *)
(* there.                                                                  *)
removeRerouteFails(conf, measurement, cepId) ==
  conf.reroutes - 1 < 1 /\ \E i \in DOMAIN conf.comps :
    /\ IsPlugin(conf.comps[i]) /\ HasNoTagToAskFor(conf.comps[i])
    /\ ~ MustGo(conf.comps[i], measurement, cepId, TRUE)

-----------------------------------------------------------------------------
(* The file without its blank lines and comments.                          *)
Significant(comps) == SelectSeq(comps, LAMBDA c : c.kind # "default")

(* The names that the mapper's own plugins have.                           *)
Added == {"http", "basicstats", "override", "backloop"}
=============================================================================

------------------------------- MODULE Mapper -------------------------------
(***************************************************************************)
(* The mapper process.  It reads commands: place puts every alert of the   *)
(* central system (Grafana) on the hosts that its policy names, undo takes  *)
(* them back.  For every alert it makes a list of calls on its plugins:    *)
(* deploy or remove a statement in the alerting system of a host (Esper),  *)
(* add or remove a reroute in the configuration of an agent (Telegraf),    *)
(* and update or restore the panel of the alert.  The calls go to other    *)
(* machines and may fail; the results are ignored.                         *)
(*                                                                         *)
(* A fault of an agent call is a copy or a restart that failed: the agent  *)
(* keeps running with the configuration it had.                            *)
(***************************************************************************)
EXTENDS Routing, AlertTree

CONSTANTS
  Hosts,        \* the machines with an agent and an alerting system
  Alerts,       \* the alerts, a sequence of records of an id and conditions,
                \* which have a name, sources, a measurement and a query
  Policies,     \* what the user may write to the policy file: for every alert
                \* a record of the hosts of its conditions and operators and
                \* of the conditions that are aggregated
  Files,        \* the configurations that the agents may start with, one for
                \* every host
  MaxCommands,  \* bound: commands given
  MaxFaults     \* bound: calls that fail

ASSUME BoundsAssumption == MaxCommands \in Nat /\ MaxFaults \in Nat

(* Files that the mapper's parser has read.                                *)
ASSUME FilesAssumption ==
  \A file \in Files : /\ file \in [Hosts -> Seq(Component(STRING))]
                      /\ \A h \in Hosts : FromParser(file[h])

(* There is an agent and an alerting system on every host that a condition *)
(* has its metrics from or that a policy names; "" is no host's name.      *)
ASSUME AlertsAssumption ==
  /\ Nowhere \notin Hosts /\ Null \notin Hosts
  /\ Alerts \in Seq([id : STRING,
                     conds : Seq([name : STRING, sources : Seq(Hosts),
                                  measurement : STRING, query : STRING])])
  /\ \A a \in DOMAIN Alerts :
       /\ Alerts[a].conds # <<>>
       /\ \A i \in DOMAIN Alerts[a].conds : Alerts[a].conds[i].sources # <<>>

ASSUME PoliciesAssumption ==
  \A p \in Policies : \A a \in DOMAIN Alerts :
    /\ p[a].cond \in [DOMAIN Alerts[a].conds -> Hosts \union {Nowhere}]
    /\ p[a].op   \in [DOMAIN Alerts[a].conds -> Hosts \union {Nowhere}]

(* The id of the alert, a separator and a number: the name of a condition  *)
(* is its own, and none of the values that the mapper's filters know.      *)
ASSUME NamesAssumption ==
  \A a, b \in DOMAIN Alerts :
    \A i \in DOMAIN Alerts[a].conds : \A j \in DOMAIN Alerts[b].conds :
      /\ Alerts[a].conds[i].name = Alerts[b].conds[j].name => a = b /\ i = j
      /\ Alerts[a].conds[i].name \notin {"absent", "default", "false", "maybe", Null}

VARIABLES
  policy,       \* alertPolices
  alertTree,    \* the tree of every alert
  timed,        \* the operators of every alert that have a time window
  config,       \* what the mapper knows of the configuration of every agent
  running,      \* the configuration every agent runs with
  statements,   \* the statements of every alerting system, by name
  panel,        \* the panels of the dashboard, as the mapper has them
  server,       \* ... and as Grafana has them
  saved,        \* savedAlertConditions
  command,      \* the command being executed, or none
  alert,        \* the alert that it is at
  calls,        \* the calls on the plugins still to be made for this alert
  crashed,      \* an exception ended the process
  files,        \* history: the configurations that the agents started with
  history,      \* history: the commands given
  faults        \* history: how many calls of each command failed

world == <<config, running, statements, panel, server, saved>>
vars  == <<policy, alertTree, timed, world, command, alert, calls, crashed, files,
           history, faults>>

Ids == DOMAIN Alerts
None == <<>>

-----------------------------------------------------------------------------
(* The default keeps operators central, and puts a condition on the host   *)
(* that is its only source.                                                *)
writeDefaultPoliciesFileForAlerts ==
  [a \in Ids |->
     [cond |-> [i \in DOMAIN Alerts[a].conds |->
                  IF Len(Alerts[a].conds[i].sources) = 1 THEN Head(Alerts[a].conds[i].sources)
                                                   ELSE Nowhere],
      op   |-> [k \in DOMAIN Alerts[a].conds |-> Nowhere],
      aggregates |-> DOMAIN Alerts[a].conds]]

(* A proxy has no name; its measurement is the alert's.                    *)
Described(a, tree, node) ==
  IF node[1] = "proxy"
  THEN [source |-> node[2], measurement |-> Alerts[a].id, cepId |-> Null,
        proxy |-> TRUE, aggregates |-> FALSE]
  ELSE [source |-> Head(Alerts[a].conds[node[2]].sources),
        measurement |-> Alerts[a].conds[node[2]].measurement,
        cepId |-> Alerts[a].conds[node[2]].name, proxy |-> FALSE,
        aggregates |-> node[2] \in policy[a].aggregates]

Call(name, host, what) == [name |-> name, host |-> host, what |-> what]

(* placeAlertTreeLocally, for each of the alert's trees.                   *)
placeAlertLocally(a, tree) ==
  LET trees == getLocallyPlaceableAlertTrees(tree)
  IN  FlattenSeq([i \in DOMAIN trees |->
        <<Call("deploy", trees[i].host, <<a, trees[i].root>>)>>
        \o [j \in DOMAIN trees[i].conds |->
              Call("reroute", trees[i].host,
                   Described(a, tree, trees[i].conds[j]))]])
      \o <<Call("update", "", a)>>

(* removeLocalAlertTree, for each of them.                                 *)
revertLocalPlacementOfAlert(a, tree) ==
  LET trees == getLocallyPlaceableAlertTrees(tree)
  IN  FlattenSeq([i \in DOMAIN trees |->
        [j \in DOMAIN trees[i].conds |->
           Call("unroute", trees[i].host,
                Described(a, tree, trees[i].conds[j]))]
        \o <<Call("undeploy", trees[i].host, <<a, trees[i].root>>)>>])
      \o <<Call("restore", "", a)>>

-----------------------------------------------------------------------------
OriginalPanel(a) ==
  [conds   |-> [i \in DOMAIN Alerts[a].conds |-> <<"central", Cond(i)>>],
   targets |-> SetToSeq({[of |-> "query", name |-> Alerts[a].conds[i].query] :
                           i \in DOMAIN Alerts[a].conds})]

Init ==
  /\ policy = writeDefaultPoliciesFileForAlerts
  /\ alertTree = [a \in Ids |-> NewTree(Len(Alerts[a].conds))]
  /\ timed = [a \in Ids |-> {}]
  /\ files \in Files
  /\ config = [h \in Hosts |-> [comps |-> files[h], reroutes |-> 0]]
  /\ running = files
  /\ statements = [h \in Hosts |-> {}]
  /\ panel = [a \in Ids |-> OriginalPanel(a)]
  /\ server = panel
  /\ saved = [a \in Ids |-> None]
  /\ command = "none" /\ alert = 0 /\ calls = <<>>
  /\ crashed = FALSE
  /\ history = <<>>
  /\ faults = <<>>

(* The policy file is read again for every place.                          *)
Start(name) ==
  /\ ~ crashed /\ command = "none"
  /\ Len(history) < MaxCommands
  /\ command' = name /\ alert' = 0 /\ calls' = <<>>
  /\ history' = Append(history, name)
  /\ faults' = Append(faults, 0)
  /\ policy' \in IF name = "place" THEN Policies \union {writeDefaultPoliciesFileForAlerts}
                               ELSE {policy}
  /\ UNCHANGED <<alertTree, timed, world, crashed, files>>

Crash ==
  /\ crashed' = TRUE
  /\ UNCHANGED <<policy, alertTree, timed, world, command, alert, calls, files,
                 history, faults>>

(* The next alert: its policy is applied, if it is to be placed, its tree  *)
(* is optimized and the operators that are not roots get their proxies.    *)
NextAlert ==
  /\ ~ crashed /\ command # "none" /\ calls = <<>> /\ alert < Len(Alerts)
  /\ LET a    == alert + 1
         tree == IF command = "place" THEN applyPolicy(alertTree[a], policy[a])
                                      ELSE alertTree[a]
     IN  IF PlacementFails(tree) THEN Crash
         ELSE /\ alert' = a
              /\ LET best == optimizeAlertTree(tree)
                 IN  /\ alertTree' = [alertTree EXCEPT ![a] =
                          [best EXCEPT !.proxied = ReplacedBelow(best)]]
                     /\ timed' = [timed EXCEPT ![a] = @ \union Together(best)]
                     /\ calls' = IF command = "place"
                                 THEN placeAlertLocally(a, best)
                                 ELSE revertLocalPlacementOfAlert(a, best)
              /\ UNCHANGED <<policy, world, command, crashed, files, history,
                             faults>>

Finish ==
  /\ ~ crashed /\ command # "none" /\ calls = <<>> /\ alert = Len(Alerts)
  /\ command' = "none"
  /\ UNCHANGED <<policy, alertTree, timed, world, alert, calls, crashed, files,
                 history, faults>>

-----------------------------------------------------------------------------
(* The call at hand, and what becomes of it.                               *)
Doing(name) == ~ crashed /\ calls # <<>> /\ Head(calls).name = name
Here  == Head(calls).host
What  == Head(calls).what

Succeeds == faults' = faults
Fails ==
  /\ FoldLeft(+, 0, faults) < MaxFaults
  /\ faults' = [faults EXCEPT ![Len(faults)] = @ + 1]

Done ==
  /\ calls' = Tail(calls)
  /\ UNCHANGED <<policy, alertTree, timed, command, alert, crashed, files, history>>

(* A statement that is there already makes the call fail.                  *)
addAlertTree ==
  /\ Doing("deploy")
  /\ \/ Succeeds /\ statements' = [statements EXCEPT ![Here] = @ \union {What}]
     \/ Fails /\ UNCHANGED statements
  /\ UNCHANGED <<config, running, panel, server, saved>>
  /\ Done

removeAlertTree ==
  /\ Doing("undeploy")
  /\ \/ Succeeds /\ statements' = [statements EXCEPT ![Here] = @ \ {What}]
     \/ Fails /\ UNCHANGED statements
  /\ UNCHANGED <<config, running, panel, server, saved>>
  /\ Done

(* saveConfig and restartAgent.                                            *)
saveConfig(h, new) ==
  /\ config' = [config EXCEPT ![h] = new]
  /\ \/ Succeeds /\ running' = [running EXCEPT ![h] = new.comps]
     \/ Fails /\ UNCHANGED running

addRerouteMetricToLocalAlertingSystem ==
  /\ Doing("reroute")
  /\ saveConfig(What.source,
                rerouteMesurementToCep(config[What.source], What, Here))
  /\ UNCHANGED <<statements, panel, server, saved>>
  /\ Done

removeRerouteMetricToLocalAlertingSystem ==
  /\ Doing("unroute")
  /\ IF removeRerouteFails(config[What.source], What.measurement, What.cepId) THEN Crash
     ELSE /\ saveConfig(What.source,
               removeReroute(config[What.source], What.measurement, What.cepId))
          /\ UNCHANGED <<statements, panel, server, saved>>
          /\ Done

-----------------------------------------------------------------------------
(* The whole dashboard is sent, with the panels of all alerts.             *)
updateDashboard ==
  \/ Succeeds /\ server' = panel'
  \/ Fails /\ UNCHANGED server

(* An aggregate target for every query that has none, and a target for     *)
(* every new condition.                                                    *)
NewTargets(a, tree, targets) ==
  LET conds == createDashboardPanelAlertConditions(tree)
      Aggregate(ts, i) ==
        LET new == [of |-> "aggregation", name |-> Alerts[a].conds[i].query]
        IN  IF Contains(ts, new) THEN ts ELSE Append(ts, new)
  IN  FoldLeft(Aggregate, targets, [i \in 1 .. Len(Alerts[a].conds) |-> i])
      \o [i \in DOMAIN conds |-> [of |-> "alert", name |-> conds[i]]]

Save(a) == saved' = [saved EXCEPT ![a] = panel[a].conds]

(* A proxy in the alert's own tree has no host to ask for, and an operator *)
(* that its policy put on another host than its children no time window.   *)
updateFails(a) ==
  \/ alertTree[a].proxied # {}
  \/ \E k \in DOMAIN alertTree[a].op :
       /\ Op(k) \in Range(createDashboardPanelAlertConditions(alertTree[a]))
       /\ k \notin timed[a]

updateInstanceForLocallyPlacedAlert ==
  /\ Doing("update")
  /\ LET a == What
         tree == alertTree[a]
         conds == createDashboardPanelAlertConditions(tree)
     IN  IF updateFails(a) THEN Crash
         ELSE /\ Save(a)
              /\ panel' = [panel EXCEPT ![a] =
                   [conds   |-> [i \in DOMAIN conds |-> <<"local", conds[i]>>],
                    targets |-> NewTargets(a, tree, panel[a].targets)]]
              /\ updateDashboard
              /\ UNCHANGED <<config, running, statements>>
              /\ Done

restoreInstanceCentralAlertPlacement ==
  /\ Doing("restore")
  /\ LET a == What
     IN  IF saved[a] = None
         THEN Succeeds /\ UNCHANGED world
         ELSE /\ saved' = [saved EXCEPT ![a] = None]
              /\ panel' = [panel EXCEPT ![a] =
                   [conds   |-> saved[a],
                    targets |-> SelectSeq(@.targets, LAMBDA t : t.of = "query")]]
              /\ updateDashboard
              /\ UNCHANGED <<config, running, statements>>
  /\ Done

Next ==
  \/ Start("place") \/ Start("undo") \/ NextAlert \/ Finish
  \/ addAlertTree \/ removeAlertTree
  \/ addRerouteMetricToLocalAlertingSystem
  \/ removeRerouteMetricToLocalAlertingSystem
  \/ updateInstanceForLocallyPlacedAlert
  \/ restoreInstanceCentralAlertPlacement

Spec == Init /\ [][Next]_vars

-----------------------------------------------------------------------------
Idle == command = "none" /\ ~ crashed

(* place, undo, place, undo ...: nothing is placed twice, nothing undone   *)
(* twice.                                                                  *)
InTurn ==
  \A i \in DOMAIN history : history[i] = IF i % 2 = 1 THEN "place" ELSE "undo"

(* ... and the calls of every undo succeed.                                *)
Alternating ==
  InTurn /\ \A i \in DOMAIN history : history[i] = "undo" => faults[i] = 0

TypeOK ==
  /\ \A a \in Ids :
       /\ policy[a].cond \in [DOMAIN Alerts[a].conds -> Hosts \union {Nowhere}]
       /\ alertTree[a].proxied \subseteq (DOMAIN Alerts[a].conds) \X {1, 2}
  /\ \A h \in Hosts :
       /\ config[h].reroutes \in Int
       /\ \A comps \in {config[h].comps, running[h]} :
            /\ comps # <<>> /\ Last(comps) = Spacer
            /\ \A i \in DOMAIN comps : comps[i].kind \in {"default", "header", "plugin"}
       /\ \A s \in statements[h] : s[1] \in Ids
  /\ command \in {"none", "place", "undo"}
  /\ alert \in 0 .. Len(Alerts)
  /\ \A a \in Ids : timed[a] \subseteq DOMAIN Alerts[a].conds
  /\ crashed \in BOOLEAN
  /\ Len(faults) = Len(history) /\ Len(history) <= MaxCommands

Names == {Alerts[a].id : a \in Ids}
         \union UNION {{Alerts[a].conds[i].measurement : i \in DOMAIN Alerts[a].conds} :
                         a \in Ids}

CepIds == {Null} \union
          UNION {{Alerts[a].conds[i].name : i \in DOMAIN Alerts[a].conds} : a \in Ids}

(* What some removeReroute takes for a plugin that the mapper added.       *)
TakenForOwn(p) == \E m \in Names : \E id \in CepIds : MustGo(p, m, id, TRUE)

(* The headers and plugins that the user wrote, without what the mapper    *)
(* puts into them.                                                         *)
Written(c) ==
  CASE c.kind = "header" -> <<c.type>>
    [] c.kind = "plugin" /\ c.user /\ ~ TakenForOwn(c) -> <<c.name>>
    [] OTHER -> <<>>

UsersOwn(comps) == FlattenSeq([i \in DOMAIN comps |-> Written(comps[i])])

(* Whatever is placed and undone, in whichever order and with whichever    *)
(* calls failing, no plugin and no section header that the user wrote is   *)
(* lost from an agent's configuration: removeReroute removes a plugin and  *)
(* the component behind it, which must be the spacer that came with it.    *)
(* Except for the plugins of the user's that it takes for the mapper's,    *)
(* which it does delete: an override with namepass for a measurement of an *)
(* alert, an http output or basicstats aggregator with tagpass for a       *)
(* condition's id, and a listener at the backloop's port.                  *)
UserPluginsKept ==
  \A h \in Hosts : \A comps \in {config[h].comps, running[h]} :
    UsersOwn(comps) = UsersOwn(files[h])

(* The alerts of which some policy makes a proxy for metrics from h.       *)
ProxiedFrom ==
  [h \in Hosts |->
     {a \in Ids : \E p \in Policies \union {writeDefaultPoliciesFileForAlerts} :
        LET best == optimizeAlertTree(applyPolicy(NewTree(Len(Alerts[a].conds)), p[a]))
        IN  \E t \in Range(getLocallyPlaceableAlertTrees(best)) :
              \E i \in DOMAIN t.conds : t.conds[i] = <<"proxy", h>>}]

(* A file whose plugins the user gave no filters, and no names that the    *)
(* mapper's own plugins have.                                              *)
Unfiltered(comps) ==
  \A i \in DOMAIN comps : IsPlugin(comps[i]) =>
    /\ comps[i].name \notin Added /\ comps[i].names = "" /\ comps[i].pass = <<>>
    /\ comps[i].drop = "none" /\ comps[i].exclude = "none"
    /\ comps[i].tags \in {<<>>, <<"absent">>}

(* While places and undos take turns, with whichever policies and calls    *)
(* failing half-way, an agent never loses a metric between its filters:    *)
(* each goes to the user's outputs or to a local alerting system, and the  *)
(* central system gets the aggregates of what goes to a local one.  Not so *)
(* on a host that proxies of two alerts have their metrics from: they have *)
(* the same id, and the removal of one takes the output of the other.      *)
NoMetricStranded ==
  InTurn => \A h \in Hosts :
    Cardinality(ProxiedFrom[h]) <= 1 /\ Unfiltered(files[h]) /\ Parses(running[h])
    => RoutesWell(running[h], Names)

(* A file of which the last removeReroute finds again all that the first   *)
(* reroute put into it: the tables of the user's are behind the mapper's,  *)
(* and he has no tagexclude, that the mapper's replaces, and no plugin     *)
(* that the mapper takes for its own.                                      *)
Restorable(comps) ==
  \A i \in DOMAIN comps : IsPlugin(comps[i]) =>
    /\ ~ TakenForOwn(comps[i]) /\ comps[i].exclude = "none"
    /\ comps[i].pass = <<>> \/ comps[i].passLast
    /\ comps[i].tags \in {<<>>, <<"absent">>}

(* After place and undo, any number of times and with any policies, and    *)
(* whichever calls of a place failed, everything is as it was: no          *)
(* statement is left, every agent runs with its own configuration, up to   *)
(* blank lines, and the panels have their own conditions and targets.      *)
UndoRestores ==
  Idle /\ Alternating /\ history # <<>> /\ Last(history) = "undo"
  => /\ \A h \in Hosts : /\ statements[h] = {}
                         /\ config[h] = [comps |-> running[h], reroutes |-> 0]
                         /\ Restorable(files[h]) =>
                              Significant(running[h]) = Significant(files[h])
     /\ panel = [a \in Ids |-> OriginalPanel(a)]
     /\ server = panel

Placed(a) == Range(getLocallyPlaceableAlertTrees(alertTree[a]))

(* The conditions that are rerouted, with the host they are sent to.       *)
Rerouted ==
  UNION {UNION {{[c |-> Described(a, alertTree[a], t.conds[i]), to |-> t.host] :
                   i \in DOMAIN t.conds} : t \in Placed(a)} : a \in Ids}

(* The measurement of a condition, as it leaves the input that makes it.   *)
MadeFor(comps, c) ==
  {m \in Made(comps, Names) : m.name = c.measurement
                                 /\ (m.to = "false" <=> c.proxy)}

(* After a place without faults exactly the statements of the alerts' local *)
(* trees are deployed, and Grafana is left with their results; and an      *)
(* alerting system gets what its conditions need: the metrics of a         *)
(* condition that shares its measurement with no other one of that host,   *)
(* nor its id, which proxies do not have, go to the alerting system that   *)
(* evaluates it, and nowhere else.                                         *)
PlacedCompletely ==
  Idle /\ Alternating /\ history # <<>> /\ Last(history) = "place"
       /\ (\A i \in DOMAIN faults : faults[i] = 0)
  => /\ \A h \in Hosts : statements[h] =
           UNION {{<<a, t.root>> : t \in {u \in Placed(a) : u.host = h}} : a \in Ids}
     /\ \A a \in Ids : \A i \in DOMAIN server[a].conds :
           /\ server[a].conds[i][1] = "local"
           /\ \E t \in Placed(a) : t.root = server[a].conds[i][2]
     /\ \A r \in Rerouted :
           LET comps == running[r.c.source]
               other == {s \in Rerouted :
                           /\ s # r /\ s.c.source = r.c.source
                           /\ \/ s.c.measurement = r.c.measurement
                              \/ s.c.cepId = r.c.cepId}
           IN  Unfiltered(files[r.c.source]) /\ Parses(comps) /\ other = {} =>
                 \A m \in MadeFor(comps, r.c) :
                   {p.to : p \in Delivered(comps, Processed(comps, m))} = {r.to}

(* A plugin without tags of its own, and with no tagexclude and no tagpass *)
(* but one that is its last table.                                         *)
Plain(p) ==
  /\ p.tags = <<>>
  /\ p.pass = <<>> \/ (Len(p.pass) = 1 /\ p.passLast /\ p.exclude = "none")

(* With the default policies, conditions of one source each and files of   *)
(* plain plugins, commands that alternate never end the process by an      *)
(* exception, whatever calls fail.                                         *)
DefaultPolicySafe ==
  /\ InTurn
  /\ \A a \in Ids : \A i \in DOMAIN Alerts[a].conds : Len(Alerts[a].conds[i].sources) = 1
  /\ policy = writeDefaultPoliciesFileForAlerts
  /\ \A h \in Hosts : \A i \in DOMAIN files[h] :
       IsPlugin(files[h][i]) => Plain(files[h][i])
  => ~ crashed

(* "restore old the alertconditions" (GrafanaInstance.java:540): after an  *)
(* undo whose calls succeeded the panels have their own conditions.        *)
UndoRestoresConditions ==
  Idle /\ history # <<>> /\ Last(history) = "undo" /\ Last(faults) = 0
  => \A a \in Ids : server[a].conds = OriginalPanel(a).conds
=============================================================================

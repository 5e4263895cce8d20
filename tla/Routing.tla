------------------------------ MODULE Routing -------------------------------
(***************************************************************************)
(* Where a metric goes in an agent that runs with a configuration: the     *)
(* input that makes it, the processors, the aggregators and the outputs,   *)
(* each behind its filter.  This is what the reroutes of the mapper are    *)
(* for: the default outputs get everything but what a local alerting       *)
(* system is to look at, of which they get the aggregates.                 *)
(*                                                                         *)
(* Of a metric the model keeps its name and the two tags that the mapper's *)
(* filters look at: to is the value of to_cep, or "absent".                *)
(***************************************************************************)
EXTENDS TelegrafConfig

PluginsOf(comps, t) == {c \in Range(comps) : IsPluginOf(c, t)}

(* A plugin with two tables of the same name is an error in TOML, and the  *)
(* agent refuses the file.                                                 *)
Parses(comps) ==
  \A i \in DOMAIN comps :
    IsPlugin(comps[i]) => Len(comps[i].tags) <= 1 /\ Len(comps[i].pass) <= 1

shouldNamePass(p, m) == p.names \in {"", m.name}

(* Mutant: a metric that matches tagpass is not dropped any more.          *)
shouldTagsPass_passOnly(p, m) ==
  \/ p.pass = <<>>
  \/ \E i \in DOMAIN p.pass :
       IF p.pass[i] = "default" THEN m.to \in {"false", "maybe"} \/ m.aggregated
                                ELSE m.to = p.pass[i]

(* tagpass and tagdrop: both must agree.                                   *)
shouldTagsPass(p, m) ==
  /\ \/ p.pass = <<>>
     \/ \E i \in DOMAIN p.pass :
          IF p.pass[i] = "default" THEN m.to \in {"false", "maybe"} \/ m.aggregated
                                   ELSE m.to = p.pass[i]
  /\ p.drop = "aggregated" => ~ m.aggregated
  /\ p.drop = "false" => m.to # "false"

Passes(p, m) == shouldNamePass(p, m) /\ shouldTagsPass(p, m)

(* A metric of that name as the input makes it: the tags of the plugin are *)
(* added where the metric has none of its own.                             *)
makemetric(p, name) ==
  [name |-> name, to |-> IF p.tags = <<>> THEN "absent" ELSE Head(p.tags),
   aggregated |-> FALSE]

(* The override processor: its tags replace the metric's.                  *)
Override(m, p) ==
  IF p.name = "override" /\ Passes(p, m) THEN [m EXCEPT !.to = Head(p.tags)] ELSE m

(* All processors, in the order of the file.                               *)
Processed(comps, m) ==
  LET after[i \in 0 .. Len(comps)] ==
        IF i = 0 THEN m
        ELSE IF IsPluginOf(comps[i], "processor") THEN Override(after[i - 1], comps[i])
        ELSE after[i - 1]
  IN  after[Len(comps)]

(* What the aggregators make of a processed metric; the processors change  *)
(* an aggregate in place, before it goes to the outputs.                   *)
Aggregates(comps, m) ==
  {Processed(comps, [m EXCEPT !.aggregated = TRUE]) :
     p \in {q \in PluginsOf(comps, "aggregator") : Passes(q, m)}}

(* The outputs that a metric is added to.                                  *)
Delivered(comps, m) == {p \in PluginsOf(comps, "output") : Passes(p, m)}

CepOutputs(comps)     == {p \in PluginsOf(comps, "output") : p.name = "http"}
DefaultOutputs(comps) == PluginsOf(comps, "output") \ CepOutputs(comps)

(* The metrics an input of the file makes: a plugin of the user the        *)
(* measurement of its name, the backloop whatever it is sent.              *)
Made(comps, names) ==
  UNION {{makemetric(p, n) : n \in IF p.name = "backloop" THEN names ELSE {p.name}} :
           p \in PluginsOf(comps, "input")}

(* Every metric goes to all default outputs, or else to local alerting     *)
(* systems, and to one at least; its aggregates go to the default outputs  *)
(* and to no alerting system.                                              *)
RoutesWell(comps, names) ==
  \A raw \in Made(comps, names) :
    LET m == Processed(comps, raw)
        to == Delivered(comps, m)
    IN  /\ \/ to = DefaultOutputs(comps)
           \/ to # {} /\ to \subseteq CepOutputs(comps)
        /\ \A a \in Aggregates(comps, m) : Delivered(comps, a) = DefaultOutputs(comps)
=============================================================================

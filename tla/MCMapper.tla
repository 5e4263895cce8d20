------------------------------ MODULE MCMapper ------------------------------
(***************************************************************************)
(* Two hosts; one alert with three conditions, two of them on the same     *)
(* measurement of a host, and one alert with one condition on that         *)
(* measurement too.                                                        *)
(***************************************************************************)
EXTENDS Mapper

c(name, source, measurement) ==
  [name |-> name, sources |-> <<source>>, measurement |-> measurement,
   query |-> measurement]

MCAlerts ==
  <<[id |-> "a", conds |-> <<c("a1", "h1", "cpu"), c("a2", "h2", "mem"),
                             c("a3", "h1", "cpu")>>],
    [id |-> "b", conds |-> <<c("b1", "h1", "cpu")>>]>>

place(cond, op, aggregates) == [cond |-> cond, op |-> op, aggregates |-> aggregates]

(* The conditions of the first alert together on h1, or two of them, so    *)
(* that the operators over them have a time window from then on; one       *)
(* operator on h2, or both, or on h1, so that the lower one keeps a proxy  *)
(* in the alert's own tree; and a condition that is placed nowhere.        *)
MCPolicies ==
  {<<place(<<"h1", "h1", "h1">>, <<"", "", "">>, {1, 3}),
     place(<<"h1">>, <<"">>, {1})>>,
   <<place(<<"h2", "h2", "h1">>, <<"", "", "">>, {2, 3}),
     place(<<"h2">>, <<"">>, {1})>>,
   <<place(<<"h1", "h2", "h1">>, <<"", "h2", "">>, {1, 2, 3}),
     place(<<"h2">>, <<"">>, {})>>,
   <<place(<<"h1", "h2", "h1">>, <<"", "", "h2">>, {2}),
     place(<<"h1">>, <<"h1">>, {1})>>,
   <<place(<<"h1", "h2", "h1">>, <<"", "h1", "h1">>, {}),
     place(<<"h1">>, <<"h1">>, {1})>>,
   <<place(<<"h1", "", "h1">>, <<"", "h2", "h2">>, {1, 2, 3}),
     place(<<"">>, <<"h1">>, {})>>}

(* The second alert alone.                                                 *)
OneAlert    == <<MCAlerts[2]>>
OnePolicies == {<<p[2]>> : p \in MCPolicies}

User(p) == [p EXCEPT !.user = TRUE]

(* An output with a tagpass of its own; the last flag says whether it is   *)
(* its last table, or a tagdrop is.                                        *)
Filtered(name, passLast) ==
  User([Plugin("output", name) EXCEPT !.pass = <<"absent">>, !.passLast = passLast])

(* An override processor for a measurement, and its blank line.            *)
OverrideFor(measurement) ==
  <<User([Plugin("processor", "override") EXCEPT !.names = measurement]), Spacer>>

(* A file with a header for every section; one where only the first        *)
(* section has a header; and one whose output has a tagdrop behind its     *)
(* tagpass.                                                                *)
Sections(tags, processors) ==
  <<Spacer, Header("output"), Spacer, User(Plugin("output", "influxdb")), Spacer,
    Header("processor"), Spacer>> \o processors \o
  <<Header("aggregator"), Spacer, Header("input"), Spacer,
    User([Plugin("input", "cpu") EXCEPT !.tags = tags]), Spacer>>

OneHeader(output1, output2) ==
  <<Spacer, Header("output"), Spacer, output1, Spacer, Spacer, output2, Spacer,
    Spacer, User(Plugin("input", "cpu")), Spacer,
    Spacer, User(Plugin("input", "mem")), Spacer>>

DropBehindPass ==
  <<Spacer, Filtered("influxdb", FALSE), Spacer, Spacer, User(Plugin("input", "cpu")), Spacer>>

Outputs == OneHeader(User(Plugin("output", "influxdb")), User(Plugin("output", "file")))
FilteredOutputs == OneHeader(Filtered("influxdb", TRUE), Filtered("http", TRUE))

On(f, g) == [h \in Hosts |-> IF h = "h1" THEN f ELSE g]

MCFiles ==
  {On(Sections(<<>>, <<>>), Sections(<<"absent">>, <<>>)),
   On(Outputs, Sections(<<>>, OverrideFor("disk"))),
   On(FilteredOutputs, Sections(<<>>, OverrideFor("mem"))),
   On(Sections(<<>>, OverrideFor("cpu")), DropBehindPass)}
=============================================================================

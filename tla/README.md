# A verification of the agent-centric monitoring system

This directory holds TLA+ models of the monitoring agent under
`src/generic-agent/telegraf` (a fork of Telegraf 1.8) and of the mapper under
`src/mapper`, TLC runs that check them on small instances, and TLAPS proofs of
what holds for every value of their parameters. `PROJECT.json` lists components, runs, mutants, findings, hazards
and theorems, and maps every definition that models code to its lines.

Paths below are relative to `src/generic-agent/telegraf` unless they start
with `src/`.

## 1. The system

Agents on the monitored hosts gather metrics and write them to outputs. A
*mapper* takes the alerts configured in Grafana, decides from policies which of
their conditions can be evaluated on the hosts, and moves those to a *local
alerting component* beside the agent, changing the agent's configuration on the
way; it can also revert this.

| component | state | operations | interacts with |
|---|---|---|---|
| metric buffer `internal/buffer/buffer.go` | ring of metrics, indices `first`, `last`, flag `empty`, two global counters | `Add`, `Batch` under a lock; `Len`, `IsEmpty` without it | owned twice by every running output |
| running output `internal/models/running_output.go` | buffers `metrics` and `failMetrics`, `aggMutex`, `writeMutex` | `AddMetric`, `Write` | called by goroutine O and by flushes; calls the output plugin |
| aggregating output `plugins/outputs/azure_monitor` | cache of aggregates by minute | `Add`, `Push`, `Reset` | called by the running output under `aggMutex` |
| agent `agent/agent.go`, `agent/accumulator.go` | channels `metricC`, `aggMetricC`, `outMetricC`, `shutdown`; a semaphore; wait groups | `Run`, `gatherer`, `gatherWithTimeout`, `flusher`, `flush` | everything |
| running aggregator `internal/models/running_aggregator.go` | channel of 100 metrics, window `periodStart`..`periodEnd`, a ticker | `Add`, `Run` | called by P, pushes to `aggMetricC` |
| aggregator plugins `plugins/aggregators/{basicstats,minmax,valuecounter,histogram}` | a cache by series and field | `Add`, `Push`, `Reset` | called by the running aggregator |
| statsd input `plugins/inputs/statsd/statsd.go` | channels `in`, `accept`, `done`, a wait group, a lock, caches, connections | `Start`, listeners, handlers, parser, `Gather`, `Stop` | clients; started, gathered and stopped by the agent |
| filter, processors, metric making `internal/models/{filter,running_processor,running_input,makemetric}.go` | compiled patterns | `Filter.Apply`, `RunningProcessor.Apply`, `makemetric` | on the way of every metric |
| reload loop `cmd/telegraf/telegraf.go` | channels `reload`, `signals`, `stop`, `shutdown` | one iteration per configuration | starts and stops `Run` |
| self statistics `selfstat` | a registry of counters | `Incr`, `Set`, `Get` | everywhere |
| mapper core `src/mapper/mapper-core` | alerts and their trees, policies | commands `place` and `undo` | calls the three plugins |
| telegraf plugin `src/mapper/mapper-plugins/telegraf-plugin` | the components of an agent's file, a count of reroutes | `addPlugin`, `rerouteMesurementToCep`, `removeReroute`, `saveConfig` | copies the file to the host, restarts the agent |
| grafana plugin `src/mapper/mapper-plugins/grafana-plugin` | dashboards, `savedAlertConditions` | build trees, `updateInstance...`, `restoreInstance...` | REST interface of Grafana |
| esper plugin and alert trees `src/mapper/mapper-plugins/esper-plugin`, `src/mapper/mapper-api` | trees of conditions and operators | optimise, split by host, deploy and remove | REST interface of the local alerting |
| local alerting `src/local-alerting-component` | deployed statements | deploy, undeploy, receive events | the agent's output |
| load generator, template editor | - | - | - |

What is hard in it:

* **Concurrency without locks.** `Len` and `IsEmpty` read a buffer whose lock
  another goroutine holds; `nFails` is read once and used for a whole loop; the
  flush of a tick and the last flush call `Write` on the same output at once.
* **Failure.** A write fails in the middle of several batches; an output fails
  for a long time, while metrics keep coming; a service input does not start.
* **Bounds.** Buffers overwrite their oldest metrics, four channels block.
* **Shutdown.** P, G, O, the aggregators and the gatherers all look at
  `shutdown` on their own and leave when the channel before them is empty *at
  that moment*; a Gather that hangs is abandoned; the flush of a tick is waited
  for by nobody.
* **Time.** Windows of aggregators move on ticks, which are lost while a push
  waits; `Push` and `Reset` of an aggregating output read the clock separately.
* **A service that stops.** `statsd` accepts connections while `Stop` waits for
  their handlers; parser, `Gather` and `Stop` share a lock; a reload starts a
  new input on the address of the old one.
* **Signals.** `reload` is a channel of one value that the loop and the signal
  goroutine both take from and put into.
* **Undo.** The mapper saves what it changes and restores it; placing twice, or
  reverting first, are legal command sequences, and calls that fail are only
  logged. Its changes to an agent's file take effect through the filters of the
  agent: a tag that no output accepts loses metrics silently.

What makes each component correct:

* buffer: a bounded FIFO queue that drops, and counts, its oldest metric;
* running output: a metric that is accepted is written once, or dropped for
  want of room and counted; accepting one does not drop another; nothing waits
  for ever if writes succeed now and then;
* agent: every metric gathered reaches every output; full channels do not
  block one another for ever; after a shutdown what is on its way is flushed,
  outputs are closed last and `Run` returns;
* aggregator: a metric is counted in the one window it belongs to;
* aggregator plugins: the incremental statistics are the statistics;
* statsd: `Stop` returns, nobody sends on the closed channel, no more handlers
  than tokens, every line parsed is reported once;
* reload loop: it ends or reloads when it is told to;
* mapper: no plugin of the user is taken along with one of its own, no metric is lost between the filters
  of an agent, reverting after placing restores what was there, and what is
  deployed on a host is sent the metrics it needs.

`PROJECT.json` lists the hazards at their lines.

## 2. The modules

| module | models | state and actions |
|---|---|---|
| `Buffer` | the `Buffer` struct and its methods, as operators on a record of its fields | `Push`, `BatchOut`, `BatchRest`, `LenOf` (over the three words `Len` reads) |
| `DropOldestQueue` | what the comments of `buffer.go` promise | a sequence; `Put`, `Take` |
| `SharedBuffer` | one buffer with concurrent callers | `Add` takes the lock, `PushNext` is one iteration of its loop, `Batch` |
| `OutputContract` | what the agent relies on from an output | the fate of each metric: new, filtered, held, written, dropped |
| `RunningOutput` | `AddMetric`, `Write`, `write`, one goroutine that adds and any number that flush | a step for each lock operation, unlocked read, push and plugin call |
| `Agent` | `Run`, `gatherer`, `gatherWithTimeout`, `flusher`, `flush`, `RunningAggregator.Add` and `Run` | one action for each channel operation of each goroutine |
| `AggregatorPlugins` | the four aggregator plugins, as operators on the cache of a series | `PluginAdd`, `PluginPush`, `PluginReset`; `Report` is the reference definition |
| `RunningAggregator` | `RunningAggregator.Run` with a clock | `TimePasses`, `Add`, `Wake`, `Take`, `Tick`, `Push`, `Return` |
| `TelegrafConfig` | `TelegrafConfig.java` and the plugins it creates, as operators on a sequence of components | `rerouteMesurementToCep`, `removeReroute` |
| `Routing` | `Filter.Apply`, `makemetric`, the override processor: where an agent with a given file sends a metric | `Processed`, `Aggregates`, `Delivered` |
| `AlertTree` | building, optimising and splitting a tree | `getLocallyPlaceableAlertTrees`, ... |
| `Mapper` | the mapper process; composes the three above | `Start`, `NextAlert`, an action for every call on a plugin |
| `Statsd` | the statsd input | one action for each lock, channel, wait group and network operation |
| `ReloadLoop` | `reloadLoop` and its signal goroutine; composed with `Statsd` | `Top`, `Load`, `RunStarts`, ..., `Signal`, `ServiceStop` |
| `BufferLemmas`, `SharedBufferProofs`, `RunningOutputProofs`, `AgentProofs`, `RunningAggregatorProofs`, `StatsdProofs` (with `ReloadLoop`), `MapperProofs`, `MapperRoutingProofs` | - | lemmas and theorems |
| `MC*` | - | the instances for TLC |

### Buffer and SharedBuffer

The record has the fields of the struct. `Batch` is modelled by the indices the
code computes (`RightInd`, `Copied`, `Wraps`, `Right`), so that its two copies
and its two tests for an emptied ring are the ones of the code. `Contents` is
the abstract value: what the buffer holds, oldest first. `SharedBuffer` adds
the counters of `selfstat`, a history of what was handed out, and `whole`:
whether every `Batch` so far asked for all the buffer holds. That is how
`Write` and `AddMetric` use `metrics`; `failMetrics` is asked for parts.

### RunningOutput

`pc[p]` says where a goroutine is; a mutex is held by the goroutine whose `pc`
is inside its critical section. `hand[p]` is the batch a goroutine holds
outside the buffers, `stage[p]`, `round[p]`, `nFails[p]` and `err[p]` are the
local variables of `Write`. `AddMetric` (by `Adder`) shares the steps Batch,
write and add-back with `Write`, since the code does the same there.

`Len` and `IsEmpty` race with the holder of the lock. `DuringPush` and
`DuringBatch` are the values the words of the buffer take between any two
stores of the holder; each of the three reads of `Len` (empty, first, last) is a
step that finds any of them. A read never finds a value that was not stored:
words are read whole on the platforms Go runs on.

The aggregating output is `azure_monitor`, the only one in the repository, with
each metric as an aggregate of its own: `cache` holds what was updated since it
was last pushed, and the first `ripe` of it are old enough to be pushed. Its
limit of 30 minutes and the merging of metrics into one aggregate are left out.

Metrics are numbers in the order of their arrival. A filter is the set
`Rejected`.

### Agent

The goroutines are named in the head of `Agent.tla`. `chan` holds the four
channels; a blocking send is an action that is enabled when there is room, a
`select` is a choice of the enabled ones. A goroutine that finds `shutdown`
closed and its channel not empty goes round its loop, which is no step. `call`
and `leaked` count the `Gather` calls of an input that somebody waits for and
those nobody waits for any more; the latter still add metrics. The timeout of
`gatherWithTimeout` only counts an error, and is no step either.

An output is abstracted to its contract, without overwriting: `held`, the
batches in hand, `written`. A flush takes what an output holds as one batch.
Processors keep a metric or drop it. There is at most one aggregator, and a
push of it makes one aggregate. At most one goroutine started by a tick is
under way. After `wg.Wait` `Run` closes the outputs (`RunCloses`) and then runs
the deferred `Stop` of the service inputs (`RunReturns`), which may have to wait
(`StopMayWait`): that of `statsd` for its lock, that of `nats_consumer` for its
goroutine, while either is held up before `metricC`. When a service input fails to start, or when a send finds its channel
closed, the process ends (`ProcessEnds`).

### RunningAggregator and AggregatorPlugins

Time is counted from the truncated start of `Run`. `truncation` is what
`now.Truncate(time.Second)` cut off, `lag` by how much `Sleep` overslept. The
ticker's channel has room for one tick (`pending`); a tick that finds it full is
`lost`. `Add`, by the agent, waits for room in the channel. The push waits for
room in `aggMetricC`, so any time may pass before it. A plugin's cache of a
series holds one field; values are numbers or text, which the plugins ignore.
Arithmetic is exact: means are kept multiplied by `Scale`. `BasicStatsPush` divides
`M2` by `count - 1`; of `Push` only the square root that makes the standard
deviation of the variance is left out. The model compares
what `Push` reports with `Report`, the statistics of the list of metrics taken
(`contents`).

### TelegrafConfig and Routing

A file is a sequence of components: section headers, plugins, and anything else
(`Spacer`). Of a plugin the model keeps its kind, name, namepass, tags, tagpass
and tagdrop, as far as the mapper writes or asks for them: `to_cep` has the values
"maybe", "false" or the host, the tables of the mapper are the ones of
`TelegrafPluginCreator.java`, and a table of the user's is one that does not
speak of `to_cep` ("absent"). `user` is a history, which no operation looks at:
whether the user wrote the plugin. It is there because the code knows the
mapper's plugins by their name and one option only (`MustGo`).

The order of the tables matters, since a removal looks at the first of a name.
`addSubComponent` puts a new table behind the others, but before a tagpass or
tagdrop that is the last one; `passLast` says which of the user's tables that is,
and `addTagpass` where the mapper's goes. So behind a tagpass of the user's that
has a tagdrop after it the mapper's table is the second, and the last
`removeReroute` asks the first for an option that is not there
(`HasNoTagToAskFor`, `removeRerouteFails`); so it is with every tags table of an
input. `removeReroute` removes the component at an index
and then the one that took its place, as in the code. A plugin that gets a
second `tags` or `tagpass` table makes a file that TOML refuses (`Parses`).
`FromParser` is what the parser guarantees of a file: a plugin stands between
two components of the default kind, and the last component is one.
`Routing` then says what an agent with such a file does: the tags the input
adds, the processors in the order of the file, the aggregates, and the outputs
whose filters pass.

### AlertTree and Mapper

A tree is the left-deep chain that `generateAlertTreeFromList` builds, so nodes
are `Cond(i)` and `Op(k)`; `deployOn` comes from the policy. `NextAlert` does all
that happens in memory for an alert and leaves the list of remote calls in
`calls`; each call is then an action, which may fail. A failed copy or restart
leaves the agent `running` with its old file while `config` has the new one. The
dashboard is sent whole, so a later success also delivers what an earlier
failure did not. An unchecked exception ends the process (`Crash`): `main`
catches only `IOException`. There are four: a condition that is placed nowhere or
a proxy in a tree that is split again (`PlacementFails`); the update of a panel
for a tree with a proxy, or for an operator without a time window
(`updateFails`); and the missing option (`removeRerouteFails`). `timed` is
the set of operators that have a time window: `optimizeAlertTree` gives one to an
operator whose children are all on one host (`Together`), and nothing takes it
away. So a policy that puts an operator on another host than its children
places the statements and reroutes of the alert, and then ends the mapper,
unless an earlier policy had the children together.

### Statsd and ReloadLoop

`wg`, `tokens` (of `accept`), `lock`, `in`, `done` are the fields of `Statsd`.
With `AllowedPendingMessages` = 0 a send on `in` succeeds only if the parser is
waiting. The text of a line is abstracted to its type; the cache of a type is a
count. The listener's `select` for a token has a default case (`refuse`), and
`Stop` runs in five steps, because the listener and the handlers run between
them. `ReloadLoop` starts the input, makes the agent's goroutines leave on
shutdown (nobody reads `metricC` any more) and then calls `Stop` (`RunLeaves`), or
waits for them for ever, as `agent_hang` shows (`RunHangs`); a reload makes
a new `Statsd` on the same address, so `port` is the one thing that outlives the
input. A goroutine that panics, or `log.Fatalf`, ends the process (`panicked`):
among others `Stop` over UDP before the listener listens, which closes a nil
`*UDPConn` (`StopCloses`).
A signal that nobody waits for is lost, since `signals` is not buffered.

## 3. The runs

| run | shows |
|---|---|
| `buffer` | with any batches: well formed, live slots written, batches are the oldest metrics in order, the rest keeps its order; with batches of the whole buffer the ring implements `DropOldestQueue`, and the counters balance |
| `output_settles` | the output implements `OutputContract`; every metric is settled in the end |
| `output_two_flushes` | `AddMetric` and two concurrent calls of `Write`, of a plain and of an aggregating output: no duplicates, and the push of a new metric into `metrics` never overwrites one, in spite of the unlocked test for a full buffer (the batch that a full `metrics` gives may overwrite older metrics in `failMetrics`); a metric is lost uncounted only in the `Reset` of an aggregating output, or in a partial batch, of which there is none with these sizes |
| `output_loss` | **violation**: with `metric_buffer_limit` = 2 `metric_batch_size`, a partial batch that wraps around the end of `failMetrics` loses a metric that nothing counts |
| `agent_running` | channels of one slot do not block one another for ever: everything is written |
| `agent_outputs` | two outputs, shutdown at any time: nothing twice, and nothing added once the last flush has begun |
| `agent_stopping` | `Run` returns after a shutdown, unless a goroutine is left before a full channel that nobody reads, or the deferred `Stop` of a service input waits for ever |
| `agent_hang` | **violation**: the first of these does happen |
| `aggregator_window` | windows follow the ticks, metrics are skipped only when late or when the window is behind, pushes are of one window, statistics are right |
| `mapper` | the user's plugins stay, but for those that `removeReroute` takes for the mapper's; while places and undos take turns no metric is stranded in any state of the files on the hosts and the default policy does not crash; an undo restores and a place is complete, if the process lives to finish it |
| `mapper_twice` | **violation**: with one alert, `place`, `place`, `undo` does not restore its conditions |
| `reload_statsd` | the process with a statsd input: `Stop` returns, nobody sends on a closed channel, tokens balance, lines are reported once, stops and reloads take effect unless `Run` or `Stop` never returns |

The violations are statements of comments, log messages and documentation of
the repository; the findings in `PROJECT.json` quote them.

More things the models do that a reader of the comments may not expect, for
which there is no run:

* `AddMetric` writes a full batch while older metrics wait in `failMetrics`, so
  an output does not see metrics in order after a failed write;
* an aggregate of `azure_monitor` that becomes old enough between `Push` and
  `Reset` is cleared without having been pushed;
* the last flush may begin with metrics in `outMetricC`, because O left early;
* the aggregator leaves on shutdown without a last push;
* a gatherer that abandons a hung `Gather` on shutdown may take its tick first
  and call `Gather` once more;
* a tick that is lost is never made up for: the windows of an aggregator stay
  a period behind, and current metrics are skipped from then on;
* `statsd` over TCP with `allowed_pending_messages = 0` divides by zero at the
  second line it drops; `Stop` before `Listen` panics over UDP, and over TCP it
  leaves a listener open, and the reload then ends at `log.Fatalf`; a `Gather`
  that waits for a full `metricC` keeps the lock that `Stop` needs, and `Run` then
  does not return;
* an input with tags of its own gets a second `tags` table, an output with a
  `tagpass` of its own a second `tagpass` table, and the agent does
  not accept the file; the last removal ends the mapper at such an input, and at
  such an output if a `tagdrop` follows its `tagpass` (`TelegrafPlugin.java:342`);
* an override processor of the user with a `namepass` for the measurement of a
  reroute is deleted with it (`TelegrafConfig.java:230`), and likewise an `http`
  output or `basicstats` aggregator with a `tagpass` for the id of a condition;
  a `tagexclude` of an output is replaced and not restored;
* two conditions of a host on the same measurement send its
  metrics to the later one's alerting system only; a proxy that stays in the
  tree of its alert ends the mapper with an exception when the panel is updated,
  and so does an operator that was put on another host than its children and never
  had them together (`GrafanaInstance.java:374`);
* `place`, `undo`, `undo`, `place`, `undo` strands metrics: the second undo makes
  `numberOfReroutes` negative (`TelegrafConfig.java:207`), the next place then
  adds the defaults with every reroute up to zero, and the undo takes one of them
  from an output, which keeps a `tagpass` that no metric passes;
* proxies have no name, so those of two alerts with metrics from the same host
  have the same id, and the removal of one takes the output of the other
  (`TelegrafConfig.java:216`).

These are the exceptions of the properties of `mapper`. `NoMetricStranded` has the
hypotheses `InTurn`, `ProxiedFrom`, `Unfiltered` and `Parses`. `UserPluginsKept`
excepts the plugins that some removal takes for the mapper's own
(`TakenForOwn`), by their options and not by their names. `UndoRestores` compares
the files that are `Restorable`: none of these plugins, no tags table with
`to_cep`, no `tagexclude`, and a `tagpass` only as the last table.
`DefaultPolicySafe` is of files whose inputs have no tags and whose outputs at most
a `tagpass` that is their last table (`Plain`). `UndoRestores` and
`PlacedCompletely` speak of commands that the process lives to finish (`Idle`).

**Bounds.** A buffer of three slots with seven pushes wraps twice, overwrites,
and has batches that stop before, at and after the end of the array; two
metrics suffice to tell orders apart. Three or four metrics with a batch size
of two give a full batch and a remainder, so that failed batches, a partial last
batch and a new full batch meet, and make a `failMetrics` of two slots
overwrite. That is as many slots as a batch, because only then no partial batch
can wrap and the strict contract of `output_settles` holds (the code accepts that configuration; the documentation advises
twice that, where `output_loss` shows the loss). Two flushes at once are all the
agent can start for an output: the semaphore admits one, and there is one last
flush. Channels of one slot make every send block; two metrics and the aggregates
they give fill all four of them. `MaxLeaks` bounds abandoned calls.

A period of 2, a delay of 1 and a clock of 6 give three windows and a tick that
is lost behind another one; metrics are new or three units old, so one may fall into
the window, before it, or at its edges; three metrics are what the variance
needs to show a wrong update. Two hosts, one alert with three conditions (two of
them on the same measurement) and one with one give a tree with two operators,
splits with and without proxies, and shared measurements; four commands give
place, undo, place, undo, and every sequence of them, with six policies besides the
default one: all of the first alert on one host, two of its conditions together,
either operator or both on a host of their own, an operator placed where it leaves a
proxy, and a condition placed nowhere; so operators are split with and without a
time window, since a policy that had the children together may come before. Four
pairs of files cover headers in every section, a header in the first one only,
tags of the user, outputs with a `tagpass` alone (one of them named `http`) and with
a `tagdrop` behind it, and override processors for measurements that are rerouted
and for one that is not; they are files that `TelegrafConfigParser` can make
(`FromParser`). One fault may hit any call. Two
connections and one token make one wait while the other is handled; two lines
fill a channel of one; one signal and one service stop race with each other. A
second turn of the loop starts the input anew on the same address.

**Fairness.** Goroutines keep running; Go queues the goroutines that wait for
a mutex or a channel, and a `select` with several ready channels picks one at
random: strong fairness for each goroutine. Tickers tick. An output that is
tried again and again succeeds now and then (strong fairness of a successful
write): without it nothing can be promised for metrics that fail. Nothing is
assumed of inputs: `Gather` need not return, and `Start` may fail or hang.
`agent_stopping` assumes less (`StopSpec`): outputs need never succeed, since a
last flush tries once, and tickers need not tick. A `Stop` returns if there is
nothing that it may wait for (`~ StopMayWait`); the property excepts only that
there is such a thing for ever (`[]HeldUp`). In `reload_statsd` each goroutine
that can run does (weak fairness; the wait group and the lock have one waiter
that matters at a time), and after a shutdown `Run` leaves or hangs; clients need neither connect nor send nor close, but
`AcceptTCP`, `ReadFromUDP` and `Scan` return once their socket is closed.

**Deadlock** is checked where the system must go on; the runs with a shutdown
end, and say so.

**Symmetry** is used for the two flushes, which run the same code, and for the
two series of an aggregator, in runs that check no liveness. Connections are
numbered in the order in which they are accepted.

Each property of a passing run has a mutant: an operator named after the
definition it replaces (`BatchRest_noWrap`), placed before it, that changes it
the way a slip in the code would, and under which TLC finds the property
violated.

## 4. The proofs

| theorem | says |
|---|---|
| `IndicesStayInside` | `SharedBuffer!TypeOK`: the indices of the ring stay inside its array |
| `SlotsAreWritten` | `LiveSlotsWritten`: every slot that `Len` counts was written |
| `BatchesAreOldest` | `BatchIsPrefix`, for every size and batch size |
| `RestsAreSuffixes` | `RestIsSuffix`, likewise |
| `CountersBalance` | `Balance`: the counters account for every metric as long as every caller asks for the whole buffer |
| `ImplementsQueue` | `QueueSpec`: as long as that is so, `SharedBuffer` implements `DropOldestQueue` |
| `TypeCorrect` | `RunningOutput!TypeOK`, for all sizes and any set of flushes |
| `AddingDropsNothing` | `AcceptingDropsNothing`, of the push into `metrics`, likewise |
| `NeverInTwoPlaces` | `InOnePlace`, likewise, for plain and aggregating outputs |
| `LossesAreExplained` | `LostOnlyInBatchOrReset`, likewise |
| `KeepsContract` | a plain output implements `OutputContract` (`ContractSpec`) while `NoSilentLoss` holds |
| `LastFlushIsLast` | `NothingAfterLastFlush` of `Agent`, for any inputs, outputs, capacities and configuration |
| `NeverTwiceToAnOutput` | `OncePerOutput` of `Agent`, likewise |
| `AgentTypeCorrect` | `Agent!TypeOK`: channels within their capacities, likewise |
| `WindowsFollowTicks` | `WindowFollowsTicks`, for every period, delay, truncation and oversleep |
| `SkipsAreLate` | `SkipsOnlyLate`, likewise |
| `PushesOneWindow` | `OnlyTheWindow`, likewise |
| `AggregatorTypeCorrect` | `RunningAggregator!TypeOK`, likewise |
| `TokensAlwaysBalance` | `TokensBalance`, for any numbers of connections, tokens, pending messages and reloads |
| `NobodyEverSendsOnClosed` | `NobodySendsOnClosed`, likewise |
| `AlwaysReportedOnce` | `ReportedOnce`, likewise |
| `LoopTypeCorrect` | `LoopTypeOK`, likewise |
| `UserPluginsAlwaysKept` | `UserPluginsKept` of `Mapper`, for any hosts, alerts, policies, files, commands and faults: what is lost of the user's are plugins that `removeReroute` takes for the mapper's own, and nothing else |
| `MapperTypeOK` | `Mapper!TypeOK`, likewise |
| `DefaultPoliciesSafe` | `DefaultPolicySafe` of `Mapper`: with the default policies and files of `Plain` plugins commands that take turns never end the process |
| `MetricsNeverStranded` | `NoMetricStranded` of `Mapper`, for any hosts, alerts, policies, commands and faults |

Assumptions: sizes are positive naturals, `Nil` is not a metric, the adding
goroutine is not a flushing one and neither has the name of a place
(`ProcAssumption`); a period is a positive natural, delays and truncations are
naturals; the bound on abandoned calls is at least one (a gatherer that leaves
on shutdown abandons the call it waits for); the files are ones that the parser
can make (`FilesAssumption`); there is an agent on every host that a condition
has its metrics from or that a policy names, and a condition has such a host
(`AlertsAssumption`, `PoliciesAssumption`); names of conditions are their own, as
they are made from the alert's id and a number, and are none of the values of
the mapper's own filters (`NamesAssumption`). Three
theorems speak of behaviours up to a loss: `CountersBalance` and
`ImplementsQueue` up to the first partial batch (`whole`), `KeepsContract` while
nothing was lost. `output_loss` shows what happens after it; and
`LossesAreExplained` says where such a loss can come from at all.

*The buffer.* The type invariant alone is not inductive: `Batch` returns
whatever is in the slots between `first` and `last`, so `Inv` adds that these
have been written. `BufferLemmas` replaces the modulo of the code by the two
cases of a wrap (`AfterWraps`), computes the indices of `Batch` in both
(`BatchIndices`), and from these what `push` and `Batch` do to `Contents`
(`PushContents`, `BatchPrefix`, `BatchWhole`, `BatchSuffix`). The refinement
then maps every `PushNext` to a `Put` and every `Batch` to a `Take`.

*The output.* `IInv` adds to `TypeOK` that the live slots of both buffers are
written, that a goroutine between Batch and the end of its add-back holds a
batch that is not empty, and that an index read by `Len` is at most one past
the array, which bounds the torn lengths. `AddInv` is the argument that
`AddMetric` never finds `metrics` full when it pushes: when the adder is outside its look at
the length, either there is room or some `Write` holds the lock and is about to
empty the buffer (`Room`). It is preserved because a torn read needs a `Write`
inside `Batch`, which takes all of `metrics`; and while the adder is between its
reads of `first` and `last`, the buffer it filled still has that `first`.

`PlaceInv` is the argument that no metric is in two places: the two buffers, the
batch of every goroutine and the histories of what was written, dropped and
filtered share no metric, and none of them has one twice (`Apart`). Of the cache
of an aggregating output this holds only while no goroutine is between its
`Push` and its `Reset`; in between, it holds of what is not yet old enough to be
pushed (`CacheApart`). The invariant speaks of the sequences behind the rings,
so that a step moves metrics from one of them to another, by the lemmas about
`Contents`; `LossesAreExplained` then goes through the steps and asks which
`Accounted` metrics each may forget. For the refinement the fate of a metric is read
off the histories. A step changes one history at most, and a step that settles
metrics settles ones that were held, since nothing was lost before it.

*The pipeline: the last flush.* The theorem needs two facts that `FlushInv` carries along the
whole behaviour, besides types. `OLeftFirst`: the last flush begins after `O`
has left, and no step brings `O` back, so nobody is left to add a metric.
`HandsEmpty`: a flush that is about to take a batch, or is done with an output,
has none in its hands; otherwise `FlushTakes` would overwrite a batch and lose
it. The flush that a tick started may still be running beside the last one, so
this is needed of both. Steps that leave the outputs alone preserve the
invariant by one lemma (`ApartFlushInv`); the others have lemmas of their own.

*The pipeline: nothing twice.* A metric is new once, so it is enough that no
goroutine hands it on twice. `PipeInv` splits the pipeline into stages (the
gatherers, `metricC`, `P`, the aggregator with `aggMetricC` and `G`,
`outMetricC`, `O`). No two of them hold the same metric, and each holds only what
was gathered or pushed (`Apiece`); an output has not been given what is on its
way to it, and of the metric in the hands of `O` this is so for the outputs that
its loop has yet to come to (`Ahead`). That the numbers of aggregates stay in
their range needs `Budget`: every push uses up a metric that was gathered.

*The window.* `WindowFollowsTicks` alone is not inductive: that a skipped metric
is late needs to know where the clock stands. `WindowInv` adds `TickAhead`, that
while the goroutine runs its next tick is ahead by at most a period, and
`Asleep`, that before it woke nothing has moved. `SkipsAreLate` follows by
arithmetic: a metric before `periodStart` is before `now - truncation - Delay`,
because the window is behind the ticker by whole periods. For `PushesOneWindow`
the invariant says that whatever was taken had passed the test of the window
that was current, and that a window moves only to be pushed and reset before
the next metric is taken.

*The statsd input.* `TokensBalance` is not inductive, since a handler gives back
its token and leaves the wait group at different steps. `Counted` says that the
wait group is the number of the listener, the parser and the handlers that have
not said that they are done, and that tokens, these handlers and those that have
yet to give back their token add up. `wg.Wait` returns only at 0, when all that
could send on `in` have left; a handler is counted by the listener before it
starts, and the listener is counted itself. `Reporting` adds to `ReportedOnce`
what `Gather` has reported and not yet deleted while it holds the lock.

*The mapper.* `removeReroute` removes a plugin and then whatever stands behind
it. That this is never something of the user's is clear as long as every plugin
of the mapper has its own spacer behind it; but later plugins are put between
the two, a plugin without a section comes with its spacer *before* it, and
removals take neighbours of one another. `Heights` is the invariant that
survives: every component has a height, at most one more than the next one's for
a spacer, less than the next one's for a plugin of the mapper, 0 for what the
user wrote; and there is a spacer of height 0 with nothing of the user's behind
it. A plugin of the mapper is therefore never followed by something of the
user's, nor by nothing. `SteadyInsert`, `SteadyInsertLast` and `SteadyRemove`
show that the two forms of `addPlugin` and a removal preserve it, and
`SteadyAtFirst` that the parser's files have it. A plugin of the user that a
removal takes for the mapper's own (`TakenForOwn`) counts as the mapper's here
(`Class`); one that merely has such a name is the user's. `MustGoIs` is the step
from the code's test to this: what a removal of any measurement and id that the
alerts have may take is of that class.

The call at hand changes what it names, so `TypeInv` types the trees of the
alerts and every call in `calls` (hosts that exist, descriptions that a file's
component can hold), besides `TypeOK`. `DefaultPoliciesSafe` has four exceptions
to exclude. `TreeInv` excludes two: with the default policies no operator is
placed but where all of its children are, so no child is moved away from it and
no tree keeps a proxy; and a tree that is undone was placed before, as commands
take turns. `DefaultUpdate` excludes the third: an operator that Grafana is told of
is deployed, so with the default policy its children are together, and `TimedInv`
(with what `NextAlert` puts into `timed`) says that it then has its time window.
`TagInv` excludes the fourth: the first `tags` table of every input and the first
`tagpass` table of every output that has the mapper's `tagexclude` has the option
that is asked for (`Tagged`, `Askable`), because the user's inputs have no tags and
his `tagpass` is the last table, so the mapper's goes before it. `RerouteIn` and
`LeftIn` are the rules by which such a claim about all components of a file
carries over a reroute and a removal, and `RemoveLoop` the one for a claim about
the file as it is between two turns of the loop.

*The mapper's filters.* `MetricsNeverStranded` is about a counter, about what a
file has, and about a list of calls that was made from a tree. `CountInv` says
that `numberOfReroutes` of a host is the number of removals that are still to
come there. These are `Slots`, positions in the lists of calls that undoing the
alerts will make. `CallsAligned` is why a place adds exactly these: the
lists of a place and of its undo, which walk the tree in opposite ways, have the
same length, and where one reroutes, the other takes that reroute back one
position earlier (`Aligned`). For this the tree that an undo starts from has to be
the one that the place ended with, up to the proxies, which `EndInv` keeps as long
as commands take turns. Hence the defaults go with the last removal, and never
before it.

`RouteInv` says what a file has in between (`Routes`). With no reroute, nothing of
the mapper's filters is left (`AllOff`). With the reroutes of a set `W`, the
user's inputs and outputs have the defaults and every plugin of the mapper is for
one of `W` (`AllOn`), and if the user has outputs, an override processor has the
output that accepts its tag (`Served`). `RerouteKeeps` and `RemoveKeeps` show that a
reroute and a removal lead from one `W` to the next, and `RoutableRoutes` that a
file of either form passes every metric on. A removal asks for a measurement and
an id only: that two reroutes of a host with the same id have the same
measurement (`OneMeasurement`) is `NamesAssumption` for conditions, and the
hypothesis on `ProxiedFrom` for proxies, whose ids are equal. An agent whose copy or
restart fails keeps the file it had, which is a file of an earlier step, so the
invariant speaks of `running` as well as of `config`. As the files are `Unfiltered`
here, a plugin is the mapper's by its name (`Named`).

Loops over a file are recursive functions (`removeReroute`, `FlattenSeq`), and
what they compute is proved by taking the least number of turns at which a claim
fails (`LeastNat`, `UpTo`); that a function with the recursion exists is shown
the same way (`LoopExists`).

*Only model-checked:* liveness (`EverySettles`, `EverythingWritten`,
`StopsUnlessStranded`, `StopReturns`, `EndsWhenTold`, `ReloadsWhenTold`), which
is out of the prover's reach; of `Mapper` `UndoRestores`
and `PlacedCompletely`, which compare the whole state after a command with the one
before it or with what the policy asks for: besides the invariants that are
proved they need which tables of a file every removal takes, in the order of the
calls, and the same of statements and panels; and `ReportsTrue` of the
aggregators, which compares folds over a list in exact arithmetic with divisions.

## 5. Plan

Done: the buffer, the output and the pipeline, in this order since each is what
the next one relies on; then the aggregator with its clock, the mapper with the
files it writes and the filters that read them, the process with its signals and
a service input. Every safety property of these is a theorem, for every value of
the parameters, but the three at the end of section 4.

What would come next, in this order:

* `UndoRestores` as a theorem, for the files first: `Aligned` pairs each removal
  with its reroute, and what is missing is that a removal undoes the file's change
  when others have changed it in between;
* `PlacedCompletely`, from `Routes` with `W` as the exact set of reroutes, in place
  of a set that the mapper's plugins are among;
* longer sequences of the mapper's commands, with undos that come twice, as a run
  that shows the negative counter of section 3;
* the construction of the mapper's instances, and the properties files that the
  connections, the policies and the alerts are read from.

## 6. Not modelled

The map covers a small share of the repository's lines. Most of them are the
input and output plugins, parsers and serialisers that the fork inherits
(a generated parser, `plugins/parsers/influx/machine.go`, alone is almost a
quarter): each is a sequence of calls on a client library and a conversion of
text or JSON into fields, without state that outlives a call. Modelling them
would be transliteration, with no property to check but the conversion itself.
Of the plugins `statsd`, `azure_monitor`, the override processor and the four
aggregators appear, because they keep state between calls.

Configuration parsing, logging, the load generator and the template editor have
no behaviour that the properties speak of. `Agent.Test` and `Agent.Connect` run
alone, before there is a pipeline. `G` applies the processors to an aggregate
and sends on the original: in `Agent` a processor is a choice to keep or drop,
and this shows there as processors that never drop an aggregate; in `Routing`
the override processor changes the aggregate in place.

Limits of what is modelled:

* `Routing`: what is promised is of outputs and inputs without filters of their own
  (`Unfiltered`), and names are compared as they are, not as glob patterns.
* `Mapper`: what undo restores is stated of commands that alternate: a policy that
  changes between two places leaves statements of the old one behind.
* `TelegrafConfig`: of filters of the user's the model has namepass, tagpass,
  tagdrop and tagexclude; that a table of his speaks of `to_cep` itself is left
  out. A file with such filters is in the run, but what is promised of it is
  limited as the last part of section 3 says.
* `AlertTree`: how long a time window is, thresholds and the text of a statement are
  left out.
* `Statsd`: parsing of a line, templates, tags and percentiles are left out.
* A mapper that is started again has lost what it saved; the code has no recovery
  to model.
* The local alerting component is seen as the set of statements deployed to it;
  evaluating them is the work of the Esper library.

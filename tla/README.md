# A TLA+ model of the Alumina browser control plane

## The system

Alumina Interface is a browser application that compiles machine work and
graphs and drives one or more microcontroller boards over Wi-Fi. It has three
parts.

* `crates/alumina-interface-core`: exact offline compilation (geometry,
  toolpaths, motion, partitions, the global job manifest) and the typed graph
  language (document, hierarchy, analysis, storage, deployment, simulation).
  Deterministic, single-threaded, no I/O.
* `crates/alumina-interface-client`: the retry-safe protocol machines, one per
  exchange with a device: authenticated HTTP session, cache upload, participant
  schedule, clock sampling, capability reading, health, network provisioning,
  telemetry and waveform capture, graph installation and graph runs. Every one
  keeps at most one pending request and has an `abandon_pending` for an
  ambiguous fetch.
* `src/`: the shell. The control worker (`browser_worker.rs`) owns the devices
  and at most one retained job (`live_job.rs`); the job owns the cache
  deliveries and the global schedule coordinator (`distributed_schedule.rs`).

What is hard here is not computation but agreement at a distance. One job runs
on several boards at one instant. Requests get lost, answers get lost, a request
the browser has given up on may still be executed, a page reload forgets what
the boards remember, a board faults or passes a deadline while the browser looks
elsewhere. The properties of this project are about what the browser may
conclude, and what the boards may do, under all of that.

### How the parts interact

The worker is one JavaScript thread. Between two `await`s a handler is atomic;
concurrency comes from the commands of the page, the timer and the fetches that
are in flight. A device's state is moved out of the worker's table while a fetch
for it runs (`Busy`) and put back when it ends. A job step takes the job and one
device, sends one request, and puts both back. There is no shared memory; the
page sees only snapshots.

    page --commands--> control worker --owns--> device sessions (HTTP, clock, probes)
                            |
                            +--owns--> live cached job --owns--> cache delivery (per device)
                                             |
                                             +--owns--> distributed coordinator
                                                            |
                                                            +--owns--> participant schedule (per device)

### Inventory

| Component | State | Operations | What is hard | What makes it correct |
|---|---|---|---|---|
| Cache upload, cache delivery | upload state, pending action per artifact | next request, accept, abandon | lost and late chunks, resumption, a finalize whose answer is lost | Complete means published; manifest after partition; resumption is accepted and ends |
| Participant schedule | last report, bound commit, authorized lease, pending, reconciliation flag | begin prepare/install/confirm/renew/abort/cancel/status, accept, abandon | skipped states, growing leases, earlier sessions' commits | no correct report refused, no other commit accepted |
| Distributed coordinator | machines, intent, target, fault cleanup | next request, bind start, confirm, abort, cancel, status round, renewal | one participant fails or is late at every point | start barrier, true outcomes, final stops |
| Live job, job step of the worker | status queue, sweep flag, stop, override, pending start | one step per timer tick; start, stop | commands between two requests of a round; outages | reaches an end; no stale mutation |
| Control worker | device table, generations, tasks, one job, pending start; the page's mirror | configure, disconnect, probe, tick, stage, start, clear | late completions against a replaced connection; probe against job; evidence reset bit by bit over a restart | a connection has exactly one owner; the job writes to the boots it was compiled for; starts end |
| HTTP session | counter, sequence, correlation, pending | open, begin, accept, abandon, rebind | reloads, late and repeated responses, wrapped words | counters never repeat in a boot; an answer belongs to its request |
| Clock probe | probe identity, boot, interval, history | begin, accept, abandon, reset | coarse readings, a restart between probes | the true clock is inside; nothing of another boot; no probe left behind |
| Health polling | availability, last report, last realtime part | poll, accept, reset | restarts, parts that are missing | no regression, no true report refused |
| Network provisioning | intent, transaction, last status | status, scan, join, leave, recover | the join cuts the connection it is answered on | a reported success happened; nothing given up is carried out later |
| Graph install, graph run | phase, pending | install, activate, start, stop, poll | reports whose parts lag; late copies; restarts | complete means active, or quiescent; each run ends by its own stop |
| Telemetry | subscription, last event | subscribe, poll, accept, acknowledge | lost answers, a reloaded page | no silent loss; the page catches up |
| Waveform capture | phase, ranges, wish for the next | configure, arm, poll, stop, download, replace | lost stop, wrong range, posts against snapshots | what is shown is exact; release before replacement; captures end |
| Capability and visual documents | offset, bytes, digest, one list of assets | read a range, accept, reset, publish | restart with another firmware, byte bounds | what is shown belongs together, is right, and comes to be shown |
| Authoring session and history | workspace, probes, jobs, component; undo, redo, bytes | edits, undo, redo, import, save, reload | eviction, digests between documents, reused identities | whatever can be brought back is whole; one timeline |
| Graph analysis and order | colours, stack, passes | search, order | delays, transitions, several clocks | every cycle and nothing else is refused; the order respects what is read |
| Compiler, motion, partitions, catalogs | none (pure) | compile | numerics | left to their own tests |
| Widgets and files | widgets | render | none of its own | not modelled |

`PROJECT.json` lists the components with their sources and status, and the
hazards, each at its line.

## Modules

| Module | Models |
|---|---|
| `CacheDelivery` | `upload.rs`, `cache_delivery.rs`, and the device's cache as the client uses it |
| `ParticipantSchedule` | `schedule.rs`: the participant machine as operators on a record |
| `ScheduleDevice` | the firmware's job and schedule service, external |
| `StartBarrier` | abstract specification: what several devices promise together |
| `DistributedSchedule` | `distributed_schedule.rs` on an unreliable network, with any caller |
| `LiveJob` | `live_job.rs` and the job step of `browser_worker.rs`: the caller the coordinator really has |
| `RequestLifecycle` | abstract specification: what a session promises of a request |
| `HttpSession` | `http.rs`, the opening and the counter seed of `wasm.rs`, against a device with a replay window |
| `ControlWorker` | the table, tasks, commands, ticks and retained job of `browser_worker.rs`, and the page's mirror |
| `ClockProbe` | `clock.rs`, the probe of `wasm.rs`, the history of the worker |
| `HealthPolling` | `health.rs` and the worker's polls and resets |
| `Provisioning` | `network.rs` and the worker's binding to a boot |
| `GraphInstall`, `GraphRun` | the two machines of `graph.rs` and their drive functions |
| `WaveformCapture`, `TelemetrySubscription` | the two machines of `diagnostics.rs`, the worker's bursts and posts, the page's checks |
| `DocumentDownload` | `capability.rs`, `visual.rs`, identity, publication and the page |
| `Timeline` | abstract specification: a bounded line of sessions and a place on it |
| `AuthoringSession` | the editor's session, its history, import, saving and reloading |
| `GraphSimulation` | the cycle search of `analysis.rs` and the evaluation order of `simulation.rs` |
| `*_proofs` | theorems |
| `MC*` | instances for TLC |

`DistributedSchedule` extends `ScheduleDevice`, which extends
`ParticipantSchedule`; `LiveJob` extends `DistributedSchedule`. Three abstract
specifications are implemented through a refinement mapping: `StartBarrier` by
`DistributedSchedule` and `LiveJob`, `RequestLifecycle` by `HttpSession`,
`Timeline` by `AuthoringSession`. Definitions with a "Mutant:" or "Mutation:"
comment are wrong variants of the one that follows; they show that a property
depends on the code it is about.

`ClockProbe` to `DocumentDownload` model the services of one connection, which in
the worker are driven one exchange at a time by the same task and share only its
session. They are composed by two instances in which a behaviour belongs to one
service, chosen at the start: `MCDeviceServices` (network, installation, run) and
`MCDeviceDocuments` (telemetry, waveform, documents); `MCClockProbe` does so with
the two things heartbeats feed, and `MCGraphEditor`, which extends
`AuthoringSession`, with the editor and the analysis. What the services do to each other (a session dropped by one is dropped
for all; a new boot resets them) is in each of them as a step that may come at any
exchange, and in `ControlWorker` as a step of the connection. A property that an
instance checks is often the conjunction of what a module states under "Properties":
`NetworkIsTrue` of `MCDeviceServices`, for example, is the type invariant,
`ReportedIsTrue` and `NothingLingers` of `Provisioning`.

### CacheDelivery

`state[a]` is the `UploadState` of artifact `a` and `pending[a]` the emitted
action. `NextRequest`, `AcceptResponse` and `AbandonPending` are the methods of
`ParticipantCacheDelivery` with the machine they forward to; the five upload
states and the chunk arithmetic are those of `upload.rs`. Bytes are lengths. The
device keeps a transaction per artifact (a durable prefix) and the published
artifacts; `late` holds requests the client has abandoned and the device may
still execute, in any order, because the firmware's replay window accepts an
older counter it has not seen. A finalize may be interrupted before publication.

### ParticipantSchedule, ScheduleDevice, DistributedSchedule

A report is abstracted to its owner (this prepare id or another), the joint state
of the service and real-time actors, the schedule state, whose commit it carries
(this coordinator's, or `"Prior"`: one an earlier browser session bound to the
same job) and the lease. `PhaseOf` is `observed_phase`, `CanBegin` and `Begin`
the `begin_*` methods, `Accept` is `accept_response` with `validate_report`,
`replaceable_foreign_terminal` and `job_report_advances`.

`GlobalPhase` is the coordinator's `phase`, one operator per intent. `Operation`
and `First` are `next_request`: participants in canonical order, a pending one
is passed over, an ambiguous one is inspected, the first operation or error
decides. `FaultCleanup` is part of accepting a response, as in the code.

Device clocks are four epochs per device, cut by the confirmation deadline, the
abort guard and the start. Two devices' epochs differ by at most one step. This is an
assumption: the worker puts the deadlines whole seconds apart, and a commit is
bound only with a prediction whose uncertainty is within the sampling policy's
bound, which is taken to be smaller; nothing in the code compares the two. The
proofs do not use it. The confirmation window the browser sees as open is open
on every device, because the conservative estimate is never earlier than the
device's clock. A prior commit's clock is unknown: its deadlines pass at any time.

Every step the caller can take is an action that may come at any time, as the
coordinator's documentation allows: this is `Spec`, the specification that the
proofs are about. It keeps one request in flight per device. It has a bound on
faults (losses, refusals, device faults) and on leases; nothing else is bounded.

### LiveJob

`LiveJob` restrains that caller to the program's own: `Tick` is
`take_live_job_task` followed by the send, in the code's order (pending start,
queue, sweep, next request, confirmation, renewal, status round);
`RequestStart` and `RequestStop` are the commands; `FetchAnswered` and
`FetchFailed` the two ends of `perform_live_job_operation`; `BindingFault` a
participant that no longer matches, which may be found while a start waits for another
one to be idle, and `DropPendingStart` the start that is dropped after it. A `Tick` is
one that finds every participant idle and qualified; one that does not is a stutter
here and is `ControlWorker`'s subject. At most one request is in flight. The caching
stage is one step, being `CacheDelivery`'s subject.

### HttpSession and RequestLifecycle

`session` is `AuthenticatedHttpSession`; `OpenSession` is the opening on a boot
challenge with the counter seed of the wall clock (`Seeds`), `BeginRequest`,
`AcceptResponse`, `AbandonPending` and `RebindBoot` its methods. `signed` and
`accepted` are ghosts. The network keeps every signed request and every response
for ever and delivers any of them, twice if it likes. The device's window
(`Admits`) is the one the documents describe: a counter above the highest seen, or
inside the window and unseen. A signature is what it binds: nonce and counter of a
response. Sequence and correlation wrap at `SeqModulus`, the counter ends at
`CounterMax`. The seed is above all counters spent because a page cannot spend
counters faster than `PerMs` for every millisecond of the clock (`Paced`), an
assumption about the wall clock that the code makes as well.

### ControlWorker

`worker.devices[c]` is the `DeviceEntry` of connection `c` (absent, idle or busy),
`worker.tasks` the futures that hold what was taken out of the table,
`worker.posted` the messages to the page, `worker.job` the retained job with its
bindings. `Tick` is one run of the timer: a pending start, the job, then the
connections, in this order; `TaskEnds` a completion, whose outcome is decided when it ends;
`Configure`, `Disconnect`, `StageCachedJob`, `StartCachedJob`, `ClearCachedJob`
and `LaunchByCommand` the commands. A tick looks at the job's participants one by one,
in any order of their connections, so that one which is busy or unqualified puts the
step off and one which does not match faults the job, whichever comes first
(`TakeJobTask`). A pending start fails, is refused for want of a timing, or begins
(`FailedStart`, `RefusedStart`, `BegunStart`). A heartbeat that was answered need not qualify
the connection (`Answered`). `MaxFaults` bounds restarts, losses and samples that do not
qualify. `PageReceives` is the page's `apply_snapshot`. Of the job only its claim on
connections is kept, `LiveJob` being its subject; job snapshots, retry delays and
the replacement of a device by another are left out.

### ClockProbe and HealthPolling

A reading of the browser's timer is any within `TimerError` of the time and need
not be whole. The clock model keeps an interval of possible boot starts; the
estimator is an external crate and is modelled as intersection. `Connect`,
`Probe*`, `Answered` follow the task from the opening of a session to a recorded
observation, with a failing path for every call in it.

In `HealthPolling` a report has the cycle at which it was formed and two stack
measurements, of which progress is kept; the realtime core's may be absent. `link`
has the boots of session and clock model and the identity: the evidence is
forgotten at four places, each of which is a step of its own here.

### Provisioning, GraphInstall, GraphRun

Three machines of one shape: `NextRequest`, `AcceptResponse`, `AbandonPending`, and
a device that may execute what was abandoned later (`late`), lose its answer, or
restart. In `Provisioning` the device observes a mutation once and only if its
transaction is newer and its generation current; other pages mutate the same
device. In the two graph modules one report carries the service's phase and the
realtime core's state, which lags. `GraphRun` treats the coordinator's and the
realtime core's rejection as one unexpected phase; its device may fault while it
executes.

### WaveformCapture, TelemetrySubscription, DocumentDownload

Each goes from the machine to the page: the worker's burst after a heartbeat, what
it posts in which order, and the page's checks against its last snapshot.
`posted` is the message queue. Chunks of a record, ranges of a document and
telemetry events are numbers with a flag for a wrong one. In `DocumentDownload`
documents are known by their firmware; the identity is read outside the session,
so that it may be of another firmware than the capability.

### AuthoringSession, Timeline, GraphSimulation

`session` is the `GraphAuthoringSessionDocument`; each edit of
`control_graph_ui.rs` is an action that prepares a next session and commits it
with the prior one recorded (`Commit`). A node has one input and one output,
"text" stands for whatever else an edit replaces, a digest is the number of the
edit that made the workspace, a byte is a node, wire, probe or component.
`Imported` admits what `try_new` admits. `ResetDraft` commits the reference itself, with
its revision and its cursors, as one more edit of the same history. `EditComponent` is
what every edit of the component, its front panel, hierarchy and library comes to
(`commit_component_dependency_document`, `commit_hierarchy_document`): another content,
recorded, with everything else of the session kept; a later edit of the workspace keeps it
(`ComponentFor`).

A workspace carries its `line`, a ghost: which document its identities come from. An
import and a reset begin a new one, because the cursors are then those of another
document and the code gives identities out anew. What `IdentitiesAreUnique` says is of
the nodes and wires of one line; of two lines, or of probes, it would be false of the code
(see "Met while modelling").

`GraphSimulation` takes nodes (`Shapes`) and the wirings of them that are looked at
(`Wirings`, each one that the document admits: `Assumption`) and runs the cycle search
one edge, and the passes one node, at a time. A port has a place, by its node and
number; the sorted edges of a port are the places it feeds, and the search goes on
from the place after the last one taken. `HasCycle` is the reference definition of the
verdict, independent of the search.

## Runs

| Run | Configuration | Shows |
|---|---|---|
| `cache_delivery` | partition of 5 bytes and manifest of 1 in chunks of 2 (two full chunks and a short one; one short chunk), any durable prefix or publication left by an earlier session, 3 faults | `CompleteIsPublished`, `ManifestAfterPartition`, `PrefixAgreed` (what was accepted is durable, what is durable can be resumed) and, under fairness, `Delivered` |
| `distributed_schedule` | 2 devices, each with a foreign finished job, this job prepared, or this job installed under a prior commit; any caller; 1 fault | the barrier (`AllInstalledBeforeAnyConfirmed`, `ImplementsBarrier`), what the browser concludes (`OutcomesHold`, `CorrectReportAccepted`), and that stops and guards are final (`EndsAreFinal`) |
| `attended_lease` | 1 attended device in every retained state, leases to 4, 3 faults | `LeaseAgreed` |
| `live_job` | the program's driver, 2 fresh devices, 1 fault, fairness | `BecomesReady`, `ConfirmedEnds`, both provided that ticks keep finding the participants idle (`TicksFindAllIdle`) |
| `live_job_stops` | the driver of an attended job, 2 devices fresh or started by an earlier session, stop commands at any time, 1 fault | `JobIsTrue` (outcome and leases), `JobKeepsOrder` (the barrier; a sweep before any mutation) |
| `stop_during_round` | the driver, smallest instance that shows it | a disagreement, see below, under the same hypothesis |
| `http_session` | counters to 8, words of 1 bit, window of 4, 4 requests, 2 boots, reloads at any time | `AnswersOwnRequest`, `FreshIsNotReplay`, `KeepsLifecycle` |
| `clock_probe` | timer error of one nanosecond, 3 probes, 2 boots, 2 identities; for health 3 boots of 2 firmwares, cycles to 3, 1 loss | `OffsetInside`, `HistoryOfOneBoot`, `NeverInconsistent`; `HealthEvidence` (of the session's boot, no true report refused), `HealthFollows` (no regression; it comes to be known) |
| `control_worker` | 2 connections, a job of 1 request in each half over one or both, 2 generations, 2 boots each, 1 loss, restart or sample that does not qualify, 2 commands, 2 messages in the queue | `OneOwnerEach`, `JobOnBoundBoot`, `PageMirrorsAtRest`, `WorkGoesOn` (starts end, connections recover, jobs of one progress) |
| `device_services` | 4 network transactions and 3 events, 2 packages, 2 runs, 2 losses, 2 boots | `NetworkIsTrue`, `InstallIsTrue`, `RunIsTrue`, `TransactionsEnd` |
| `device_documents` | 3 telemetry events of which the page keeps 2, 1 reload; 2 captures of 2 ranges, 1 fault; 2 firmwares with visuals that fit exactly and that do not fit; 2 boots, 1 loss | `TelemetryIsTrue`, `WaveformIsTrue`, `DocumentIsTrue`, `DocumentsArrive` |
| `graph_editor` | 3 identities, 3 edits (of workspace, probes, jobs or component, resets and imports) with any undos and redos among them, 2 uses of the browser's storage (a save or a reload), 2 snapshots each way and 11 bytes; every wiring of 8 nodes on 2 clocks | `SessionIsWhole`, `IdentitiesAreUnique`, `ChangesAreOffered`, `ImplementsTimeline`; `GraphIsRight` (a cycle is refused, and shown, exactly when there is one; each node is computed once and after what it reads, and no group is stuck), `GraphEnds` |

Type invariants are checked as a part of these, or proved (`CacheDelivery`,
`HttpSession`, `ClockProbe`, `DistributedSchedule` within `BarrierInv`, `ControlWorker`
within `OwnerInv`, `GraphSimulation` within `GraphInvariant`). `DocumentsArrive` leaves
out the visual declared last, of which the code reads one range (`MCVisualLast.cfg`).

Why the bounds are enough. Two devices are what a barrier, a split outcome and
a fault among peers need; the order among participants matters only pairwise,
and the barrier is proved for any number. One fault in the two-device runs is one
loss, refusal or device fault at every point; more of them on one device are in
`attended_lease` and, for uploads, in `cache_delivery`. Three chunks separate the
first, a middle and the short last one. Leases to 4 allow a renewal to be lost and
another to be granted on top of it. Once the job is prepared, what the devices held
before no longer matters, so the two-device runs start from the three cases that
reach the start differently.

Of the services: two boots are an old and a present one, and whatever was kept over
a restart is kept over one (health has three, because evidence could survive one
restart and be compared after the next). Two transactions, packages, runs or
captures are an earlier one with late copies and the present one; a network has
four, because another page's and two of its own may meet. Words of one bit wrap
within four requests and a window of four is left by later counters. Two losses
are needed where a copy has to stay under way while its successor is lost as well.
Two connections are what a replaced connection, a job and a probe compete for. In
the editor, two snapshots each way with a byte bound below theirs reach eviction by
either bound on either side; three identities are two nodes that are wired and one
that is deleted and given out again. The eight nodes contain what the order
depends on: a source, gates of one clock that can form a cycle, a delay that breaks
it, two transitions in a row, a gate on the other clock and a sink.

`CHECK_DEADLOCK FALSE` in every run but `clock_probe`, where there is always a
step: a delivered job, a finished run, an editor nobody uses do stop.

### Fairness

The same facts justify it everywhere: the worker's `setInterval` timer goes on; a
fetch ends, with an answer or an error, and is handled; a device answers what
reaches it, works, and its clock runs. The code sets no timeout on a fetch, so the
second rests on the browser's network stack. Then:

* `cache_delivery`: weak on `NextRequest`, `DeviceExecute`, `AcceptResponse`.
* `live_job`: weak on `FetchAnswered`, `DeviceExecute`, `DeviceProgress`, `Elapse`. Not on
  `Tick`: the timer goes on, but `take_live_job_task` (`browser_worker.rs:2017`) does nothing
  unless it finds every participant idle and qualified, and nothing in the code makes that
  happen for several devices. It is the hypothesis `TicksFindAllIdle` of
  `BecomesReady`, `ConfirmedEnds` and `StopEnds`: an implication in the property,
  no fairness of the specification. For a job of one connection `control_worker`
  shows that its turn comes (`JobOfOneProgresses`); for two `MCWorkerTwo.cfg` shows that
  heartbeats can hold one of them at every tick, and then the job stands still.
* `clock_probe` (health): weak on every step of the task, strong on a heartbeat
  after which a poll is due, because the interval between polls elapses and the
  heartbeats go on.
* `control_worker`: weak on ticks with every connection due and on the page's
  reception; strong on the end of a connection's fetch, because the bound on the
  message queue can hold its completion back now and then.
* `device_services`: weak on request, answer and acceptance, on what the firmware
  does by itself, and on giving up a request of an earlier boot, which the session
  refuses.
* `device_documents`: the same, with bursts and the page's reception. The
  losses are finite, so an exchange that is tried again is answered in the end.
* `graph_editor`: weak on the steps of the analysis; nothing about the user.

Not assumed: that the operator starts, stops or edits anything, that a late
request ever arrives, that faults happen. Losses are finite; under a loss at every
attempt nothing progresses and nothing should.

## Disagreements

### The run `stop_during_round`

`request_stop` (`live_job.rs:555`) clears the status queue without abandoning the
participants whose requests it drops. They stay pending, are passed over for ever
and are never aborted, while `begin_abort` documents that it "switches all
still-reachable installed work to pre-guard abort reconciliation".

### Refuted statements

Statements that the source or its documents make, or suggest, and that the code
does not keep. Each is a definition marked "Refuted" with a configuration that
finds the counterexample; they are not part of the passing runs.

| Configuration | Module | Statement | What the code does |
|---|---|---|---|
| `MCLiveJobOutcome.cfg` | `MCLiveJob` | `CancelledIsClean` | the cancel phase (`distributed_schedule.rs:421`) does not look at `reconciliation_required`: after a lost prepare a stop is `Cancelled` at once though the device may hold the prepared actors; `Cancelled` is documented as "every precommit participant is absent or fully cancelled" |
| the same, with `-continue` | `MCLiveJob` | `FaultedIsPrevented` | with one participant expired under the confirm intent the job is `Faulted` and terminal (`distributed_schedule.rs:405`) although another, confirmed one will start; `Faulted` is documented as having "prevented the global job" |
| `MCLiveJobAttended.cfg` | `MCLiveJob` | `HealthyJobGoesOn` | a renewal that falls due after one of several devices has completed is an error (`browser_worker.rs:2187`) that faults a healthy attended job |
| `MCLiveJobPredecessor.cfg` | `MCLiveJob` | `BecomesReady` | a terminal predecessor is replaceable only while there is no report at all (`schedule.rs:388`); if the prepare that should replace it is lost before execution, each later status shows the predecessor, is refused, and the job inspects for ever |
| `MCGraphRunFault.cfg` | `MCDeviceServices` | `RunFaultSelectsStop` | "execution faults select the stop automatically" (`wasm.rs:1096`), but a `Running` machine asks for nothing (`graph.rs:521`), so a fault after the start is not seen |
| `MCWaveformRelease.cfg` | `MCDeviceDocuments` | `WaveformStopEnds` | a stop whose answer was lost, of a capture that another has replaced on the device, is reconciled for ever (`diagnostics.rs:650`, against `AUTHENTICATED-DIAGNOSTIC-CLIENT.md:125`) |
| `MCWaveformRepeat.cfg` | `MCDeviceDocuments` | `WaveformPostedIsShown` | a repeated capture that completes within one step is posted before the snapshot that names it (`browser_worker.rs:3069`), the page refuses it, and it is not posted again (against `LIVE-CONTROL-WORKER.md:224`) |
| `MCVisualLast.cfg` | `MCDeviceDocuments` | `EachVisualShown` | once as many downloads exist as assets are declared, `ensure_next_visual_download` answers no before it asks whether the last is under way (`browser_worker.rs:647`): the asset declared last, or the only one, is asked for one range and never completes if it has more or the range is lost (against `BOARD-EXPLORER-V1.md:123`, each declared raster is downloaded in contiguous ranges) |
| `MCWorkerTwo.cfg` | `MCControlWorker` | `JobProgresses` | a job of two waits until both are idle (`browser_worker.rs:2017`); heartbeats can hold one of them at every tick (against `LIVE-CONTROL-WORKER.md:177`) |
| `MCWorkerFault.cfg` | `MCControlWorker` | `FaultIsUnrecoverable` | a session opened again after one loss forgets the configuration, and the next tick faults the job (`browser_worker.rs:2025`) although the device is the same; `mark_fault` (`live_job.rs:575`) is documented for unrecoverable failures |

Met while modelling, without a definition of their own: deleting an observed node
lets its probe's identity be given out again, against the documents' "never
reused" (`GRAPH-PROBE-V2.md:143`, `TYPED-GRAPH-V1.md:512`); a reset of the draft
(`control_graph_ui.rs:8620`) puts the identity cursors back to the reference's within one
history, so that a node added before it and another added after it have one identity in
two sessions that undo can reach, although typed edits "never reuse deleted
identities" (`TYPED-GRAPH-V1.md:62`) and the cursors are called monotonic
(`GRAPH-WORKSPACE-V1.md:31`); the analysis admits a
rate transition behind a clocked node, which the simulator cannot run
(`OrdersAreRight` proves that these are the only such graphs); a stored
authoring session that is no longer admitted is replaced by the reference and
overwritten at the next save (`control_graph_ui.rs:2772`).

## Proofs

### CacheDelivery (`CacheDelivery_proofs`)

For every object length, chunk length and number of faults:
`DeliveryTypeOK`; `CompleteIsAlwaysPublished`; `ManifestAlwaysAfterPartition`;
`PrefixAlwaysAgreed`. `CompleteIsPublished` is not inductive: what must be known is
that an answer which will make the client believe in a publication (a `Publication`
to an inspection, an `EmptyOk` to a finalize) exists only for a published artifact,
and that the live request and the answer belong to the one pending artifact. The
manifest's order follows, since a request for the manifest is built only when the
partition is Complete, hence published, and a published artifact stays so.

For the prefix (`PrefixInv`) the device's transaction is always a whole number of
chunks, or the object (`ChunkCover`: only the last chunk may be short, and it ends
the object), and every count of chunks that the client's state or an answer names
is `Durable`: the device holds that many, or has published the artifact.

### DistributedSchedule (`DistributedSchedule_proofs`)

For every number of participants, faults and leases, both policies, and any
retained devices out of `RetainedDevices`:

* `BarrierInvariant`: `Spec => []BarrierInv`;
* `InstalledFirst`: `Spec => []AllInstalledBeforeAnyConfirmed`;
* `Implementation`: `Spec => ImplementsBarrier`, with the initial states and every
  step mapped to a barrier step or a stutter.

The barrier is not inductive. The coordinator confirms because its *reports* say
installed; the proof needs that old reports still mean something. `BarrierInv`
has four parts. *Known*: a device's commit and state belong together, and a
report once read bounds the device for ever (who was prepared holds no prior
commit, who was installed holds some commit). *NoPriorOnceBound*: when the commits
are bound every report says prepared, so no device holds an earlier session's
commit from then on; together they make "installed" mean "installed by this
coordinator". *ConfirmCovered*: either every device already holds this commit, or
the coordinator has not opened confirmation and no confirm request, live or late,
exists. Types complete it. Lemmas state what executing a request, progressing and
faulting do to one device (it stays coherent, it keeps what a report bounded, only
a confirm gives start authority); the main proof has one step per action.

* `OutcomeInvariant`: `Spec => []OutcomeInv`; from it `OutcomesAreTrue`,
  `ReportsAccepted` and `LeasesAgree`;
* `EndsFinal`: `Spec => EndsAreFinal`, an action property.

`OutcomeInv` orders what is known of a device in time. *Chain*: the report the
machine has, the report that is under way and the device itself come one after
another (`Later`), and each is coherent in itself. Two reports so ordered pass
`job_report_advances` (`ReportAdvances`), which is why no correct report is refused,
and a report that is final is still true of the device. *Authority*: every install or
renewal that may still be executed, late copies included, was recorded by its
machine before it was sent, so the device's lease never exceeds what was authorized.
*Targeted* and *Cleaning* tie the intent to the binding of the commits and a
cleanup to a participant whose fault stays visible. `EndsFinal` follows from both
invariants: a step back would need a report that contradicts what was known.

Assumptions: `ParticipantAssumption`, `BoundAssumption`, `RetainedAssumption`,
`PolicyAssumption`, `PlanAssumption` and `FaultAssumption`, which TLC evaluates on
every run.

### LiveJob (in `DistributedSchedule_proofs`)

For the program's own driver, with any number of participants: `JobInvariant`;
`JobsAreTrue`; `JobsKeepOrder`. A step of the driver is a step of the coordinator's
`Spec` except where it does more: it queues a round and sends it one request at a
time, and it changes what is queued, swept or asked for. `Held` is `BarrierInv`,
`OutcomeInv` and `JobInv`. *QueueDecided*: what is queued is a status request, or a
renewal no longer than what everybody's machine has recorded, so sending it later,
after any other event, disturbs neither barrier nor leases (`RoundKeeps`).
*NothingBetween*: a start that was asked for begins while nothing is in flight and
the job is still Ready, or is dropped because a participant was found changed in
between (`DropPendingStart`); a sweep that is due has nothing queued before it; commits
are not bound while the intent is to prepare. `JobInv` was checked by TLC on
`live_job_stops` before it was proved.

### HttpSession (`HttpSession_proofs`)

For every counter width, word width, window, number of requests and of boots:
`SessionTypeOK`; `CountersNeverReused`; `AnswersAreOwn`; `NeverMistakenForReplay`;
`SessionKeepsLifecycle`, the refinement of `RequestLifecycle`. None is inductive.
Counters are not reused because every signed counter of the present nonce lies
below the session's next one, or, after a reload, below what the clock allows for
(the pacing). An answer is the pending request's own because a response verifies
only with the nonce and the counter it answers, and counters tell requests apart;
sequence and correlation are not used. A pending request that is new to the device
is above everything the device has seen, hence inside its window. The refinement
needs that only signed requests are handled and that an answer exists only for a
handled one. The assumptions on the constants are named in `HttpSession`.

### ClockProbe and HealthPolling (`ClockProbe_proofs`)

For every timer error, history and number of boots: `ClockTypeOK`;
`TrueOffsetInside`; `NoProbeLeftBehind`; `HonestIsConsistent`; `RecordsOfOneBoot`.
The inductive invariant says what the exchange on its way knows: a pending send
reading is not after the true time of sending, the device's cycles were read at
times between sending and now, both of the boot the exchange names. Each observation
then intersects the interval with one that contains the true start. The history
stays of one boot, in the order of its probes, because the probe on its way is later
than every record (`ProbeIsLatest`).

`HealthIsEvidence`, for every number of boots, cycles and losses: the evidence the
page shows is of the session's boot, and no report of a healthy device is refused.
It needs that evidence of the device's present boot is never ahead of the device
(`NeverAhead`); then an honest report follows on (`HonestFollows`), and evidence of
an earlier boot is gone before the first report of the next can come. `PollBounds`
are the assumptions on the bounds.

### ControlWorker (`ControlWorker_proofs`)

For any number of connections, boots, generations and messages: `WorkerInvariant`;
`OwnersReturn`; `JobsOnBoundBoots`; `PageMirrors`. `OwnerInv` says who owns what:
a busy connection has exactly one task of its present generation and an idle one has
none (`OwnersUnique`; late tasks of replaced connections are of earlier
generations), a busy job has exactly one task, which owns the connection it
uses, on the boot and generation the job was compiled for (`JobOwned`). `PageInv` is about the
queue as a whole: the messages under way, applied in their order to what the page
shows, lead to what the worker knows (`LeadsTo`). A worker's step extends this trace
by what it posts, a reception shortens it by one, and with nothing under way page
and worker agree.

### DeviceServices (`DeviceServices_proofs`)

For any number of transactions, runs, losses and restarts, under the
`BoundAssumption` of `MCDeviceServices`: `NetworksAreTrue`, `InstallsAreTrue`,
`RunsAreTrue`. One invariant per service, whose parts share a shape: requests are
the machine's, old answers are still true, late copies can do no harm.

* Runs: every stop names a run that is over or that is to end, and a report of both cores
  stopped in the device's present run stays true until it is read, because only a
  start of a later run ends the quiet. Once the machine is Complete no copy of its
  start can be admitted any more.
* Installations: a report is `Truthful` for ever, because what it tells of a
  transaction (`seen`) only grows; the realtime core is where the service has seen
  it or behind (`DeviceOfInstalls`); an activation exists only for a transaction that
  asked for it.
* Networks: an own transaction is observed at most once, since the device takes only
  newer ones of the current generation and every change moves the generation on
  (`TransactionsOnce`); a late mutation that could still run is the one the page
  waits for (`LateIsAwaited`); what a status tells of the last transaction is
  what became of it (`Tells`).

### AuthoringSession (in `GraphEditor_proofs`)

For every bound and every validated import: `SessionInvariant`; `SessionsAreWhole`;
`IdentitiesStayUnique`; `ChangesOffered`. Everything within reach of undo, redo
and a reload was admitted by the validation (`Admitted`), and along the history each
session is of a later line than those before it, or follows them (`Ordered`, `Follows`: an
identity below the earlier cursor is used for the same thing in both, or not at all).
An import or a reset of the draft takes the cursors anywhere, and therefore begins a later
line. Within a line undo takes the cursors back, but what is then created again is
recorded after a cleared redo, so it never meets what it might contradict. The exact byte count needs sums over
sequences; what a recursive function computes is shown by the smallest argument for
which it would not (`SmallestOf`), as the library's induction theorems take an
operator that the provers cannot instantiate.

`HistoryIsTimeline` is the refinement: `Spec => ImplementsTimeline`, the history is a
line of sessions with a place in it, which remembers as much as its bounds allow. The
undo stack is the past, the redo stack read backwards the future. Every step of the
editor is a record, an undo, a redo, another history or leaves the sessions
alone (`StepKinds`), and each is a step of the line (`RecordIsChange`, `UndoIsUndo`,
`RedoIsRedo`). The two loops of `enforce_limits_for`, each cutting one stack, together
forget the fewest sessions (`LimitsForgetFewest`): when the first stops before its stack
is empty, what is left fits, so the second takes no turn; cutting the oldest of a
stack cuts an end of the line, and a stack reversed weighs the same
(`CutOfReverse`). `EditorIsSession` carries it to the run's specification, where the
analysis takes steps of its own.

### GraphSimulation (in `GraphEditor_proofs`)

For every set of nodes, clocks and validated wirings, and any limit of the witness:
`GraphInvariant`; `VerdictsAreRight` and `OrdersAreRight`, together `GraphsAreRight`. The only assumption is
`GraphAssumption`, what a validated document has.

* The search (`SearchInv`). The grey ports are the stack, and the stack is a path along
  the parents (`PathOfSearch`), so an edge to a grey port closes a cycle, and reading the
  parents back from the top gives it (`BackIsPath`): parents set at other times do not
  matter, because those of the ports on the stack are the path's. What a port on the
  stack feeds and was looked at is black or next on the stack (`LookedAt`); a port
  that is popped therefore feeds black ports alone, and a circle through it would have to
  leave the black ones (`BlackIsDone`). At the end all ports are black, so no ports feed
  each other in a circle, and no nodes do (`CycleIsCircle`, `CircleIsCycle`).
* The passes (`OrderInv`). A node that is not computed waits, once (`Waiting`), and what
  was deferred in a pass without progress is not ready. In a group all that a deferred gate
  can lack is another deferred gate, so a stuck group would be a set of nodes that read
  each other, a cycle, which the search has excluded (`GroupNotStuck`). Among the transitions
  what is stuck and not behind a clocked node would be such a set as well
  (`StuckTransitions`), and when none is stuck none was behind one (`NoneBehind`). So
  `OrderInv` needs `VerdictsAreRight`. The group that follows has its streams
  (`OrderOpens`), since the clocks are taken from the smallest on.

`BehindClocked` is chosen among the fixed points of its definition, which exist as the
union of the sets that ask for themselves (`BehindClockedIs`). That a recursion has a
solution (`InOrderExists`) is shown by the smallest argument up to which it would have
none. `OrderInv` was checked by TLC on `graph_editor` before it was proved.

### DeviceDocuments (`DeviceDocuments_proofs`)

For every bound, every set of firmwares, and any sizes of captures, capabilities and
visuals, under `BoundAssumption` and `DocumentAssumption` of `MCDeviceDocuments`:
`TelemetryAlwaysTrue`, `WaveformAlwaysTrue`, `DocumentAlwaysTrue`. A behaviour is of one
service, so each has an inductive invariant of its own, which TLC checked before it was
proved.

* Telemetry (`TelemetryInv`). Every event anybody holds, the machine, an answer, a message
  or the page, is anchored to the device by the number of events acknowledged before it
  (`Rank`: its sequence less its loss count). At most one event, the one last taken, is
  acknowledged between two that follow each other (`Continues`), and no request acknowledges
  more than was seen. The queue leads the page, message by message (`Leads`), to the
  machine's progress.
* Captures (`WaveformInv`). Once a device said so it holds the machine's capture, and
  before that an earlier one only if that was released (`KnowsDevice`); a late copy can
  then do no harm, and an answer still holds when it is accepted. Records are
  sent once, in order and exact, up to `LastSent`.
* Documents (`DocumentInv`). What the worker has is whole (`Whole`: capability, visuals and
  what was published are of one firmware), an exchange under way fits what waits for it
  (`ExchangeFits`), and the page follows: the messages to come, applied in order (`Takes`),
  lead to a page that agrees with the worker, or to one that the next snapshot clears.

### Model-checked only

Liveness (`Delivered`, `ConfirmedEnds`, `BecomesReady`, `HealthFollows`,
`TransactionsEnd`, `DocumentsArrive`, `WorkGoesOn`, `GraphEnds`) and `ENABLED` are outside
what the prover does and stay with TLC. Every invariant, action property and refinement
that a passing run checks is proved for all values of its constants. The refuted
statements are refuted on their instances.

Proving changed the models in form, not in meaning: recursion is written as
recursive functions, a `CASE` whose guards overlap, which leaves its value open, as
a chain of `IF`s in the order of the code, and constants have their assumptions. The
sizes of the documents, which were numbers of the instance, are constants.

## What is not modelled

* Cryptography, framing and encodings: a signature is what it binds, a document is
  what it identifies. `lib.rs` and `worker.rs` of the client are formats; of the
  worker contract only the checks that depend on an order of messages are modelled
  (`Valid`, `Admits`, `Keeps`).
* The clock estimator, which is in another repository: an intersection of
  intervals here. `DistributedSchedule` uses of it what is stated there.
* The firmware, which is in another repository. Its services are modelled from what
  the client sends and accepts and from the test fixtures, and marked external. A
  device that refuses a network mutation without a reason, or faults an
  acquisition, is met a bounded number of times.
* Telemetry is never unsubscribed by the worker; configuration status is only
  observed; job snapshots, retry delays and several jobs one after another are
  left out of the worker. What a finished job leaves on the devices is what
  `Retained` of `LiveJob` starts from.
* Checks on data on which no modelled decision rests. The rounding of the one
  product of floating-point numbers in `clock.rs:46` before it is floored: an
  exact number in `Earliest`. The test that a
  successful network status expects the access point (`network.rs:574`): the devices
  of `Provisioning` always do. The fault field of a graph report (`graph.rs:351`): a
  coordinator that names a fault is taken to be in its phase Rejected (`Rejects`). The
  minimum period between telemetry snapshots (`diagnostics.rs:375`), which honest
  devices keep (`Admits`).
* The content of hierarchy and component packages, lowering to fixed memory, catalogs, formats of
  documents, values of a simulation, traces and the replay: deterministic
  computation over large inputs, which bounded instances would not enlarge the
  tests of.
* Compilation, motion and evidence: exact numbers, no state.
* Rendering and file dialogs.

## Plan

Done: all modules planned so far. What remains, in this order.

1. The hierarchy editor (the content of `hierarchy.rs`, one action in `AuthoringSession`
   so far) on top of `AuthoringSession`.
2. The job mirror of the page and two jobs after one another in `ControlWorker`.

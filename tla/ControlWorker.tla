----------------------------- MODULE ControlWorker -----------------------------
(***************************************************************************)
(* The control worker's table of connections, the tasks that take a        *)
(* connection out of it while a fetch is under way, the retained job that  *)
(* competes for the same connections, the commands of the page, and the    *)
(* view the page builds from the worker's messages.                        *)
(*                                                                         *)
(* Rust calls that run without an await are one step here; what a task     *)
(* awaits is its outcome, decided when it ends.  Of a connection's state    *)
(* the module keeps the boot its session signs for, the boot its clock     *)
(* model belongs to, whether the clock is qualified, the configuration     *)
(* known and the capability document complete.  Of the job it keeps the     *)
(* bindings, what is left to do and whether it faulted; LiveJob has the rest.*)
(***************************************************************************)
EXTENDS Integers, Sequences, FiniteSets

CONSTANTS
    Conns,          \* connection identities
    JobOps,         \* requests in each half of a job
    MaxGenerations, \* bound on generations
    MaxBoots,       \* bound on boots of a device
    MaxFaults,      \* bound on restarts, lost exchanges and samples that do not qualify
    MaxCommands,    \* bound on commands other than Configure
    MaxQueue        \* bound on messages the page has not taken

ASSUME BoundAssumption ==
    /\ JobOps \in Nat \ {0} /\ MaxGenerations \in Nat /\ MaxBoots \in Nat \ {0}
    /\ MaxFaults \in Nat /\ MaxCommands \in Nat /\ MaxQueue \in Nat

VARIABLES
    worker,     \* ControlWorkerRuntime, its tasks and the messages it posted
    page,       \* MutableSupervisorView
    boot,       \* each device's boot
    faults, commands    \* bounded events so far

vars == <<worker, page, boot, faults, commands>>

-----------------------------------------------------------------------------
(* Values.                                                                 *)

Boots == 0..MaxBoots            \* 0 stands for none
Generations == 0..MaxGenerations
Kinds == {"Connect", "Probe", "Network", "Job"}

\* DeviceState
Devices ==
    [generation : Generations, session : Boots, clock : Boots, qualified : BOOLEAN,
     configured : BOOLEAN, capability : BOOLEAN, announced : BOOLEAN]
FromRequest(generation) ==
    [generation |-> generation, session |-> 0, clock |-> 0, qualified |-> FALSE,
     configured |-> FALSE, capability |-> FALSE, announced |-> FALSE]

\* DeviceEntry; a busy entry keeps the state from before its task.
Entries == [state : {"Absent", "Idle", "Busy"}, device : Devices]
Absent == [state |-> "Absent", device |-> FromRequest(0)]

\* JobEntry; of the faulted jobs, Faulted are those with a participant that no longer
\* matches or is not ready, Refused those whose timing could not be had.
Bindings == [Conns -> [generation : Generations, boot : Boots]]
Jobs == [state : {"None", "Idle", "Busy"},
         phase : {"None", "Caching", "Ready", "Starting", "Done", "Faulted",
                  "Refused"},
         left : 0..JobOps, binding : Bindings]
Unbound == [generation |-> 0, boot |-> 0]
NoJob == [state |-> "None", phase |-> "None", left |-> 0, binding |-> [c \in Conns |-> Unbound]]

\* DeviceSessionSnapshot
Snapshots == [generation : Generations, boot : Boots, qualified : BOOLEAN,
              configured : BOOLEAN, capability : BOOLEAN]
SnapshotOf(device) ==
    [generation |-> device.generation, boot |-> device.clock, qualified |-> device.qualified,
     configured |-> device.configured, capability |-> device.capability]
NoSnapshot == SnapshotOf(FromRequest(0))
NoDocument == [generation |-> 0, boot |-> 0]
Views == [devices : [Conns -> Snapshots],
          documents : [Conns -> [generation : Generations, boot : Boots]]]

Tasks == [conn : Conns, generation : Generations, kind : Kinds, boot : Boots]

Messages == [kind : {"Snapshot", "Capability", "Removed"}, conn : Conns, snapshot : Snapshots]
Message(kind, c, device) ==
    [kind |-> kind, conn |-> c, snapshot |-> SnapshotOf(device)]

Workers ==
    [devices : [Conns -> Entries], tasks : SUBSET Tasks, generation : Generations, job : Jobs,
     pendingStart : BOOLEAN, posted : Seq(Messages)]

-----------------------------------------------------------------------------
(* The job and its participants.                                           *)

Bound(job, c) == job.state # "None" /\ job.binding[c].generation # 0
Participants(job) == {c \in Conns : Bound(job, c)}
Terminal(job) == job.phase \in {"Done", "Faulted", "Refused"}
Idle(w, c) == w.devices[c].state = "Idle"

\* Mutation: a participant is known by its generation alone.
MatchesGeneration(device, binding) ==
    device.generation = binding.generation /\ device.configured

\* validate_binding_identity
MatchesBinding(device, binding) ==
    /\ device.generation = binding.generation
    /\ device.clock = binding.boot
    /\ device.configured

\* The conditions under which a step of the job is put off.
ReadyForJob(device) == device.session # 0 /\ device.qualified

Faulted(w) == [w EXCEPT !.job.phase = "Faulted"]

\* begin_pending_job_start: the result, and whether it ended in an error.
StartFails(w) ==
    /\ w.pendingStart /\ w.job.state # "Busy"
    /\ \/ w.job.phase # "Ready"
       \/ /\ \A c \in Participants(w.job) : Idle(w, c)
          /\ \E c \in Participants(w.job) :
               LET device == w.devices[c].device
               IN  ~ (MatchesBinding(device, w.job.binding[c]) /\ ReadyForJob(device))
StartBegins(w) ==
    /\ w.pendingStart /\ w.job.state = "Idle" /\ w.job.phase = "Ready"
    /\ \A c \in Participants(w.job) : Idle(w, c)
FailedStart(w) ==
    [w EXCEPT !.pendingStart = FALSE, !.job.phase = IF @ = "Ready" THEN "Faulted" ELSE @]

\* A start whose participants all match may still be refused: an answer of the clock, a
\* prediction of the epoch or a lease that cannot be had (participant_start_inputs).
RefusedStart(w) == [w EXCEPT !.pendingStart = FALSE, !.job.phase = "Refused"]
BegunStart(w) ==
    [w EXCEPT !.pendingStart = FALSE, !.job.phase = "Starting", !.job.left = JobOps]

TakeDevice(w, c, kind) ==
    [w EXCEPT !.devices[c].state = "Busy",
              !.tasks = @ \cup {[conn |-> c, generation |-> w.devices[c].device.generation,
                                 kind |-> kind, boot |-> boot[c]]}]

\* take_live_job_task: participant by participant, one that is busy or not qualified
\* puts the step off and one that does not match its binding faults the job, whichever
\* comes first.  The confirmation of an installed job needs its timing once more.
TakeJobTask(w) ==
    LET participants == Participants(w.job)
        unready == {c \in participants : ~ Idle(w, c) \/ ~ ReadyForJob(w.devices[c].device)}
        mismatched == {c \in participants \ unready :
                         ~ MatchesBinding(w.devices[c].device, w.job.binding[c])}
    IN  IF w.job.state # "Idle" \/ Terminal(w.job) THEN {w}
        ELSE IF unready \cup mismatched # {}
          THEN (IF unready # {} THEN {w} ELSE {})
               \cup (IF mismatched # {} THEN {Faulted(w)} ELSE {})
        ELSE IF w.job.left = 0 THEN {w}
        ELSE {[TakeDevice(w, c, "Job") EXCEPT !.job.state = "Busy"] : c \in participants}
             \cup (IF w.job.phase = "Starting" THEN {[w EXCEPT !.job.phase = "Refused"]} ELSE {})

\* launch_job_step
JobStep(w) ==
    IF StartFails(w) THEN {FailedStart(w)}
    ELSE IF StartBegins(w) THEN {RefusedStart(w)} \cup TakeJobTask(BegunStart(w))
    ELSE TakeJobTask(w)

-----------------------------------------------------------------------------
(* Device steps.                                                           *)

\* launch_device_step: a busy or absent connection is left alone.
LaunchStep(w, c) ==
    IF ~ Idle(w, c) THEN w
      ELSE TakeDevice(w, c, IF w.devices[c].device.session = 0 THEN "Connect" ELSE "Probe")

\* Mutation: participants are probed while a start waits for them.
HeldForStartNever(w, c) == FALSE

HeldForStart(w, c) == w.pendingStart /\ Bound(w.job, c)

\* launch_due_devices
LaunchDue(w, due) ==
    LET taken == {c \in due : Idle(w, c) /\ ~ HeldForStart(w, c)}
        task(c) == [conn |-> c, generation |-> w.devices[c].device.generation,
                    kind |-> IF w.devices[c].device.session = 0 THEN "Connect" ELSE "Probe",
                    boot |-> boot[c]]
    IN  [w EXCEPT !.devices = [c \in Conns |->
                                 IF c \in taken THEN [@[c] EXCEPT !.state = "Busy"] ELSE @[c]],
                  !.tasks = @ \cup {task(c) : c \in taken}]

\* What an exchange that does not succeed leaves: the session, or none when it must
\* be opened again.
Dropped(device) == [device EXCEPT !.session = 0]
Waiting(device) == [device EXCEPT !.qualified = FALSE]

\* A task reached its device if both were of one boot when it began or when it ends.
Reaches(t, device) == device.session \in {t.boot, boot[t.conn]}

\* reset_*_for_new_boot
ForgetBoot(device) ==
    [Waiting(Dropped(device)) EXCEPT !.clock = 0, !.configured = FALSE, !.capability = FALSE,
                                     !.announced = FALSE]

\* connect_device: the session is opened, and the configuration must be read again.
Connected(t, device) ==
    [device EXCEPT !.session = boot[t.conn], !.qualified = FALSE, !.configured = FALSE]

\* probe_device, its first exchange answered: the clock, then what else is due.
Probed(t, device) ==
    LET sampled == [device EXCEPT !.clock = device.session, !.qualified = TRUE]
    IN  IF device.clock \notin {0, device.session}
          THEN [ok |-> ForgetBoot(device), lost |-> ForgetBoot(device)]
          ELSE [ok |-> [sampled EXCEPT !.configured = TRUE, !.capability = TRUE],
                lost |-> sampled]

\* The states a connection may be in when its task ends, if nothing was lost...
Answered(t, device) ==
    IF t.kind = "Connect" THEN {Connected(t, device)}
    ELSE IF device.session = 0 THEN {device}
    ELSE IF t.kind # "Probe"
      THEN {IF device.session = boot[t.conn] THEN device ELSE Dropped(device)}
    ELSE IF device.session = boot[t.conn] THEN {Probed(t, device).ok}
    ELSE IF Reaches(t, device)
      THEN {Waiting(Dropped(device)), Dropped(Probed(t, device).lost)}
    ELSE {Waiting(Dropped(device))}

\* ... and if an exchange was, or if the sample does not qualify the clock: the device is
\* unhealthy or the estimate still too wide (record_observation).
Lost(t, device) ==
    IF t.kind = "Connect" THEN {Waiting(device)}
    ELSE IF device.session = 0 THEN {device}
    ELSE IF t.kind # "Probe" THEN {device, Dropped(device)}
    ELSE IF Reaches(t, device)
      THEN {Waiting(device), Waiting(Dropped(device)), Probed(t, device).lost,
            Dropped(Probed(t, device).lost), Waiting(Probed(t, device).ok),
            Waiting(Probed(t, device).lost)}
    ELSE {Waiting(device), Waiting(Dropped(device))}

\* Mutation: the session is not looked at by its generation.
OwnsEntryAny(w, t) == w.devices[t.conn].state = "Busy"

OwnsEntry(w, t) ==
    w.devices[t.conn].state = "Busy" /\ w.devices[t.conn].device.generation = t.generation

\* The documents a finished step posts, before its snapshot.
Documents(t, device) ==
    IF device.capability /\ ~ device.announced
      THEN <<Message("Capability", t.conn, device)>> ELSE <<>>

\* finish_device_step: a stale completion is dropped; a connection that has just been
\* opened is probed at once.
FinishDevice(w, t, device) ==
    LET ended == [w EXCEPT !.tasks = @ \ {t}]
        restored == [ended EXCEPT
            !.devices[t.conn] = [state |-> "Idle",
                                 device |-> [device EXCEPT !.announced = @ \/ device.capability]],
            !.posted = @ \o Documents(t, device) \o <<Message("Snapshot", t.conn, device)>>]
    IN  IF ~ OwnsEntry(w, t) THEN ended
          ELSE IF t.kind = "Connect" /\ device.session # 0
            THEN LaunchStep(restored, t.conn) ELSE restored

AfterOperation(job) ==
    [job EXCEPT !.state = "Idle", !.left = @ - 1,
                !.phase = IF job.left > 1 THEN @ ELSE IF @ = "Caching" THEN "Ready" ELSE "Done"]

\* finish_live_job_step
FinishJob(w, t, device, answered) ==
    LET ended == [w EXCEPT !.tasks = @ \ {t}]
    IN  IF ~ OwnsEntry(w, t) \/ w.job.state # "Busy" THEN ended
          ELSE [ended EXCEPT
                  !.devices[t.conn] = [state |-> "Idle", device |-> device],
                  !.job = IF answered THEN AfterOperation(@) ELSE [@ EXCEPT !.state = "Idle"],
                  !.posted = Append(@, Message("Snapshot", t.conn, device))]

Finish(w, t, device, answered) ==
    IF t.kind = "Job" THEN FinishJob(w, t, device, answered) ELSE FinishDevice(w, t, device)

-----------------------------------------------------------------------------
(* Actions of the worker.                                                  *)

Room(n) == Len(worker.posted) + n <= MaxQueue

\* The timer: the job first, then the connections that are due.
Tick(due) ==
    /\ \E w \in JobStep(worker) : worker' = LaunchDue(w, due)
    /\ worker' # worker
    /\ UNCHANGED <<page, boot, faults, commands>>

\* A task's exchanges end; what it holds is the state its entry was taken with.
TaskEnds(t) ==
    /\ Room(2)
    /\ LET device == worker.devices[t.conn].device
       IN  \/ /\ \E after \in Answered(t, device) :
                   worker' = Finish(worker, t, after, Reaches(t, device))
              /\ UNCHANGED faults
           \/ /\ faults < MaxFaults
              /\ faults' = faults + 1
              /\ \E after \in Lost(t, device) : worker' = Finish(worker, t, after, FALSE)
    /\ UNCHANGED <<page, boot, commands>>

MayReplace(w, c) == ~ Bound(w.job, c)

\* configure_device: a new generation takes the entry, whatever runs for the old one.
Configure(c) ==
    /\ MayReplace(worker, c)
    /\ worker.generation < MaxGenerations
    /\ Room(1)
    /\ LET generation == worker.generation + 1
           fresh == FromRequest(generation)
       IN  worker' = LaunchStep([worker EXCEPT
                !.generation = generation,
                !.devices[c] = [state |-> "Idle", device |-> fresh],
                !.posted = Append(@, Message("Snapshot", c, fresh))], c)
    /\ UNCHANGED <<page, boot, faults, commands>>

Command == commands < MaxCommands /\ commands' = commands + 1

\* disconnect_device
Disconnect(c) ==
    /\ Command
    /\ MayReplace(worker, c)
    /\ worker.devices[c].state # "Absent"
    /\ Room(1)
    /\ worker' = [worker EXCEPT !.devices[c] = Absent,
                                !.posted = Append(@, Message("Removed", c, FromRequest(0)))]
    /\ UNCHANGED <<page, boot, faults>>

\* ProbeNow, and the network operations whose machine is Provisioning's.
LaunchByCommand(c) ==
    /\ Command
    /\ Idle(worker, c)
    /\ worker' \in {LaunchStep(worker, c), TakeDevice(worker, c, "Network")}
    /\ UNCHANGED <<page, boot, faults>>

\* stage_cached_job: the page compiled the job against what it saw.
StageCachedJob(participants) ==
    /\ Command
    /\ worker.job = NoJob
    /\ LET binding == [c \in Conns |->
             IF c \in participants
               THEN [generation |-> page.devices[c].generation, boot |-> page.devices[c].boot]
               ELSE Unbound]
       IN  /\ \A c \in participants :
                /\ worker.devices[c].state # "Absent"
                /\ MatchesBinding(worker.devices[c].device, binding[c])
                /\ worker.devices[c].device.qualified
           /\ worker' \in JobStep([worker EXCEPT
                !.job = [state |-> "Idle", phase |-> "Caching", left |-> JobOps,
                         binding |-> binding]])
    /\ UNCHANGED <<page, boot, faults>>

\* start_cached_job
StartCachedJob ==
    /\ Command
    /\ ~ worker.pendingStart
    /\ worker.job.state = "Idle" /\ worker.job.phase = "Ready"
    /\ worker' \in JobStep([worker EXCEPT !.pendingStart = TRUE])
    /\ UNCHANGED <<page, boot, faults>>

\* clear_cached_job
ClearCachedJob ==
    /\ Command
    /\ worker.job.state = "Idle" /\ Terminal(worker.job)
    /\ worker' = [worker EXCEPT !.job = NoJob, !.pendingStart = FALSE]
    /\ UNCHANGED <<page, boot, faults>>

-----------------------------------------------------------------------------
(* The page.                                                               *)

\* Mutation: a snapshot that no longer has the document leaves it shown.
KeepsDocumentByGeneration(document, snapshot) == document.generation = snapshot.generation

\* The document that apply_snapshot keeps.
KeepsDocument(document, snapshot) ==
    document.generation = snapshot.generation /\ snapshot.capability

\* MutableSupervisorView::apply
Applied(view, message) ==
    LET c == message.conn
        s == message.snapshot
    IN  IF message.kind = "Removed"
          THEN [view EXCEPT !.devices[c] = NoSnapshot, !.documents[c] = NoDocument]
        ELSE IF message.kind = "Snapshot"
          THEN [view EXCEPT !.devices[c] = s,
                            !.documents[c] = IF KeepsDocument(@, s) THEN @ ELSE NoDocument]
        ELSE IF view.devices[c].generation = s.generation
          THEN [view EXCEPT !.documents[c] = [generation |-> s.generation, boot |-> s.boot]]
        ELSE view

PageReceives ==
    /\ worker.posted # <<>>
    /\ page' = Applied(page, Head(worker.posted))
    /\ worker' = [worker EXCEPT !.posted = Tail(@)]
    /\ UNCHANGED <<boot, faults, commands>>

\* A device restarts.
Restart(c) ==
    /\ faults < MaxFaults
    /\ boot[c] < MaxBoots
    /\ faults' = faults + 1
    /\ boot' = [boot EXCEPT ![c] = @ + 1]
    /\ UNCHANGED <<worker, page, commands>>

-----------------------------------------------------------------------------
Init ==
    /\ worker = [devices |-> [c \in Conns |-> Absent], tasks |-> {}, generation |-> 0,
                 job |-> NoJob, pendingStart |-> FALSE, posted |-> <<>>]
    /\ page = [devices |-> [c \in Conns |-> NoSnapshot],
               documents |-> [c \in Conns |-> NoDocument]]
    /\ boot = [c \in Conns |-> 1]
    /\ faults = 0 /\ commands = 0

Next ==
    \/ \E due \in SUBSET Conns : Tick(due)
    \/ \E t \in worker.tasks : TaskEnds(t)
    \/ \E c \in Conns : Configure(c) \/ Disconnect(c) \/ LaunchByCommand(c) \/ Restart(c)
    \/ \E participants \in SUBSET Conns \ {{}} : StageCachedJob(participants)
    \/ StartCachedJob
    \/ ClearCachedJob
    \/ PageReceives

Spec == Init /\ [][Next]_vars

\* The tasks of the connection's present generation.
TasksOf(c) ==
    {t \in worker.tasks : t.conn = c /\ t.generation = worker.devices[c].device.generation}

\* The timer fires again and again, with every connection due sooner or later; every
\* fetch ends, strongly fair because MaxQueue may hold its completion back now and
\* then; the page takes its messages.
FairSpec ==
    /\ Spec
    /\ WF_vars(Tick(Conns))
    /\ \A c \in Conns : SF_vars(\E t \in TasksOf(c) : TaskEnds(t))
    /\ WF_vars(PageReceives)

-----------------------------------------------------------------------------
(* Properties.                                                             *)

TypeOK ==
    /\ worker \in Workers /\ Len(worker.posted) <= MaxQueue
    /\ page \in Views
    /\ boot \in [Conns -> Boots \ {0}]
    /\ faults \in Nat /\ commands \in Nat
    /\ \A c \in Conns : worker.devices[c].state = "Absent" <=> worker.devices[c].device.generation = 0

\* A connection that is out of the table has exactly one task that will put it back,
\* and one that is in the table has none: nothing gets stuck or is overwritten by a
\* late completion (take_idle_device, finish_device_step).
OneOwner ==
    \A c \in Conns :
        Cardinality(TasksOf(c)) = (IF worker.devices[c].state = "Busy" THEN 1 ELSE 0)

\* A busy job has exactly one task, and that task still owns the connection it took,
\* so that finish_live_job_step restores both; a job that is not busy has none.
JobTaskReturns ==
    LET jobTasks == {t \in worker.tasks : t.kind = "Job"}
    IN  /\ Cardinality(jobTasks) = (IF worker.job.state = "Busy" THEN 1 ELSE 0)
        /\ \A t \in jobTasks : OwnsEntry(worker, t)

\* A request of the job is signed for the very boot its participant was compiled for,
\* also while sessions are opened again over a restart that the clock model has not
\* seen yet (take_live_job_task).
JobOnBoundBoot ==
    \A t \in worker.tasks :
        t.kind = "Job" =>
            LET device == worker.devices[t.conn].device
            IN  /\ device.session = worker.job.binding[t.conn].boot
                /\ device.generation = worker.job.binding[t.conn].generation

\* Once the messages are taken, the page shows of an idle connection what the worker
\* knows: its snapshot, and its capability document exactly when that is complete
\* (the one-time publication against apply_snapshot's removals).
PageMirrorsAtRest ==
    worker.posted = <<>> =>
        \A c \in Conns : worker.devices[c].state # "Busy" =>
            LET device == worker.devices[c].device
            IN  /\ page.devices[c] = SnapshotOf(device)
                /\ page.documents[c] = IF device.capability
                                         THEN [generation |-> device.generation,
                                               boot |-> device.clock]
                                         ELSE NoDocument

\* Every connection and the job, while they are out of the worker's table, have exactly
\* one task that will put them back.
OneOwnerEach == TypeOK /\ OneOwner /\ JobTaskReturns

\* A start that was admitted begins or fails, although its participants are probed
\* in turn (launch_due_devices).
StartEnds == worker.pendingStart ~> ~ worker.pendingStart

\* A configured connection is qualified again on its device's boot after the last
\* loss, restart and sample that does not qualify.
Recovers ==
    \A c \in Conns :
        worker.devices[c].state # "Absent"
            ~> \/ worker.devices[c].state = "Absent"
               \/ LET device == worker.devices[c].device
                  IN  device.session = boot[c] /\ device.clock = boot[c] /\ device.qualified

\* A staged job of one participant gets on, although heartbeats coincide with every
\* tick: the tick serves the job before the probes.
JobOfOneProgresses ==
    (worker.job.phase = "Caching" /\ Cardinality(Participants(worker.job)) = 1)
        ~> (worker.job.phase # "Caching")

\* Refuted (MCWorkerTwo.cfg).  A staged job gets on, although heartbeats coincide with
\* every tick.
JobProgresses == (worker.job.phase = "Caching") ~> (worker.job.phase # "Caching")

\* Refuted (MCWorkerFault.cfg).  As its comment has it, only an unrecoverable failure turns into a fault: a device
\* of the job that lost an exchange but has not restarted is no such failure.
FaultIsUnrecoverable == worker.job.phase = "Faulted" => \E c \in Conns : boot[c] > 1
=============================================================================

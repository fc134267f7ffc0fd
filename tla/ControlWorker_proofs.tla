------------------------- MODULE ControlWorker_proofs -------------------------
(***************************************************************************)
(* The worker's table of connections for every number of connections,      *)
(* commands, faults and messages under way: whatever is out of the table    *)
(* has the one task that restores it, a job speaks to the boots it was      *)
(* compiled for, and the page ends up showing what the worker knows.        *)
(***************************************************************************)
EXTENDS ControlWorker, FiniteSetTheorems, SequenceTheorems, TLAPS

\* What a connection knows hangs together: its clock is qualified on the boot its
\* session signs for, and a complete document belongs to a clock and was announced.
Whole(device) ==
    /\ device.qualified => device.session \in {0, device.clock}
    /\ device.capability => device.clock # 0
    /\ device.capability <=> device.announced

EntriesWhole(w) ==
    \A c \in Conns :
        /\ w.devices[c].state = "Absent" <=> w.devices[c].device.generation = 0
        /\ w.devices[c].device.generation <= w.generation
        /\ Whole(w.devices[c].device)

\* A task was launched for a generation that had been given out: a later one is
\* free of tasks.
TasksOfThePast(w) ==
    \A t \in w.tasks : t.generation # 0 /\ t.generation <= w.generation

\* The task is of the connection's present generation.
Serves(w, t, c) == t.conn = c /\ t.generation = w.devices[c].device.generation

OwnersUnique(w) ==
    \A c \in Conns :
        /\ w.devices[c].state = "Busy" => \E t \in w.tasks : Serves(w, t, c)
        /\ \A t \in w.tasks : Serves(w, t, c) => w.devices[c].state = "Busy"
        /\ \A t, u \in w.tasks : Serves(w, t, c) /\ Serves(w, u, c) => t = u

\* The job's task owns its connection, which is the one the job was compiled for.
OnBoundBoot(w, t) ==
    LET device == w.devices[t.conn].device
    IN  /\ device.session = w.job.binding[t.conn].boot
        /\ device.generation = w.job.binding[t.conn].generation

JobOwned(w) ==
    /\ w.job.state = "Busy" => w.job.left # 0 /\ \E t \in w.tasks : t.kind = "Job"
    /\ \A t \in w.tasks :
         t.kind = "Job" => w.job.state = "Busy" /\ OwnsEntry(w, t) /\ OnBoundBoot(w, t)
    /\ \A t, u \in w.tasks : t.kind = "Job" /\ u.kind = "Job" => t = u

WorkerInv(w) ==
    /\ w \in Workers
    /\ EntriesWhole(w)
    /\ TasksOfThePast(w)
    /\ OwnersUnique(w)
    /\ JobOwned(w)

BootTyped == boot \in [Conns -> Boots \ {0}]

\* The worker's table, with the bounds of what is not in it.
OwnerInv ==
    /\ WorkerInv(worker)
    /\ BootTyped
    /\ page \in Views
    /\ faults \in Nat /\ commands \in Nat
    /\ Len(worker.posted) <= MaxQueue

\* The view agrees with what the worker knows of a connection, in its table or not.
Mirrors(view, device, c) ==
    /\ view.devices[c] = SnapshotOf(device)
    /\ view.documents[c] = IF device.capability
                             THEN [generation |-> device.generation, boot |-> device.clock]
                             ELSE NoDocument

\* The messages posted, taken in their order, make the last view of the first.
Becomes(view, posted, last) ==
    \E views \in [0..Len(posted) -> Views] :
        /\ views[0] = view
        /\ \A k \in 1..Len(posted) : views[k] = Applied(views[k - 1], posted[k])
        /\ views[Len(posted)] = last

\* The messages under way lead the view to what the worker knows.
LeadsTo(view, posted, devices) ==
    \E last \in Views :
        /\ Becomes(view, posted, last)
        /\ \A c \in Conns : Mirrors(last, devices[c].device, c)

\* What the worker still owes the page is under way.
PageInv == LeadsTo(page, worker.posted, worker.devices)
-----------------------------------------------------------------------------
(* Launching.                                                              *)

\* A worker W is w with the tasks of a set launched, one per connection, each on an
\* idle connection; the job is not looked at.
Launches(w, W, new) ==
    /\ W \in Workers
    /\ W.tasks = w.tasks \cup new
    /\ W.generation = w.generation /\ W.posted = w.posted
    /\ \A c \in Conns :
         /\ W.devices[c].device = w.devices[c].device
         /\ (\E t \in new : t.conn = c) => W.devices[c].state = "Busy"
         /\ ~ (\E t \in new : t.conn = c) => W.devices[c].state = w.devices[c].state
    /\ \A t \in new :
         /\ t \in Tasks
         /\ Idle(w, t.conn)
         /\ t.generation = w.devices[t.conn].device.generation
    /\ \A t, u \in new : t.conn = u.conn => t = u

\* Launching touches the owners alone: every connection taken gets its one task.
LEMMA LaunchOwners ==
    ASSUME NEW w, NEW W, NEW new, Launches(w, W, new),
           w \in Workers, EntriesWhole(w), TasksOfThePast(w), OwnersUnique(w)
    PROVE  EntriesWhole(W) /\ TasksOfThePast(W) /\ OwnersUnique(W)
  <1>1. \A t \in new : t.conn \in Conns /\ w.devices[t.conn].state = "Idle"
    BY DEF Launches, Tasks, Idle
  <1>2. EntriesWhole(W)
    <2> SUFFICES ASSUME NEW c \in Conns
                 PROVE  /\ W.devices[c].state = "Absent" <=> W.devices[c].device.generation = 0
                        /\ W.devices[c].device.generation <= W.generation
                        /\ Whole(W.devices[c].device)
      BY DEF EntriesWhole
    <2>1. W.devices[c].device = w.devices[c].device /\ W.generation = w.generation
      BY DEF Launches
    <2>2. W.devices[c].state = "Absent" <=> w.devices[c].state = "Absent"
      <3>1. CASE \E t \in new : t.conn = c
        BY <1>1, <3>1 DEF Launches
      <3>2. CASE ~ \E t \in new : t.conn = c
        BY <3>2 DEF Launches
      <3> QED
        BY <3>1, <3>2
    <2> QED
      BY <2>1, <2>2 DEF EntriesWhole
  <1>3. TasksOfThePast(W)
    <2> SUFFICES ASSUME NEW t \in new
                 PROVE  t.generation # 0 /\ t.generation <= W.generation
      BY DEF TasksOfThePast, Launches
    <2>1. t.generation = w.devices[t.conn].device.generation /\ W.generation = w.generation
      BY DEF Launches
    <2> QED
      BY <1>1, <2>1 DEF EntriesWhole
  <1>4. OwnersUnique(W)
    <2> SUFFICES ASSUME NEW c \in Conns
                 PROVE  /\ W.devices[c].state = "Busy" => \E t \in W.tasks : Serves(W, t, c)
                        /\ \A t \in W.tasks : Serves(W, t, c) => W.devices[c].state = "Busy"
                        /\ \A t, u \in W.tasks : Serves(W, t, c) /\ Serves(W, u, c) => t = u
      BY DEF OwnersUnique
    <2>1. \A t : Serves(W, t, c) <=> Serves(w, t, c)
      BY DEF Serves, Launches
    <2>2. W.tasks = w.tasks \cup new
      BY DEF Launches
    <2>3. CASE \E t \in new : t.conn = c
      <3>1. PICK t \in new : t.conn = c
        BY <2>3
      <3>2. W.devices[c].state = "Busy" /\ Serves(w, t, c)
        BY <3>1 DEF Launches, Serves
      <3>3. \A u \in w.tasks : ~ Serves(w, u, c)
        BY <1>1, <3>1 DEF OwnersUnique
      <3>4. \A u \in new : u.conn = c => u = t
        BY <3>1 DEF Launches
      <3>5. \A u \in W.tasks : Serves(W, u, c) => u = t
        BY <2>1, <2>2, <3>3, <3>4 DEF Serves
      <3> QED
        BY <2>1, <2>2, <3>1, <3>2, <3>5
    <2>4. CASE ~ \E t \in new : t.conn = c
      <3>1. W.devices[c].state = w.devices[c].state
        BY <2>4 DEF Launches
      <3>2. \A t \in new : ~ Serves(W, t, c)
        BY <2>4 DEF Serves
      <3> QED
        BY <2>1, <2>2, <3>1, <3>2 DEF OwnersUnique
    <2> QED
      BY <2>3, <2>4
  <1> QED
    BY <1>2, <1>3, <1>4

\* Launching heartbeats leaves the job's task as it is.
LEMMA LaunchJob ==
    ASSUME NEW w, NEW W, NEW new, Launches(w, W, new), w \in Workers, JobOwned(w),
           W.job = w.job, \A t \in new : t.kind # "Job"
    PROVE  JobOwned(W)
  <1>1. \A t \in W.tasks : t.kind = "Job" => t \in w.tasks
    BY DEF Launches
  <1>2. w.tasks \subseteq W.tasks /\ w.tasks \subseteq Tasks
    BY DEF Launches, Workers
  <1>3. ASSUME NEW t \in w.tasks, t.kind = "Job"
        PROVE  OwnsEntry(W, t) /\ OnBoundBoot(W, t)
    <2>1. OwnsEntry(w, t) /\ OnBoundBoot(w, t) /\ t.conn \in Conns
      BY <1>2, <1>3 DEF JobOwned, Tasks
    <2>2. W.devices[t.conn].device = w.devices[t.conn].device
      BY <2>1 DEF Launches
    <2>3. W.devices[t.conn].state = "Busy"
      BY <2>1 DEF Launches, OwnsEntry
    <2> QED
      BY <2>1, <2>2, <2>3 DEF OwnsEntry, OnBoundBoot
  <1> QED
    BY <1>1, <1>2, <1>3 DEF JobOwned

LEMMA LaunchKeeps ==
    ASSUME NEW w, NEW W, NEW new, Launches(w, W, new), WorkerInv(w),
           W.job = w.job, \A t \in new : t.kind # "Job"
    PROVE  WorkerInv(W)
  BY LaunchOwners, LaunchJob DEF WorkerInv, Launches

\* The task that take_idle_device leaves the connection to.
TaskFor(w, c, kind) ==
    [conn |-> c, generation |-> w.devices[c].device.generation,
     kind |-> kind, boot |-> boot[c]]

\* take_idle_device: one connection is taken.
LEMMA TakeLaunches ==
    ASSUME NEW w \in Workers, BootTyped, NEW c \in Conns, NEW kind \in Kinds, Idle(w, c)
    PROVE  /\ Launches(w, TakeDevice(w, c, kind), {TaskFor(w, c, kind)})
           /\ TaskFor(w, c, kind).kind = kind /\ TaskFor(w, c, kind).conn = c
           /\ TakeDevice(w, c, kind).job = w.job
  <1> DEFINE t == TaskFor(w, c, kind)
             W == TakeDevice(w, c, kind)
  <1> USE DEF TaskFor
  <1>1. t \in Tasks
    BY DEF Workers, Entries, Devices, Tasks, BootTyped
  <1>2. /\ W.tasks = w.tasks \cup {t} /\ W.generation = w.generation /\ W.posted = w.posted
        /\ W.job = w.job /\ W.pendingStart = w.pendingStart
        /\ W.devices = [w.devices EXCEPT ![c].state = "Busy"]
    BY DEF TakeDevice, Workers
  <1>3. /\ W.devices \in [Conns -> Entries]
        /\ \A d \in Conns : W.devices[d].device = w.devices[d].device
        /\ W.devices[c].state = "Busy"
        /\ \A d \in Conns \ {c} : W.devices[d].state = w.devices[d].state
    BY <1>2 DEF Workers, Entries
  <1>4. W \in Workers
    <2>1. W = [w EXCEPT !.devices = [w.devices EXCEPT ![c].state = "Busy"],
                        !.tasks = w.tasks \cup {t}]
      BY DEF TakeDevice, Workers
    <2>2. W.tasks \in SUBSET Tasks
      BY <1>1, <1>2 DEF Workers
    <2> QED
      BY <1>2, <1>3, <2>1, <2>2 DEF Workers
  <1>5. Launches(w, W, {t})
    BY <1>1, <1>2, <1>3, <1>4 DEF Launches, Idle
  <1> QED
    BY <1>2, <1>5

\* What launching and the job's turn leave alone: what the page is told, and what is
\* known of every connection.
SameKnown(w, W) ==
    /\ W.posted = w.posted
    /\ \A c \in Conns : W.devices[c].device = w.devices[c].device

LEMMA TakeKeeps ==
    ASSUME NEW w, WorkerInv(w), BootTyped, NEW c \in Conns,
           NEW kind \in Kinds \ {"Job"}, Idle(w, c)
    PROVE  WorkerInv(TakeDevice(w, c, kind)) /\ SameKnown(w, TakeDevice(w, c, kind))
  <1> DEFINE W == TakeDevice(w, c, kind)
             t == TaskFor(w, c, kind)
  <1>1. Launches(w, W, {t}) /\ t.kind = kind /\ W.job = w.job
    <2>1. w \in Workers /\ kind \in Kinds
      BY DEF WorkerInv
    <2> QED
      BY <2>1, TakeLaunches
  <1> HIDE DEF W, t
  <1>2. WorkerInv(W)
    BY <1>1, LaunchKeeps
  <1>3. SameKnown(w, W)
    BY <1>1 DEF Launches, SameKnown
  <1> QED
    BY <1>2, <1>3 DEF W

LEMMA LaunchStepKeeps ==
    ASSUME NEW w, WorkerInv(w), BootTyped, NEW c \in Conns
    PROVE  WorkerInv(LaunchStep(w, c)) /\ SameKnown(w, LaunchStep(w, c))
  <1>1. CASE Idle(w, c)
    <2>1. PICK kind \in Kinds \ {"Job"} : LaunchStep(w, c) = TakeDevice(w, c, kind)
      BY <1>1 DEF LaunchStep, Kinds
    <2> QED
      BY <1>1, <2>1, TakeKeeps
  <1>2. CASE ~ Idle(w, c)
    BY <1>2 DEF LaunchStep, SameKnown
  <1> QED
    BY <1>1, <1>2

LEMMA LaunchDueKeeps ==
    ASSUME NEW w, WorkerInv(w), BootTyped, NEW due \in SUBSET Conns
    PROVE  WorkerInv(LaunchDue(w, due)) /\ SameKnown(w, LaunchDue(w, due))
  <1> DEFINE taken == {c \in due : Idle(w, c) /\ ~ HeldForStart(w, c)}
             task(c) == [conn |-> c, generation |-> w.devices[c].device.generation,
                         kind |-> IF w.devices[c].device.session = 0 THEN "Connect" ELSE "Probe",
                         boot |-> boot[c]]
             new == {task(c) : c \in taken}
             devices == [c \in Conns |-> IF c \in taken
                                           THEN [w.devices[c] EXCEPT !.state = "Busy"]
                                           ELSE w.devices[c]]
             W == LaunchDue(w, due)
  <1>1. w \in Workers
    BY DEF WorkerInv
  <1>2. \A t \in new : t \in Tasks /\ t.kind # "Job"
    BY <1>1 DEF Workers, Entries, Devices, Tasks, BootTyped, Kinds
  <1>3. \A t \in new : /\ t.conn \in taken
                       /\ t = task(t.conn)
                       /\ t.generation = w.devices[t.conn].device.generation
    OBVIOUS
  <1>4. \A c \in taken : task(c) \in new /\ task(c).conn = c
    OBVIOUS
  <1>5. /\ devices \in [Conns -> Entries]
        /\ \A c \in Conns : devices[c].device = w.devices[c].device
        /\ \A c \in taken : devices[c].state = "Busy"
        /\ \A c \in Conns \ taken : devices[c].state = w.devices[c].state
    BY <1>1 DEF Workers, Entries
  <1>6. W = [w EXCEPT !.devices = devices, !.tasks = w.tasks \cup new]
    BY <1>1 DEF LaunchDue, Workers
  <1> HIDE DEF devices, W, new
  <1>7. /\ W.tasks = w.tasks \cup new /\ W.generation = w.generation /\ W.posted = w.posted
        /\ W.job = w.job /\ W.devices = devices
    BY <1>1, <1>6 DEF Workers
  <1>8. W \in Workers
    BY <1>1, <1>2, <1>5, <1>6 DEF Workers
  <1>9. \A c \in Conns : c \in taken <=> \E t \in new : t.conn = c
    BY <1>3, <1>4
  <1>10. Launches(w, W, new)
    <2>1. \A t \in new : /\ t \in Tasks
                         /\ Idle(w, t.conn)
                         /\ t.generation = w.devices[t.conn].device.generation
      BY <1>2, <1>3
    <2>2. \A t, u \in new : t.conn = u.conn => t = u
      BY <1>3
    <2> HIDE DEF taken, task
    <2>3. \A c \in Conns :
            /\ W.devices[c].device = w.devices[c].device
            /\ (\E t \in new : t.conn = c) => W.devices[c].state = "Busy"
            /\ ~ (\E t \in new : t.conn = c) => W.devices[c].state = w.devices[c].state
      BY <1>5, <1>7, <1>9
    <2> QED
      BY <1>7, <1>8, <2>1, <2>2, <2>3 DEF Launches
  <1>11. WorkerInv(W)
    BY <1>2, <1>7, <1>10, LaunchKeeps
  <1>12. SameKnown(w, W)
    BY <1>10 DEF Launches, SameKnown
  <1> QED
    BY <1>11, <1>12 DEF W

-----------------------------------------------------------------------------
(* The job's turn.                                                         *)

\* A job that is not busy may change its phase and what is left: it has no task.
LEMMA JobAlters ==
    ASSUME NEW w, NEW W, WorkerInv(w), W \in Workers,
           W.devices = w.devices, W.tasks = w.tasks, W.generation = w.generation,
           w.job.state # "Busy", W.job.state # "Busy"
    PROVE  WorkerInv(W)
  <1>1. EntriesWhole(W) /\ TasksOfThePast(W) /\ OwnersUnique(W)
    BY DEF WorkerInv, EntriesWhole, TasksOfThePast, OwnersUnique, Serves
  <1>2. \A t \in w.tasks : t.kind # "Job"
    BY DEF WorkerInv, JobOwned
  <1> QED
    BY <1>1, <1>2 DEF WorkerInv, JobOwned

LEMMA FailedStartKeeps ==
    ASSUME NEW w, WorkerInv(w), w.job.state # "Busy"
    PROVE  WorkerInv(FailedStart(w)) /\ SameKnown(w, FailedStart(w))
  <1> DEFINE W == FailedStart(w)
  <1>1. w \in Workers
    BY DEF WorkerInv
  <1>2. /\ W.devices = w.devices /\ W.tasks = w.tasks /\ W.generation = w.generation
        /\ W.posted = w.posted /\ W.job.state = w.job.state
    BY <1>1 DEF Workers, Jobs, FailedStart
  <1>3. W \in Workers
    BY <1>1 DEF Workers, Jobs, FailedStart
  <1> HIDE DEF W
  <1>4. WorkerInv(W) /\ SameKnown(w, W)
    BY <1>2, <1>3, JobAlters DEF SameKnown
  <1> QED
    BY <1>4 DEF W

LEMMA RefusedStartKeeps ==
    ASSUME NEW w, WorkerInv(w), w.job.state # "Busy"
    PROVE  WorkerInv(RefusedStart(w)) /\ SameKnown(w, RefusedStart(w))
  <1> DEFINE W == RefusedStart(w)
  <1>1. w \in Workers
    BY DEF WorkerInv
  <1>2. /\ W.devices = w.devices /\ W.tasks = w.tasks /\ W.generation = w.generation
        /\ W.posted = w.posted /\ W.job.state = w.job.state
    BY <1>1 DEF Workers, Jobs, RefusedStart
  <1>3. W \in Workers
    BY <1>1 DEF Workers, Jobs, RefusedStart
  <1> HIDE DEF W
  <1>4. WorkerInv(W) /\ SameKnown(w, W)
    BY <1>2, <1>3, JobAlters DEF SameKnown
  <1> QED
    BY <1>4 DEF W

LEMMA FaultedKeeps ==
    ASSUME NEW w, WorkerInv(w), w.job.state # "Busy"
    PROVE  WorkerInv(Faulted(w)) /\ SameKnown(w, Faulted(w))
  <1> DEFINE W == Faulted(w)
  <1>1. w \in Workers
    BY DEF WorkerInv
  <1>2. /\ W.devices = w.devices /\ W.tasks = w.tasks /\ W.generation = w.generation
        /\ W.posted = w.posted /\ W.job.state = w.job.state
    BY <1>1 DEF Workers, Jobs, Faulted
  <1>3. W \in Workers
    BY <1>1 DEF Workers, Jobs, Faulted
  <1> HIDE DEF W
  <1>4. WorkerInv(W) /\ SameKnown(w, W)
    BY <1>2, <1>3, JobAlters DEF SameKnown
  <1> QED
    BY <1>4 DEF W

LEMMA RefusedKeeps ==
    ASSUME NEW w, WorkerInv(w), w.job.state # "Busy"
    PROVE  WorkerInv([w EXCEPT !.job.phase = "Refused"]) /\ SameKnown(w, [w EXCEPT !.job.phase = "Refused"])
  <1> DEFINE W == [w EXCEPT !.job.phase = "Refused"]
  <1>1. w \in Workers
    BY DEF WorkerInv
  <1>2. /\ W.devices = w.devices /\ W.tasks = w.tasks /\ W.generation = w.generation
        /\ W.posted = w.posted /\ W.job.state = w.job.state
    BY <1>1 DEF Workers, Jobs
  <1>3. W \in Workers
    BY <1>1 DEF Workers, Jobs
  <1> HIDE DEF W
  <1>4. WorkerInv(W) /\ SameKnown(w, W)
    BY <1>2, <1>3, JobAlters DEF SameKnown
  <1> QED
    BY <1>4 DEF W

LEMMA BegunStartKeeps ==
    ASSUME NEW w, WorkerInv(w), w.job.state # "Busy"
    PROVE  WorkerInv(BegunStart(w)) /\ SameKnown(w, BegunStart(w))
  <1> DEFINE W == BegunStart(w)
             job == [w.job EXCEPT !.phase = "Starting", !.left = JobOps]
  <1>1. w \in Workers
    BY DEF WorkerInv
  <1>2. /\ W.devices = w.devices /\ W.tasks = w.tasks /\ W.generation = w.generation
        /\ W.posted = w.posted /\ W.job.state = w.job.state
    BY <1>1 DEF Workers, Jobs, BegunStart
  <1>3. W \in Workers
    <2>1. JobOps \in 0..JobOps
      BY BoundAssumption
    <2>2. job \in Jobs
      BY <1>1, <2>1 DEF Workers, Jobs
    <2>3. W = [w EXCEPT !.pendingStart = FALSE, !.job = job]
      BY <1>1 DEF Workers, Jobs, BegunStart
    <2> HIDE DEF W, job
    <2> QED
      BY <1>1, <2>2, <2>3 DEF Workers
  <1> HIDE DEF W
  <1>4. WorkerInv(W) /\ SameKnown(w, W)
    BY <1>2, <1>3, JobAlters DEF SameKnown
  <1> QED
    BY <1>4 DEF W

\* A connection that the job takes is qualified on the boot it was compiled for.
LEMMA JobTakeKeeps ==
    ASSUME NEW w, WorkerInv(w), BootTyped, NEW c \in Conns, Idle(w, c),
           w.job.state = "Idle", w.job.left # 0,
           ReadyForJob(w.devices[c].device),
           MatchesBinding(w.devices[c].device, w.job.binding[c])
    PROVE  LET W == [TakeDevice(w, c, "Job") EXCEPT !.job.state = "Busy"]
           IN  WorkerInv(W) /\ SameKnown(w, W)
  <1> DEFINE V == TakeDevice(w, c, "Job")
             W == [V EXCEPT !.job.state = "Busy"]
             t == TaskFor(w, c, "Job")
  <1>1. w \in Workers
    BY DEF WorkerInv
  <1>2. Launches(w, V, {t}) /\ t.kind = "Job" /\ t.conn = c /\ V.job = w.job
    <2>1. "Job" \in Kinds
      BY DEF Kinds
    <2> QED
      BY <1>1, <2>1, TakeLaunches
  <1> HIDE DEF V, t
  <1>3. V \in Workers
    BY <1>2 DEF Launches
  <1>4. /\ W.devices = V.devices /\ W.tasks = V.tasks /\ W.generation = V.generation
        /\ W.posted = V.posted
        /\ W.job.state = "Busy" /\ W.job.left = V.job.left /\ W.job.binding = V.job.binding
    BY <1>3 DEF Workers, Jobs
  <1>5. W \in Workers
    BY <1>3 DEF Workers, Jobs
  <1> HIDE DEF W
  <1>6. Launches(w, W, {t})
    BY <1>2, <1>4, <1>5 DEF Launches
  <1>7. EntriesWhole(W) /\ TasksOfThePast(W) /\ OwnersUnique(W)
    BY <1>1, <1>6, LaunchOwners DEF WorkerInv
  <1>8. \A u \in W.tasks : u.kind = "Job" => u = t
    BY <1>2, <1>6 DEF Launches, WorkerInv, JobOwned
  <1>9. t \in W.tasks /\ t.generation = w.devices[c].device.generation
    BY <1>2, <1>6 DEF Launches
  <1>10. W.devices[c].state = "Busy" /\ W.devices[c].device = w.devices[c].device
    BY <1>2, <1>6 DEF Launches
  <1>11. OwnsEntry(W, t)
    BY <1>2, <1>9, <1>10 DEF OwnsEntry
  <1>12. OnBoundBoot(W, t)
    <2>1. w.devices[c].device.session = w.devices[c].device.clock
      BY DEF WorkerInv, EntriesWhole, Whole, ReadyForJob
    <2> QED
      BY <1>2, <1>4, <1>10, <2>1 DEF OnBoundBoot, MatchesBinding
  <1>13. JobOwned(W)
    BY <1>2, <1>4, <1>8, <1>9, <1>11, <1>12 DEF JobOwned
  <1>14. SameKnown(w, W)
    BY <1>6 DEF Launches, SameKnown
  <1> QED
    BY <1>5, <1>7, <1>13, <1>14 DEF WorkerInv, W, V

LEMMA TakeJobKeeps ==
    ASSUME NEW w, WorkerInv(w), BootTyped, NEW W \in TakeJobTask(w)
    PROVE  WorkerInv(W) /\ SameKnown(w, W)
  <1> DEFINE participants == Participants(w.job)
             unready == {c \in participants : ~ Idle(w, c) \/ ~ ReadyForJob(w.devices[c].device)}
             mismatched == {c \in participants \ unready :
                              ~ MatchesBinding(w.devices[c].device, w.job.binding[c])}
             put == w.job.state # "Idle" \/ Terminal(w.job)
             held == unready \cup mismatched # {}
  <1>1. participants \subseteq Conns
    BY DEF Participants
  <1>2. WorkerInv(w) /\ SameKnown(w, w)
    BY DEF SameKnown
  <1>3. CASE put
    BY <1>2, <1>3 DEF TakeJobTask
  <1>4. CASE ~ put /\ held
    <2>1. W = w \/ W = Faulted(w)
      BY <1>4 DEF TakeJobTask
    <2>2. w.job.state # "Busy"
      BY <1>4
    <2> QED
      BY <1>2, <2>1, <2>2, FaultedKeeps
  <1>5. CASE ~ put /\ ~ held /\ w.job.left = 0
    BY <1>2, <1>5 DEF TakeJobTask
  <1>6. CASE ~ put /\ ~ held /\ w.job.left # 0
    <2>1. \/ W = [w EXCEPT !.job.phase = "Refused"]
          \/ \E c \in participants : W = [TakeDevice(w, c, "Job") EXCEPT !.job.state = "Busy"]
      BY <1>6 DEF TakeJobTask
    <2>2. w.job.state = "Idle" /\ w.job.state # "Busy"
      BY <1>6
    <2>3. ASSUME NEW c \in participants,
                 W = [TakeDevice(w, c, "Job") EXCEPT !.job.state = "Busy"]
          PROVE  WorkerInv(W) /\ SameKnown(w, W)
      <3>1. c \notin unready /\ c \notin mismatched
        BY <1>6
      <3>2. /\ c \in Conns /\ Idle(w, c) /\ ReadyForJob(w.devices[c].device)
            /\ MatchesBinding(w.devices[c].device, w.job.binding[c])
        BY <1>1, <3>1
      <3> QED
        BY <1>6, <2>2, <2>3, <3>2, JobTakeKeeps
    <2> QED
      BY <2>1, <2>2, <2>3, RefusedKeeps
  <1> QED
    BY <1>3, <1>4, <1>5, <1>6

\* launch_job_step
LEMMA JobStepKeeps ==
    ASSUME NEW w, WorkerInv(w), BootTyped, NEW W \in JobStep(w)
    PROVE  WorkerInv(W) /\ SameKnown(w, W)
  <1>1. CASE StartFails(w)
    <2>1. W = FailedStart(w) /\ w.job.state # "Busy"
      BY <1>1 DEF JobStep, StartFails
    <2> QED
      BY <2>1, FailedStartKeeps
  <1>2. CASE ~ StartFails(w) /\ StartBegins(w)
    <2>1. w.job.state # "Busy"
      BY <1>2 DEF StartBegins
    <2>2. W = RefusedStart(w) \/ W \in TakeJobTask(BegunStart(w))
      BY <1>2 DEF JobStep
    <2>3. CASE W = RefusedStart(w)
      BY <2>1, <2>3, RefusedStartKeeps
    <2>4. CASE W \in TakeJobTask(BegunStart(w))
      <3> DEFINE V == BegunStart(w)
      <3>1. WorkerInv(V) /\ SameKnown(w, V)
        BY <2>1, BegunStartKeeps
      <3> HIDE DEF V
      <3>2. W \in TakeJobTask(V)
        BY <2>4 DEF V
      <3>3. WorkerInv(W) /\ SameKnown(V, W)
        BY <3>1, <3>2, TakeJobKeeps
      <3> QED
        BY <3>1, <3>3 DEF SameKnown
    <2> QED
      BY <2>2, <2>3, <2>4
  <1>3. CASE ~ StartFails(w) /\ ~ StartBegins(w)
    BY <1>3, TakeJobKeeps DEF JobStep
  <1> QED
    BY <1>1, <1>2, <1>3

-----------------------------------------------------------------------------
(* What a task leaves.                                                     *)

\* A step of the device leaves its generation, and drops what it had announced only
\* together with the document.
Continues(device, after) ==
    /\ after \in Devices
    /\ after.generation = device.generation
    /\ after.qualified => after.session \in {0, after.clock}
    /\ after.capability => after.clock # 0
    /\ after.announced => device.capability /\ after.capability /\ after.clock = device.clock

LEMMA NoBoot == 0 \in Boots
  BY BoundAssumption DEF Boots

LEMMA PartsContinue ==
    ASSUME NEW device \in Devices, Whole(device)
    PROVE  /\ Continues(device, device)
           /\ Continues(device, Dropped(device))
           /\ Continues(device, Waiting(device))
           /\ Continues(device, Waiting(Dropped(device)))
           /\ Continues(device, ForgetBoot(device))
  <1>1. Dropped(device) \in Devices /\ Waiting(device) \in Devices
    BY NoBoot DEF Devices, Dropped, Waiting
  <1>2. Waiting(Dropped(device)) \in Devices /\ ForgetBoot(device) \in Devices
    BY NoBoot DEF Devices, Dropped, Waiting, ForgetBoot
  <1>3. Continues(device, device) /\ Continues(device, Dropped(device))
    BY <1>1 DEF Continues, Whole, Devices, Dropped
  <1>4. Continues(device, Waiting(device)) /\ Continues(device, Waiting(Dropped(device)))
    BY <1>1, <1>2 DEF Continues, Whole, Devices, Dropped, Waiting
  <1>5. Continues(device, ForgetBoot(device))
    BY <1>2 DEF Continues, Whole, Devices, Dropped, Waiting, ForgetBoot
  <1> QED
    BY <1>3, <1>4, <1>5

LEMMA ConnectedContinues ==
    ASSUME NEW t \in Tasks, NEW device \in Devices, Whole(device), BootTyped
    PROVE  Continues(device, Connected(t, device))
  <1>1. boot[t.conn] \in Boots
    BY DEF BootTyped, Tasks
  <1> QED
    BY <1>1 DEF Continues, Whole, Devices, Connected

LEMMA ProbedContinues ==
    ASSUME NEW t \in Tasks, NEW device \in Devices, Whole(device), device.session # 0
    PROVE  /\ Continues(device, Probed(t, device).ok)
           /\ Continues(device, Probed(t, device).lost)
           /\ Continues(device, Dropped(Probed(t, device).lost))
           /\ Continues(device, Waiting(Probed(t, device).ok))
           /\ Continues(device, Waiting(Probed(t, device).lost))
  <1>1. CASE device.clock \notin {0, device.session}
    <2>1. Probed(t, device).ok = ForgetBoot(device) /\ Probed(t, device).lost = ForgetBoot(device)
      BY <1>1 DEF Probed
    <2>2. Dropped(ForgetBoot(device)) = ForgetBoot(device)
      BY DEF Dropped, ForgetBoot, Waiting, Devices
    <2>3. Waiting(ForgetBoot(device)) = ForgetBoot(device)
      BY DEF Dropped, ForgetBoot, Waiting, Devices
    <2> QED
      BY <2>1, <2>2, <2>3, PartsContinue
  <1>2. CASE device.clock \in {0, device.session}
    <2> DEFINE sampled == [device EXCEPT !.clock = device.session, !.qualified = TRUE]
               read == [sampled EXCEPT !.configured = TRUE, !.capability = TRUE]
    <2>1. Probed(t, device).ok = read /\ Probed(t, device).lost = sampled
      BY <1>2 DEF Probed
    <2>2. Continues(device, read)
      BY <1>2 DEF Continues, Whole, Devices
    <2>3. Continues(device, sampled)
      BY <1>2 DEF Continues, Whole, Devices
    <2>4. Continues(device, Dropped(sampled))
      <3>1. Dropped(sampled) \in Devices
        BY NoBoot DEF Devices, Dropped
      <3> QED
        BY <1>2, <3>1 DEF Continues, Whole, Devices, Dropped
    <2>5. Continues(device, Waiting(read)) /\ Continues(device, Waiting(sampled))
      <3>1. Waiting(read) \in Devices /\ Waiting(sampled) \in Devices
        BY DEF Devices, Waiting
      <3> QED
        BY <1>2, <3>1 DEF Continues, Whole, Devices, Waiting
    <2> HIDE DEF sampled, read
    <2> QED
      BY <2>1, <2>2, <2>3, <2>4, <2>5
  <1> QED
    BY <1>1, <1>2

\* Whatever becomes of a task, it leaves its connection so.
LEMMA AnswersContinue ==
    ASSUME NEW t \in Tasks, NEW device \in Devices, Whole(device), BootTyped,
           NEW after \in Answered(t, device) \cup Lost(t, device)
    PROVE  /\ Continues(device, after)
           /\ t.kind = "Job" => after \in {device, Dropped(device)}
  <1>1. CASE t.kind = "Connect"
    <2>1. after \in {Connected(t, device), Waiting(device)}
      BY <1>1 DEF Answered, Lost
    <2> QED
      BY <1>1, <2>1, PartsContinue, ConnectedContinues
  <1>2. CASE t.kind # "Connect" /\ (device.session = 0 \/ t.kind # "Probe")
    <2>1. after \in {device, Dropped(device)}
      BY <1>2 DEF Answered, Lost
    <2> QED
      BY <2>1, PartsContinue
  <1>3. CASE t.kind = "Probe" /\ device.session # 0
    <2>1. after \in {Waiting(device), Waiting(Dropped(device)), Probed(t, device).ok,
                     Probed(t, device).lost, Dropped(Probed(t, device).lost),
                     Waiting(Probed(t, device).ok), Waiting(Probed(t, device).lost)}
      BY <1>3 DEF Answered, Lost
    <2> QED
      BY <1>3, <2>1, PartsContinue, ProbedContinues
  <1> QED
    BY <1>1, <1>2, <1>3

\* A worker W is w with the task taken away and its connection put back.
Restores(w, W, t, device) ==
    /\ W \in Workers
    /\ W.tasks = w.tasks \ {t}
    /\ W.generation = w.generation
    /\ W.devices = [w.devices EXCEPT ![t.conn] = [state |-> "Idle", device |-> device]]

LEMMA RestoreOwners ==
    ASSUME NEW w, NEW W, NEW t, NEW device, Restores(w, W, t, device),
           w \in Workers, EntriesWhole(w), TasksOfThePast(w), OwnersUnique(w),
           t \in w.tasks, OwnsEntry(w, t), Whole(device),
           device.generation = w.devices[t.conn].device.generation
    PROVE  EntriesWhole(W) /\ TasksOfThePast(W) /\ OwnersUnique(W)
  <1>1. t.conn \in Conns /\ Serves(w, t, t.conn) /\ t.generation # 0
    BY DEF Workers, Tasks, OwnsEntry, Serves, TasksOfThePast
  <1>2. /\ W.devices[t.conn].state = "Idle" /\ W.devices[t.conn].device = device
        /\ \A c \in Conns \ {t.conn} : W.devices[c] = w.devices[c]
    BY <1>1 DEF Restores, Workers
  <1>3. W.tasks = w.tasks \ {t} /\ W.generation = w.generation
    BY DEF Restores
  <1>4. \A c \in Conns : W.devices[c].device.generation = w.devices[c].device.generation
    BY <1>2
  <1>5. EntriesWhole(W)
    <2>1. device.generation # 0 /\ w.devices[t.conn].device.generation <= w.generation
      BY <1>1 DEF EntriesWhole, Serves
    <2> QED
      BY <1>2, <1>3, <2>1 DEF EntriesWhole
  <1>6. TasksOfThePast(W)
    BY <1>3 DEF TasksOfThePast
  <1>7. \A u, c : c \in Conns => (Serves(W, u, c) <=> Serves(w, u, c))
    BY <1>4 DEF Serves
  <1>8. \A u \in W.tasks : ~ Serves(W, u, t.conn)
    BY <1>1, <1>3, <1>7 DEF OwnersUnique
  <1>9. \A u : u # t.conn => ~ Serves(w, t, u)
    BY DEF Serves
  <1>10. OwnersUnique(W)
    <2> SUFFICES ASSUME NEW c \in Conns
                 PROVE  /\ W.devices[c].state = "Busy" => \E u \in W.tasks : Serves(W, u, c)
                        /\ \A u \in W.tasks : Serves(W, u, c) => W.devices[c].state = "Busy"
                        /\ \A u, v \in W.tasks : Serves(W, u, c) /\ Serves(W, v, c) => u = v
      BY DEF OwnersUnique
    <2>1. CASE c = t.conn
      BY <1>2, <1>8, <2>1
    <2>2. CASE c # t.conn
      BY <1>2, <1>3, <1>7, <1>9, <2>2 DEF OwnersUnique
    <2> QED
      BY <2>1, <2>2
  <1> QED
    BY <1>5, <1>6, <1>10

\* A completion that owns nothing any more takes nothing with it.
LEMMA StaleKeeps ==
    ASSUME NEW w, WorkerInv(w), NEW t \in w.tasks, ~ OwnsEntry(w, t)
    PROVE  LET W == [w EXCEPT !.tasks = w.tasks \ {t}]
           IN  WorkerInv(W) /\ SameKnown(w, W)
  <1> DEFINE W == [w EXCEPT !.tasks = w.tasks \ {t}]
  <1>1. /\ W \in Workers /\ W.tasks = w.tasks \ {t} /\ W.devices = w.devices
        /\ W.generation = w.generation /\ W.job = w.job /\ W.posted = w.posted
    BY DEF WorkerInv, Workers
  <1> HIDE DEF W
  <1>2. EntriesWhole(W) /\ TasksOfThePast(W)
    BY <1>1 DEF WorkerInv, EntriesWhole, TasksOfThePast
  <1>3. t.kind # "Job"
    BY DEF WorkerInv, JobOwned
  <1>4. \A c \in Conns : ~ Serves(w, t, c)
    BY DEF WorkerInv, OwnersUnique, OwnsEntry, Serves
  <1>5. OwnersUnique(W)
    BY <1>1, <1>4 DEF WorkerInv, OwnersUnique, Serves
  <1>6. JobOwned(W)
    BY <1>1, <1>3 DEF WorkerInv, JobOwned, OwnsEntry, OnBoundBoot
  <1> QED
    BY <1>1, <1>2, <1>5, <1>6 DEF WorkerInv, SameKnown, W

-----------------------------------------------------------------------------
(* The page.                                                               *)

LEMMA AppliedTyped ==
    ASSUME NEW view \in Views, NEW m \in Messages
    PROVE  Applied(view, m) \in Views
  <1>1. /\ m.conn \in Conns /\ m.snapshot \in Snapshots
        /\ [generation |-> m.snapshot.generation, boot |-> m.snapshot.boot]
             \in [generation : Generations, boot : Boots]
    BY DEF Messages, Snapshots
  <1>2. NoSnapshot \in Snapshots /\ NoDocument \in [generation : Generations, boot : Boots]
    <2>1. 0 \in Generations
      BY BoundAssumption DEF Generations
    <2> QED
      BY <2>1, NoBoot DEF NoSnapshot, NoDocument, SnapshotOf, FromRequest, Snapshots
  <1> QED
    BY <1>1, <1>2 DEF Applied, Views

\* A message posted is the last one the page takes.
LEMMA PostOne ==
    ASSUME NEW view \in Views, NEW posted \in Seq(Messages), NEW last \in Views,
           Becomes(view, posted, last), NEW m \in Messages
    PROVE  /\ Applied(last, m) \in Views
           /\ Becomes(view, Append(posted, m), Applied(last, m))
  <1> DEFINE n == Len(posted)
  <1>1. PICK views \in [0..n -> Views] :
          /\ views[0] = view
          /\ \A k \in 1..n : views[k] = Applied(views[k - 1], posted[k])
          /\ views[n] = last
    BY DEF Becomes
  <1>2. n \in Nat /\ Len(Append(posted, m)) = n + 1
    OBVIOUS
  <1>3. Applied(last, m) \in Views
    BY AppliedTyped
  <1> DEFINE more == [k \in 0..(n + 1) |-> IF k = n + 1 THEN Applied(last, m) ELSE views[k]]
  <1>4. \A k \in 0..n : more[k] = views[k]
    BY <1>2
  <1>5. more[n + 1] = Applied(last, m)
    BY <1>2
  <1>6. more \in [0..(n + 1) -> Views]
    BY <1>2, <1>3
  <1> HIDE DEF more
  <1>7. ASSUME NEW k \in 1..(n + 1)
        PROVE  more[k] = Applied(more[k - 1], Append(posted, m)[k])
    <2>1. CASE k = n + 1
      <3>1. Append(posted, m)[k] = m /\ k - 1 = n /\ n \in 0..n
        BY <1>2, <2>1
      <3> QED
        BY <1>1, <1>4, <1>5, <2>1, <3>1
    <2>2. CASE k # n + 1
      <3>1. k \in 1..n /\ k \in 0..n /\ k - 1 \in 0..n
        BY <1>2, <2>2
      <3>2. Append(posted, m)[k] = posted[k]
        BY <3>1
      <3> QED
        BY <1>1, <1>4, <3>1, <3>2
    <2> QED
      BY <2>1, <2>2
  <1>8. more[0] = view
    BY <1>1, <1>2, <1>4
  <1> QED
    BY <1>2, <1>3, <1>5, <1>6, <1>7, <1>8 DEF Becomes

\* The page takes the first message: the rest still make the same last view.
LEMMA TakeOne ==
    ASSUME NEW view \in Views, NEW posted \in Seq(Messages), posted # <<>>, NEW last \in Views,
           Becomes(view, posted, last)
    PROVE  Becomes(Applied(view, Head(posted)), Tail(posted), last)
  <1> DEFINE n == Len(posted)
  <1>1. PICK views \in [0..n -> Views] :
          /\ views[0] = view
          /\ \A k \in 1..n : views[k] = Applied(views[k - 1], posted[k])
          /\ views[n] = last
    BY DEF Becomes
  <1>2. n \in Nat /\ n >= 1 /\ Len(Tail(posted)) = n - 1 /\ Head(posted) = posted[1]
    OBVIOUS
  <1> DEFINE rest == [k \in 0..(n - 1) |-> views[k + 1]]
  <1>3. rest \in [0..(n - 1) -> Views]
    BY <1>2
  <1>4. rest[0] = Applied(view, Head(posted))
    BY <1>1, <1>2
  <1>5. ASSUME NEW k \in 1..(n - 1)
        PROVE  rest[k] = Applied(rest[k - 1], Tail(posted)[k])
    <2>1. k + 1 \in 1..n /\ k \in 0..(n - 1) /\ k - 1 \in 0..(n - 1) /\ (k + 1) - 1 = k
          /\ (k - 1) + 1 = k
      BY <1>2
    <2>2. Tail(posted)[k] = posted[k + 1]
      BY <1>2
    <2>3. views[k + 1] = Applied(views[k], posted[k + 1])
      BY <1>1, <2>1
    <2> QED
      BY <2>1, <2>2, <2>3
  <1>6. rest[n - 1] = last
    BY <1>1, <1>2
  <1> HIDE DEF rest
  <1> QED
    BY <1>2, <1>3, <1>4, <1>5, <1>6 DEF Becomes

LEMMA TakeNone ==
    ASSUME NEW view \in Views, NEW last, Becomes(view, <<>>, last)
    PROVE  last = view
  BY DEF Becomes

\* What is not said to the page is not changed behind its back.
LEMMA SameLeads ==
    ASSUME NEW w, NEW W, SameKnown(w, W), NEW view, LeadsTo(view, w.posted, w.devices)
    PROVE  LeadsTo(view, W.posted, W.devices)
  BY DEF SameKnown, LeadsTo

\* A message about one connection after which the view agrees with what is known of it.
LEMMA PostLeads ==
    ASSUME NEW view \in Views, NEW posted \in Seq(Messages), NEW last \in Views,
           Becomes(view, posted, last), NEW m \in Messages,
           NEW devices, NEW more, NEW c \in Conns, m.conn = c,
           \A d \in Conns \ {c} : Mirrors(last, devices[d].device, d),
           \A d \in Conns \ {c} : more[d].device = devices[d].device,
           Mirrors(Applied(last, m), more[c].device, c)
    PROVE  LeadsTo(view, Append(posted, m), more)
  <1>1. /\ Applied(last, m) \in Views
        /\ Becomes(view, Append(posted, m), Applied(last, m))
    BY PostOne
  <1>2. ASSUME NEW d \in Conns \ {c}
        PROVE  /\ Applied(last, m).devices[d] = last.devices[d]
               /\ Applied(last, m).documents[d] = last.documents[d]
    BY <1>2 DEF Applied, Views
  <1>3. \A d \in Conns : Mirrors(Applied(last, m), more[d].device, d)
    BY <1>2 DEF Mirrors
  <1> QED
    BY <1>1, <1>3 DEF LeadsTo

\* A removal and a snapshot say it.
LEMMA RemovedSays ==
    ASSUME NEW last \in Views, NEW c \in Conns
    PROVE  Mirrors(Applied(last, Message("Removed", c, FromRequest(0))), FromRequest(0), c)
  <1> DEFINE m == Message("Removed", c, FromRequest(0))
  <1>1. m.kind = "Removed" /\ m.conn = c
    BY DEF Message
  <1> HIDE DEF m
  <1>2. ~ FromRequest(0).capability
    BY DEF FromRequest
  <1>3. /\ Applied(last, m).devices[c] = NoSnapshot
        /\ Applied(last, m).documents[c] = NoDocument
    BY <1>1 DEF Applied, Views
  <1> QED
    BY <1>2, <1>3 DEF Mirrors, NoSnapshot, m

LEMMA SnapshotSays ==
    ASSUME NEW last \in Views, NEW c \in Conns, NEW device \in Devices,
           device.capability => last.documents[c] = [generation |-> device.generation,
                                                     boot |-> device.clock]
    PROVE  Mirrors(Applied(last, Message("Snapshot", c, device)), device, c)
  <1> DEFINE m == Message("Snapshot", c, device)
  <1>1. m.kind = "Snapshot" /\ m.conn = c /\ m.snapshot = SnapshotOf(device)
    BY DEF Message
  <1> HIDE DEF m
  <1>2. /\ SnapshotOf(device).generation = device.generation
        /\ SnapshotOf(device).capability = device.capability
        /\ device.capability \in BOOLEAN
    BY DEF SnapshotOf, Devices
  <1>3. Applied(last, m).devices[c] = SnapshotOf(device)
    BY <1>1 DEF Applied, Views
  <1>4. Applied(last, m).documents[c] =
          IF KeepsDocument(last.documents[c], SnapshotOf(device))
            THEN last.documents[c] ELSE NoDocument
    BY <1>1 DEF Applied, Views
  <1>5. CASE device.capability
    <2>1. KeepsDocument(last.documents[c], SnapshotOf(device))
      BY <1>2, <1>5 DEF KeepsDocument
    <2> QED
      BY <1>3, <1>4, <1>5, <2>1 DEF Mirrors, m
  <1>6. CASE ~ device.capability
    <2>1. ~ KeepsDocument(last.documents[c], SnapshotOf(device))
      BY <1>2, <1>6 DEF KeepsDocument
    <2> QED
      BY <1>3, <1>4, <1>6, <2>1 DEF Mirrors, m
  <1> QED
    BY <1>5, <1>6

LEMMA CapabilitySays ==
    ASSUME NEW last \in Views, NEW c \in Conns, NEW device \in Devices,
           last.devices[c].generation = device.generation
    PROVE  LET view == Applied(last, Message("Capability", c, device))
           IN  /\ view.devices = last.devices
               /\ view.documents[c] = [generation |-> device.generation, boot |-> device.clock]
               /\ \A d \in Conns \ {c} : view.documents[d] = last.documents[d]
  <1> DEFINE m == Message("Capability", c, device)
  <1>1. /\ m.kind = "Capability" /\ m.conn = c
        /\ m.snapshot.generation = device.generation /\ m.snapshot.boot = device.clock
    BY DEF Message, SnapshotOf
  <1> HIDE DEF m
  <1>2. Applied(last, m) =
          [last EXCEPT !.documents[c] = [generation |-> device.generation, boot |-> device.clock]]
    BY <1>1 DEF Applied
  <1> QED
    BY <1>2 DEF Views, m

LEMMA MessageTyped ==
    ASSUME NEW kind \in {"Snapshot", "Capability", "Removed"}, NEW c \in Conns,
           NEW device \in Devices
    PROVE  Message(kind, c, device) \in Messages /\ Message(kind, c, device).conn = c
  BY DEF Message, Messages, SnapshotOf, Snapshots, Devices

LEMMA FreshTyped ==
    ASSUME NEW generation \in Generations
    PROVE  FromRequest(generation) \in Devices /\ Whole(FromRequest(generation))
  BY NoBoot DEF FromRequest, Devices, Whole

-----------------------------------------------------------------------------
(* Completions.                                                            *)

\* What a device step stores: its document is announced.
Stored(after) == [after EXCEPT !.announced = after.announced \/ after.capability]

LEMMA StoredWhole ==
    ASSUME NEW device, NEW after, Continues(device, after)
    PROVE  /\ Stored(after) \in Devices /\ Whole(Stored(after))
           /\ Stored(after).generation = device.generation
           /\ SnapshotOf(Stored(after)) = SnapshotOf(after)
           /\ Stored(after).capability = after.capability /\ Stored(after).clock = after.clock
  <1>1. after \in Devices /\ after.announced \in BOOLEAN /\ after.capability \in BOOLEAN
    BY DEF Continues, Devices
  <1>2. /\ Stored(after).announced = (after.announced \/ after.capability)
        /\ Stored(after).capability = after.capability
        /\ Stored(after).clock = after.clock /\ Stored(after).session = after.session
        /\ Stored(after).qualified = after.qualified
        /\ Stored(after).configured = after.configured
        /\ Stored(after).generation = after.generation
        /\ Stored(after) \in Devices
    BY <1>1 DEF Stored, Devices
  <1>3. Whole(Stored(after))
    BY <1>1, <1>2 DEF Whole, Continues
  <1> QED
    BY <1>2, <1>3 DEF Continues, SnapshotOf

LEMMA OneMore ==
    ASSUME NEW S, NEW posted \in Seq(S), NEW m \in S
    PROVE  posted \o <<m>> = Append(posted, m) /\ Append(posted, m) \in Seq(S)
  OBVIOUS

\* The documents and the snapshot of a device step, taken by the page, agree with it.
LEMMA DocumentsLead ==
    ASSUME NEW view \in Views, NEW posted \in Seq(Messages), NEW devices, NEW more,
           LeadsTo(view, posted, devices), NEW t \in Tasks, NEW after,
           Continues(devices[t.conn].device, after),
           Whole(devices[t.conn].device),
           more[t.conn].device = Stored(after),
           \A d \in Conns \ {t.conn} : more[d].device = devices[d].device
    PROVE  LET all == posted \o Documents(t, after) \o <<Message("Snapshot", t.conn, after)>>
           IN  all \in Seq(Messages) /\ LeadsTo(view, all, more)
  <1> DEFINE c == t.conn
             device == devices[c].device
             m == Message("Snapshot", c, after)
             q == Message("Capability", c, after)
  <1>1. PICK last \in Views : /\ Becomes(view, posted, last)
                              /\ \A d \in Conns : Mirrors(last, devices[d].device, d)
    BY DEF LeadsTo
  <1>2. c \in Conns /\ after \in Devices
    BY DEF Tasks, Continues
  <1>3. m \in Messages /\ m.conn = c /\ q \in Messages
    BY <1>2, MessageTyped
  <1>4. ASSUME NEW v \in Views, Mirrors(v, after, c)
        PROVE  Mirrors(v, Stored(after), c)
    <2>1. after.generation = device.generation
      BY DEF Continues
    <2> QED
      BY <1>4, <2>1, StoredWhole DEF Mirrors
  <1>5. CASE after.capability /\ ~ after.announced
    <2> DEFINE next == Applied(last, q)
    <2>1. posted \o Documents(t, after) \o <<m>> = Append(Append(posted, q), m)
      <3>1. Documents(t, after) = <<q>>
        BY <1>5 DEF Documents
      <3> HIDE DEF m, q
      <3>2. posted \o <<q>> = Append(posted, q) /\ Append(posted, q) \in Seq(Messages)
        BY <1>3, OneMore
      <3>3. Append(posted, q) \o <<m>> = Append(Append(posted, q), m)
        BY <1>3, <3>2, OneMore
      <3> QED
        BY <3>1, <3>2, <3>3
    <2>2. last.devices[c].generation = after.generation
      <3>1. last.devices[c] = SnapshotOf(device)
        BY <1>1, <1>2 DEF Mirrors
      <3>2. SnapshotOf(device).generation = device.generation
        BY DEF SnapshotOf
      <3>3. after.generation = device.generation
        BY DEF Continues
      <3> QED
        BY <3>1, <3>2, <3>3
    <2>3. /\ next.devices = last.devices
          /\ next.documents[c] = [generation |-> after.generation, boot |-> after.clock]
          /\ \A d \in Conns \ {c} : next.documents[d] = last.documents[d]
      BY <1>2, <2>2, CapabilitySays
    <2>4. next \in Views /\ Becomes(view, Append(posted, q), next)
      BY <1>1, <1>3, PostOne
    <2>5. Append(posted, q) \in Seq(Messages) /\ Append(Append(posted, q), m) \in Seq(Messages)
      BY <1>3
    <2> HIDE DEF next
    <2>6. Applied(next, m) \in Views /\ Mirrors(Applied(next, m), after, c)
      BY <1>2, <1>3, <2>3, <2>4, SnapshotSays, AppliedTyped
    <2>7. Mirrors(Applied(next, m), more[c].device, c)
      BY <1>4, <2>6
    <2>8. \A d \in Conns \ {c} : Mirrors(next, devices[d].device, d)
      BY <1>1, <2>3 DEF Mirrors
    <2> HIDE DEF m, q, c
    <2>9. LeadsTo(view, Append(Append(posted, q), m), more)
      BY <1>2, <1>3, <2>4, <2>5, <2>7, <2>8, PostLeads DEF c
    <2> QED
      BY <2>1, <2>5, <2>9 DEF m, c
  <1>6. CASE ~ (after.capability /\ ~ after.announced)
    <2>1. posted \o Documents(t, after) \o <<m>> = Append(posted, m)
      <3>1. Documents(t, after) = <<>>
        BY <1>6 DEF Documents
      <3> HIDE DEF m
      <3> QED
        BY <1>3, <3>1
    <2>2. Append(posted, m) \in Seq(Messages)
      BY <1>3
    <2>3. after.capability => last.documents[c] = [generation |-> after.generation,
                                                   boot |-> after.clock]
      BY <1>1, <1>2, <1>6 DEF Mirrors, Continues
    <2>4. Applied(last, m) \in Views /\ Mirrors(Applied(last, m), after, c)
      BY <1>2, <1>3, <2>3, SnapshotSays, AppliedTyped
    <2>5. Mirrors(Applied(last, m), more[c].device, c)
      BY <1>4, <2>4
    <2> HIDE DEF m, q, c
    <2>6. LeadsTo(view, Append(posted, m), more)
      BY <1>1, <1>2, <1>3, <2>5, PostLeads DEF c
    <2> QED
      BY <2>1, <2>2, <2>6 DEF m, c
  <1> QED
    BY <1>5, <1>6

\* The job's task is another one's: a device step that ends does not touch it.
LEMMA RestoreJob ==
    ASSUME NEW w, NEW W, NEW t, NEW device, Restores(w, W, t, device),
           WorkerInv(w), t \in w.tasks, OwnsEntry(w, t), t.kind # "Job", W.job = w.job
    PROVE  JobOwned(W)
  <1>1. W.tasks = w.tasks \ {t} /\ w.tasks \subseteq Tasks
    BY DEF Restores, WorkerInv, Workers
  <1>2. ASSUME NEW u \in w.tasks, u.kind = "Job"
        PROVE  W.devices[u.conn] = w.devices[u.conn]
    <2>1. OwnsEntry(w, u) /\ u # t /\ u.conn \in Conns
      BY <1>1, <1>2 DEF WorkerInv, JobOwned, Tasks
    <2>2. u.conn # t.conn
      <3>1. SUFFICES ASSUME u.conn = t.conn PROVE FALSE
        OBVIOUS
      <3>2. Serves(w, u, u.conn) /\ Serves(w, t, u.conn)
        BY <2>1, <3>1 DEF OwnsEntry, Serves
      <3> QED
        BY <2>1, <3>2 DEF WorkerInv, OwnersUnique
    <2> QED
      BY <2>1, <2>2 DEF Restores, WorkerInv, Workers
  <1>3. \A u \in w.tasks : u.kind = "Job" =>
          u \in W.tasks /\ W.job.state = "Busy" /\ OwnsEntry(W, u) /\ OnBoundBoot(W, u)
    BY <1>1, <1>2 DEF WorkerInv, JobOwned, OwnsEntry, OnBoundBoot
  <1> QED
    BY <1>1, <1>3 DEF WorkerInv, JobOwned

LEMMA DocumentsFew ==
    ASSUME NEW posted \in Seq(Messages), NEW t, t.conn \in Conns, NEW after \in Devices
    PROVE  Len(posted \o Documents(t, after) \o <<Message("Snapshot", t.conn, after)>>)
             <= Len(posted) + 2
  <1> DEFINE q == Message("Capability", t.conn, after)
             m == Message("Snapshot", t.conn, after)
  <1>1. Documents(t, after) = <<q>> \/ Documents(t, after) = <<>>
    BY DEF Documents
  <1>2. q \in Messages /\ m \in Messages
    BY MessageTyped
  <1> HIDE DEF q, m
  <1>3. /\ posted \o Documents(t, after) \in Seq(Messages)
        /\ Len(posted \o Documents(t, after)) <= Len(posted) + 1
    <2>1. CASE Documents(t, after) = <<q>>
      <3>1. posted \o <<q>> = Append(posted, q) /\ Append(posted, q) \in Seq(Messages)
        BY <1>2, OneMore
      <3>2. Len(Append(posted, q)) = Len(posted) + 1
        BY <1>2
      <3> QED
        BY <2>1, <3>1, <3>2
    <2>2. CASE Documents(t, after) = <<>>
      BY <2>2
    <2> QED
      BY <1>1, <2>1, <2>2
  <1> QED
    BY <1>2, <1>3 DEF m

\* finish_device_step
LEMMA FinishDeviceKeeps ==
    ASSUME NEW w, WorkerInv(w), BootTyped, NEW view \in Views,
           LeadsTo(view, w.posted, w.devices), NEW t \in w.tasks, t.kind # "Job",
           NEW after, Continues(w.devices[t.conn].device, after)
    PROVE  LET W == FinishDevice(w, t, after)
           IN  /\ WorkerInv(W) /\ LeadsTo(view, W.posted, W.devices)
               /\ Len(W.posted) <= Len(w.posted) + 2
  <1> DEFINE device == w.devices[t.conn].device
             all == w.posted \o Documents(t, after) \o <<Message("Snapshot", t.conn, after)>>
             entry == [state |-> "Idle", device |-> Stored(after)]
             ended == [w EXCEPT !.tasks = w.tasks \ {t}]
             W == [w EXCEPT !.tasks = w.tasks \ {t},
                            !.devices = [w.devices EXCEPT ![t.conn] = entry],
                            !.posted = all]
  <1>1. w \in Workers /\ t \in Tasks /\ t.conn \in Conns
    BY DEF WorkerInv, Workers, Tasks
  <1>2. CASE ~ OwnsEntry(w, t)
    <2>1. FinishDevice(w, t, after) = ended
      BY <1>2 DEF FinishDevice
    <2>2. WorkerInv(ended) /\ SameKnown(w, ended)
      BY <1>2, StaleKeeps
    <2>3. Len(ended.posted) <= Len(w.posted) + 2
      BY <1>1, <2>2 DEF SameKnown, Workers
    <2> HIDE DEF ended
    <2> QED
      BY <2>1, <2>2, <2>3, SameLeads
  <1>3. CASE OwnsEntry(w, t)
    <2>1. FinishDevice(w, t, after) =
            IF t.kind = "Connect" /\ after.session # 0 THEN LaunchStep(W, t.conn) ELSE W
      BY <1>1, <1>3 DEF FinishDevice, Stored, Workers
    <2>2. /\ Stored(after) \in Devices /\ Whole(Stored(after))
          /\ Stored(after).generation = device.generation
      BY StoredWhole
    <2>3. Whole(device)
      BY <1>1 DEF WorkerInv, EntriesWhole
    <2> DEFINE devices == [w.devices EXCEPT ![t.conn] = entry]
    <2>4. /\ devices \in [Conns -> Entries]
          /\ devices[t.conn].device = Stored(after)
          /\ \A d \in Conns \ {t.conn} : devices[d].device = w.devices[d].device
      BY <1>1, <2>2 DEF Workers, Entries
    <2>5. W.devices = devices /\ W.tasks = w.tasks \ {t} /\ W.generation = w.generation
          /\ W.job = w.job /\ W.posted = all
      BY <1>1 DEF Workers
    <2>6. all \in Seq(Messages) /\ LeadsTo(view, all, devices)
      <3>1. w.posted \in Seq(Messages)
        BY <1>1 DEF Workers
      <3> HIDE DEF devices, entry
      <3> QED
        BY <1>1, <2>3, <2>4, <3>1, DocumentsLead
    <2>14. Len(all) <= Len(w.posted) + 2
      <3>1. w.posted \in Seq(Messages) /\ after \in Devices
        BY <1>1 DEF Workers, Continues
      <3> QED
        BY <1>1, <3>1, DocumentsFew
    <2>7. W \in Workers
      <3> HIDE DEF devices, all
      <3>1. W = [w EXCEPT !.tasks = w.tasks \ {t}, !.devices = devices, !.posted = all]
        BY DEF devices
      <3> HIDE DEF W
      <3> QED
        BY <1>1, <2>4, <2>6, <3>1 DEF Workers
    <2>8. Restores(w, W, t, Stored(after))
      <3> HIDE DEF W, all
      <3> QED
        BY <2>5, <2>7 DEF Restores
    <2> HIDE DEF W, all, devices, entry
    <2>9. EntriesWhole(W) /\ TasksOfThePast(W) /\ OwnersUnique(W)
      BY <1>1, <1>3, <2>2, <2>8, RestoreOwners DEF WorkerInv
    <2>10. JobOwned(W)
      BY <1>3, <2>5, <2>8, RestoreJob
    <2>11. WorkerInv(W) /\ LeadsTo(view, W.posted, W.devices)
      BY <2>5, <2>6, <2>7, <2>9, <2>10 DEF WorkerInv
    <2>12. WorkerInv(LaunchStep(W, t.conn)) /\ SameKnown(W, LaunchStep(W, t.conn))
      BY <1>1, <2>11, LaunchStepKeeps
    <2>13. LeadsTo(view, LaunchStep(W, t.conn).posted, LaunchStep(W, t.conn).devices)
      BY <2>11, <2>12, SameLeads
    <2>15. /\ Len(W.posted) <= Len(w.posted) + 2
           /\ Len(LaunchStep(W, t.conn).posted) <= Len(w.posted) + 2
      BY <2>5, <2>12, <2>14 DEF SameKnown
    <2> QED
      BY <2>1, <2>11, <2>12, <2>13, <2>15
  <1> QED
    BY <1>2, <1>3

LEMMA AfterOperationTyped ==
    ASSUME NEW job \in Jobs, job.left # 0
    PROVE  AfterOperation(job) \in Jobs /\ AfterOperation(job).state = "Idle"
  <1>1. job.left - 1 \in 0..JobOps
    BY BoundAssumption DEF Jobs
  <1> QED
    BY <1>1 DEF AfterOperation, Jobs

\* finish_live_job_step
LEMMA FinishJobKeeps ==
    ASSUME NEW w, WorkerInv(w), NEW view \in Views,
           LeadsTo(view, w.posted, w.devices), NEW t \in w.tasks, t.kind = "Job",
           NEW after \in {w.devices[t.conn].device, Dropped(w.devices[t.conn].device)},
           NEW answered \in BOOLEAN
    PROVE  LET W == FinishJob(w, t, after, answered)
           IN  /\ WorkerInv(W) /\ LeadsTo(view, W.posted, W.devices)
               /\ Len(W.posted) <= Len(w.posted) + 2
  <1> DEFINE c == t.conn
             device == w.devices[c].device
             m == Message("Snapshot", c, after)
             entry == [state |-> "Idle", device |-> after]
             devices == [w.devices EXCEPT ![c] = entry]
             job == IF answered THEN AfterOperation(w.job) ELSE [w.job EXCEPT !.state = "Idle"]
             W == [w EXCEPT !.tasks = w.tasks \ {t}, !.devices = devices,
                            !.job = job, !.posted = Append(w.posted, m)]
  <1>1. w \in Workers /\ t \in Tasks /\ c \in Conns /\ w.job \in Jobs
    BY DEF WorkerInv, Workers, Tasks
  <1>2. OwnsEntry(w, t) /\ w.job.state = "Busy" /\ w.job.left # 0
    BY DEF WorkerInv, JobOwned
  <1>3. FinishJob(w, t, after, answered) = W
    BY <1>1, <1>2 DEF FinishJob, Workers
  <1>4. device \in Devices /\ Whole(device)
    BY <1>1 DEF WorkerInv, EntriesWhole, Workers, Entries
  <1>5. /\ after \in Devices /\ Whole(after) /\ after.generation = device.generation
        /\ after.capability = device.capability /\ after.clock = device.clock
    <2>1. Dropped(device) \in Devices
      BY <1>4, NoBoot DEF Devices, Dropped
    <2> QED
      BY <1>4, <2>1 DEF Whole, Devices, Dropped
  <1>6. job \in Jobs /\ job.state = "Idle"
    BY <1>1, <1>2, AfterOperationTyped DEF Jobs
  <1>7. /\ devices \in [Conns -> Entries]
        /\ devices[c].device = after
        /\ \A d \in Conns \ {c} : devices[d].device = w.devices[d].device
    BY <1>1, <1>5 DEF Workers, Entries
  <1>8. m \in Messages /\ m.conn = c
    BY <1>1, <1>5, MessageTyped
  <1>9. LeadsTo(view, Append(w.posted, m), devices)
    <2>1. PICK last \in Views : /\ Becomes(view, w.posted, last)
                                /\ \A d \in Conns : Mirrors(last, w.devices[d].device, d)
      BY DEF LeadsTo
    <2>2. after.capability => last.documents[c] = [generation |-> after.generation,
                                                   boot |-> after.clock]
      BY <1>1, <1>5, <2>1 DEF Mirrors
    <2>3. Mirrors(Applied(last, m), after, c)
      BY <1>1, <1>5, <2>2, SnapshotSays
    <2>4. w.posted \in Seq(Messages)
      BY <1>1 DEF Workers
    <2> HIDE DEF m, devices, c
    <2> QED
      BY <1>1, <1>7, <1>8, <2>1, <2>3, <2>4, PostLeads
  <1>10. Append(w.posted, m) \in Seq(Messages) /\ Len(Append(w.posted, m)) <= Len(w.posted) + 2
    <2>1. w.posted \in Seq(Messages)
      BY <1>1 DEF Workers
    <2> HIDE DEF m
    <2> QED
      BY <1>8, <2>1
  <1>11. /\ W.devices = devices /\ W.tasks = w.tasks \ {t} /\ W.generation = w.generation
         /\ W.job = job /\ W.posted = Append(w.posted, m)
    BY <1>1 DEF Workers
  <1>12. W \in Workers
    <2> HIDE DEF devices, job, m
    <2> QED
      BY <1>1, <1>6, <1>7, <1>10 DEF Workers
  <1>13. Restores(w, W, t, after)
    <2>1. devices = [w.devices EXCEPT ![t.conn] = [state |-> "Idle", device |-> after]]
      OBVIOUS
    <2> HIDE DEF W, devices, m, job
    <2> QED
      BY <1>11, <1>12, <2>1 DEF Restores
  <1> HIDE DEF W, devices, entry, m, job
  <1>14. EntriesWhole(W) /\ TasksOfThePast(W) /\ OwnersUnique(W)
    BY <1>1, <1>2, <1>5, <1>13, RestoreOwners DEF WorkerInv
  <1>15. JobOwned(W)
    <2>1. \A u \in W.tasks : u.kind # "Job"
      BY <1>11 DEF WorkerInv, JobOwned
    <2> QED
      BY <1>6, <1>11, <2>1 DEF JobOwned
  <1>16. Len(W.posted) <= Len(w.posted) + 2
    BY <1>10, <1>11
  <1> QED
    BY <1>3, <1>9, <1>11, <1>12, <1>14, <1>15, <1>16 DEF WorkerInv

-----------------------------------------------------------------------------
(* The actions.                                                            *)

\* What a step has to preserve of the worker: its table, and what it owes the page.
Kept ==
    /\ WorkerInv(worker') /\ Len(worker'.posted) <= MaxQueue
    /\ LeadsTo(page', worker'.posted, worker'.devices)

LEMMA TickKeeps ==
    ASSUME OwnerInv, PageInv, NEW due \in SUBSET Conns, Tick(due)
    PROVE  Kept
  <1>1. PICK W \in JobStep(worker) : worker' = LaunchDue(W, due)
    BY DEF Tick
  <1>2. WorkerInv(W) /\ SameKnown(worker, W)
    BY JobStepKeeps DEF OwnerInv
  <1>3. WorkerInv(worker') /\ SameKnown(W, worker')
    BY <1>1, <1>2, LaunchDueKeeps DEF OwnerInv
  <1>4. SameKnown(worker, worker') /\ page' = page
    BY <1>2, <1>3 DEF SameKnown, Tick
  <1>5. LeadsTo(page, worker'.posted, worker'.devices)
    BY <1>4, SameLeads DEF PageInv
  <1> QED
    BY <1>3, <1>4, <1>5 DEF Kept, OwnerInv, SameKnown

LEMMA TaskEndsKeeps ==
    ASSUME OwnerInv, PageInv, NEW t \in worker.tasks, TaskEnds(t)
    PROVE  Kept
  <1> DEFINE device == worker.devices[t.conn].device
  <1>1. PICK after \in Answered(t, device) \cup Lost(t, device), answered \in BOOLEAN :
          worker' = Finish(worker, t, after, answered)
    <2>1. Reaches(t, device) \in BOOLEAN
      BY DEF Reaches
    <2> QED
      BY <2>1 DEF TaskEnds
  <1>2. t \in Tasks /\ device \in Devices /\ Whole(device) /\ worker.posted \in Seq(Messages)
    BY DEF OwnerInv, WorkerInv, EntriesWhole, Workers, Entries, Tasks
  <1>3. Continues(device, after) /\ (t.kind = "Job" => after \in {device, Dropped(device)})
    BY <1>2, AnswersContinue DEF OwnerInv
  <1>4. WorkerInv(worker) /\ BootTyped /\ page \in Views
        /\ LeadsTo(page, worker.posted, worker.devices)
    BY DEF OwnerInv, PageInv
  <1>5. /\ WorkerInv(worker') /\ LeadsTo(page, worker'.posted, worker'.devices)
        /\ Len(worker'.posted) <= Len(worker.posted) + 2
    <2>1. CASE t.kind = "Job"
      <3>1. worker' = FinishJob(worker, t, after, answered)
        BY <1>1, <2>1 DEF Finish
      <3> QED
        BY <1>3, <1>4, <2>1, <3>1, FinishJobKeeps
    <2>2. CASE t.kind # "Job"
      <3>1. worker' = FinishDevice(worker, t, after)
        BY <1>1, <2>2 DEF Finish
      <3> QED
        BY <1>3, <1>4, <2>2, <3>1, FinishDeviceKeeps
    <2> QED
      BY <2>1, <2>2
  <1>6. page' = page /\ Len(worker.posted) + 2 <= MaxQueue
    BY DEF TaskEnds, Room
  <1>7. Len(worker'.posted) <= MaxQueue
    <2>1. Len(worker.posted) \in Nat /\ worker'.posted \in Seq(Messages)
      BY <1>2, <1>5 DEF WorkerInv, Workers
    <2> QED
      BY <1>5, <1>6, <2>1, BoundAssumption
  <1> QED
    BY <1>5, <1>6, <1>7 DEF Kept

\* A connection that leaves the table or enters it as a new one: what ran for it is
\* nobody's any more.
LEMMA ReplaceKeeps ==
    ASSUME NEW w, WorkerInv(w), NEW c \in Conns, MayReplace(w, c), NEW W \in Workers,
           NEW entry \in Entries, Whole(entry.device), entry.state # "Busy",
           W.devices = [w.devices EXCEPT ![c] = entry],
           W.tasks = w.tasks, W.job = w.job,
           \/ entry = Absent /\ W.generation = w.generation
           \/ /\ entry.state = "Idle" /\ W.generation = w.generation + 1
              /\ entry.device.generation = W.generation
    PROVE  WorkerInv(W)
  <1>1. /\ w \in Workers /\ w.generation \in Nat /\ W.generation \in Nat
        /\ w.tasks \subseteq Tasks
    BY DEF WorkerInv, Workers, Generations
  <1>2. /\ W.devices[c] = entry
        /\ \A d \in Conns \ {c} : W.devices[d] = w.devices[d]
    BY <1>1 DEF Workers
  <1>3. W.generation >= w.generation
    BY <1>1
  <1>4. /\ entry.state = "Absent" <=> entry.device.generation = 0
        /\ entry.device.generation <= W.generation
    BY <1>1 DEF Absent, FromRequest
  <1>5. EntriesWhole(W)
    <2> SUFFICES ASSUME NEW d \in Conns, d # c
                 PROVE  /\ W.devices[d].state = "Absent" <=> W.devices[d].device.generation = 0
                        /\ W.devices[d].device.generation <= W.generation
                        /\ Whole(W.devices[d].device)
      BY <1>2, <1>4 DEF EntriesWhole
    <2>1. /\ w.devices[d].state = "Absent" <=> w.devices[d].device.generation = 0
          /\ w.devices[d].device.generation <= w.generation
          /\ Whole(w.devices[d].device)
      BY DEF WorkerInv, EntriesWhole
    <2>2. w.devices[d].device.generation \in Nat
      BY <1>1 DEF Workers, Entries, Devices, Generations
    <2> QED
      BY <1>1, <1>2, <1>3, <2>1, <2>2
  <1>6. ASSUME NEW t \in w.tasks
        PROVE  t.generation \in Nat /\ t.generation # 0 /\ t.generation <= w.generation
    BY <1>1 DEF WorkerInv, TasksOfThePast, Tasks, Generations
  <1>7. TasksOfThePast(W)
    BY <1>1, <1>3, <1>6 DEF TasksOfThePast
  <1>8. \A t \in w.tasks : t.generation # entry.device.generation
    <2>1. CASE entry = Absent
      BY <1>6, <2>1 DEF Absent, FromRequest
    <2>2. CASE entry.device.generation = w.generation + 1
      BY <1>1, <1>6, <2>2
    <2> QED
      BY <2>1, <2>2
  <1>9. OwnersUnique(W)
    <2> SUFFICES ASSUME NEW d \in Conns
                 PROVE  /\ W.devices[d].state = "Busy" => \E t \in W.tasks : Serves(W, t, d)
                        /\ \A t \in W.tasks : Serves(W, t, d) => W.devices[d].state = "Busy"
                        /\ \A t, u \in W.tasks : Serves(W, t, d) /\ Serves(W, u, d) => t = u
      BY DEF OwnersUnique
    <2>1. CASE d = c
      BY <1>2, <1>8, <2>1 DEF Serves
    <2>2. CASE d # c
      BY <1>2, <2>2 DEF Serves, WorkerInv, OwnersUnique
    <2> QED
      BY <2>1, <2>2
  <1>10. JobOwned(W)
    <2>1. ASSUME NEW t \in w.tasks, t.kind = "Job"
          PROVE  W.devices[t.conn] = w.devices[t.conn]
      <3>1. /\ OwnsEntry(w, t) /\ OnBoundBoot(w, t) /\ w.job.state = "Busy"
            /\ t.conn \in Conns /\ t.generation # 0
        BY <1>1, <1>6, <2>1 DEF WorkerInv, JobOwned, Tasks
      <3>2. Bound(w.job, t.conn)
        BY <3>1 DEF Bound, OnBoundBoot, OwnsEntry
      <3> QED
        BY <1>2, <3>1, <3>2 DEF MayReplace
    <2> QED
      BY <2>1 DEF WorkerInv, JobOwned, OwnsEntry, OnBoundBoot
  <1> QED
    BY <1>5, <1>7, <1>9, <1>10 DEF WorkerInv

\* One message that agrees with a connection that was replaced.
LEMMA ReplaceLeads ==
    ASSUME NEW w \in Workers, NEW view \in Views, LeadsTo(view, w.posted, w.devices),
           NEW c \in Conns, NEW entry \in Entries, NEW m \in Messages, m.conn = c,
           \A last \in Views : Mirrors(Applied(last, m), entry.device, c)
    PROVE  LeadsTo(view, Append(w.posted, m), [w.devices EXCEPT ![c] = entry])
  <1> DEFINE more == [w.devices EXCEPT ![c] = entry]
  <1>1. more[c] = entry /\ \A d \in Conns \ {c} : more[d] = w.devices[d]
    BY DEF Workers
  <1>2. PICK last \in Views : /\ Becomes(view, w.posted, last)
                              /\ \A d \in Conns : Mirrors(last, w.devices[d].device, d)
    BY DEF LeadsTo
  <1>3. w.posted \in Seq(Messages)
    BY DEF Workers
  <1> HIDE DEF more
  <1>4. Mirrors(Applied(last, m), more[c].device, c)
    BY <1>1
  <1>5. LeadsTo(view, Append(w.posted, m), more)
    BY <1>1, <1>2, <1>3, <1>4, PostLeads
  <1> QED
    BY <1>5 DEF more

LEMMA ConfigureKeeps ==
    ASSUME OwnerInv, PageInv, NEW c \in Conns, Configure(c)
    PROVE  Kept
  <1> DEFINE generation == worker.generation + 1
             fresh == FromRequest(generation)
             entry == [state |-> "Idle", device |-> fresh]
             m == Message("Snapshot", c, fresh)
             devices == [worker.devices EXCEPT ![c] = entry]
             W == [worker EXCEPT !.generation = generation, !.devices = devices,
                                 !.posted = Append(worker.posted, m)]
  <1>1. /\ worker \in Workers /\ WorkerInv(worker) /\ BootTyped /\ page \in Views
        /\ LeadsTo(page, worker.posted, worker.devices)
    BY DEF OwnerInv, PageInv, WorkerInv
  <1>2. worker' = LaunchStep(W, c) /\ page' = page
    BY <1>1 DEF Configure, Workers
  <1>3. generation \in Generations /\ worker.generation \in Nat
    BY <1>1, BoundAssumption DEF Configure, Generations, Workers
  <1>4. fresh \in Devices /\ Whole(fresh) /\ fresh.generation = generation
        /\ ~ fresh.capability
    BY <1>3, FreshTyped DEF FromRequest
  <1>5. entry \in Entries
    BY <1>4 DEF Entries
  <1>6. m \in Messages /\ m.conn = c
    BY <1>4, MessageTyped
  <1>7. \A last \in Views : Mirrors(Applied(last, m), fresh, c)
    BY <1>4, SnapshotSays
  <1>8. worker.posted \in Seq(Messages) /\ Append(worker.posted, m) \in Seq(Messages)
        /\ Len(Append(worker.posted, m)) <= MaxQueue
    <2>1. worker.posted \in Seq(Messages)
      BY <1>1 DEF Workers
    <2>2. Len(worker.posted) + 1 <= MaxQueue
      BY DEF Configure, Room
    <2> HIDE DEF m
    <2> QED
      BY <1>6, <2>1, <2>2
  <1>9. devices \in [Conns -> Entries]
    BY <1>1, <1>5 DEF Workers
  <1>10. /\ W.devices = devices /\ W.tasks = worker.tasks /\ W.job = worker.job
         /\ W.generation = generation /\ W.posted = Append(worker.posted, m)
    BY <1>1 DEF Workers
  <1>11. W \in Workers
    <2> HIDE DEF devices, m, generation
    <2> QED
      BY <1>1, <1>3, <1>8, <1>9 DEF Workers
  <1>12. MayReplace(worker, c)
    BY DEF Configure
  <1>13. entry.state = "Idle" /\ entry.device = fresh
    OBVIOUS
  <1>14. LeadsTo(page, Append(worker.posted, m), devices)
    <2> HIDE DEF m, fresh, entry
    <2> QED
      BY <1>1, <1>5, <1>6, <1>7, <1>13, ReplaceLeads
  <1> HIDE DEF fresh, entry, m, W
  <1>15. WorkerInv(W)
    BY <1>1, <1>4, <1>5, <1>10, <1>11, <1>12, <1>13, ReplaceKeeps
  <1> HIDE DEF devices, generation
  <1>16. WorkerInv(LaunchStep(W, c)) /\ SameKnown(W, LaunchStep(W, c))
    BY <1>1, <1>15, LaunchStepKeeps
  <1>17. LeadsTo(page, W.posted, W.devices)
    BY <1>10, <1>14
  <1>18. LeadsTo(page, LaunchStep(W, c).posted, LaunchStep(W, c).devices)
    BY <1>16, <1>17, SameLeads
  <1>19. Len(LaunchStep(W, c).posted) <= MaxQueue
    BY <1>8, <1>10, <1>16 DEF SameKnown
  <1> QED
    BY <1>2, <1>16, <1>18, <1>19 DEF Kept

LEMMA DisconnectKeeps ==
    ASSUME OwnerInv, PageInv, NEW c \in Conns, Disconnect(c)
    PROVE  Kept
  <1> DEFINE m == Message("Removed", c, FromRequest(0))
             devices == [worker.devices EXCEPT ![c] = Absent]
             W == [worker EXCEPT !.devices = devices, !.posted = Append(worker.posted, m)]
  <1>1. /\ worker \in Workers /\ WorkerInv(worker) /\ page \in Views
        /\ LeadsTo(page, worker.posted, worker.devices)
    BY DEF OwnerInv, PageInv, WorkerInv
  <1>2. worker' = W /\ page' = page
    BY <1>1 DEF Disconnect, Workers
  <1>3. 0 \in Generations
    BY BoundAssumption DEF Generations
  <1>4. FromRequest(0) \in Devices /\ Whole(FromRequest(0))
    BY <1>3, FreshTyped
  <1>5. /\ Absent \in Entries /\ Whole(Absent.device) /\ Absent.state # "Busy"
        /\ Absent.device = FromRequest(0)
    BY <1>4 DEF Absent, Entries
  <1>6. m \in Messages /\ m.conn = c
    BY <1>4, MessageTyped
  <1>7. \A last \in Views : Mirrors(Applied(last, m), FromRequest(0), c)
    BY RemovedSays
  <1>8. worker.posted \in Seq(Messages) /\ Append(worker.posted, m) \in Seq(Messages)
        /\ Len(Append(worker.posted, m)) <= MaxQueue
    <2>1. worker.posted \in Seq(Messages)
      BY <1>1 DEF Workers
    <2>2. Len(worker.posted) + 1 <= MaxQueue
      BY DEF Disconnect, Room
    <2> HIDE DEF m
    <2> QED
      BY <1>6, <2>1, <2>2
  <1>9. devices \in [Conns -> Entries]
    BY <1>1, <1>5 DEF Workers
  <1>10. /\ W.devices = devices /\ W.tasks = worker.tasks /\ W.job = worker.job
         /\ W.generation = worker.generation /\ W.posted = Append(worker.posted, m)
    BY <1>1 DEF Workers
  <1>11. W \in Workers
    <2> HIDE DEF devices, m
    <2> QED
      BY <1>1, <1>8, <1>9 DEF Workers
  <1>12. MayReplace(worker, c)
    BY DEF Disconnect
  <1>13. LeadsTo(page, Append(worker.posted, m), devices)
    <2> HIDE DEF m
    <2> QED
      BY <1>1, <1>5, <1>6, <1>7, ReplaceLeads
  <1> HIDE DEF m, W
  <1>14. WorkerInv(W)
    BY <1>1, <1>5, <1>10, <1>11, <1>12, ReplaceKeeps
  <1> HIDE DEF devices
  <1> QED
    BY <1>2, <1>8, <1>10, <1>13, <1>14 DEF Kept

\* Steps that tell the page nothing and keep what is known.
LEMMA QuietKept ==
    ASSUME OwnerInv, PageInv, WorkerInv(worker'), SameKnown(worker, worker'), page' = page
    PROVE  Kept
  <1>1. LeadsTo(page, worker'.posted, worker'.devices)
    BY SameLeads DEF PageInv
  <1> QED
    BY <1>1 DEF Kept, OwnerInv, SameKnown

LEMMA LaunchByCommandKeeps ==
    ASSUME OwnerInv, PageInv, NEW c \in Conns, LaunchByCommand(c)
    PROVE  Kept
  <1>1. Idle(worker, c) /\ page' = page
        /\ worker' \in {LaunchStep(worker, c), TakeDevice(worker, c, "Network")}
    BY DEF LaunchByCommand
  <1>2. "Network" \in Kinds \ {"Job"}
    BY DEF Kinds
  <1>3. WorkerInv(worker) /\ BootTyped
    BY DEF OwnerInv
  <1>4. WorkerInv(worker') /\ SameKnown(worker, worker')
    <2>1. CASE worker' = LaunchStep(worker, c)
      BY <1>3, <2>1, LaunchStepKeeps
    <2>2. CASE worker' = TakeDevice(worker, c, "Network")
      BY <1>1, <1>2, <1>3, <2>2, TakeKeeps
    <2> QED
      BY <1>1, <2>1, <2>2
  <1> QED
    BY <1>1, <1>4, QuietKept

LEMMA StageKeeps ==
    ASSUME OwnerInv, PageInv, NEW participants \in SUBSET Conns, StageCachedJob(participants)
    PROVE  Kept
  <1> DEFINE binding == [c \in Conns |->
               IF c \in participants
                 THEN [generation |-> page.devices[c].generation, boot |-> page.devices[c].boot]
                 ELSE Unbound]
             job == [state |-> "Idle", phase |-> "Caching", left |-> JobOps, binding |-> binding]
             W == [worker EXCEPT !.job = job]
  <1>1. worker \in Workers /\ WorkerInv(worker) /\ BootTyped /\ page \in Views
    BY DEF OwnerInv, WorkerInv
  <1>2. worker' \in JobStep(W) /\ page' = page /\ worker.job = NoJob
    BY DEF StageCachedJob
  <1>3. 0 \in Generations /\ JobOps \in 0..JobOps
    BY BoundAssumption DEF Generations
  <1>4. binding \in Bindings
    <2>1. Unbound \in [generation : Generations, boot : Boots]
      BY <1>3, NoBoot DEF Unbound
    <2>2. \A c \in Conns : [generation |-> page.devices[c].generation,
                            boot |-> page.devices[c].boot]
                             \in [generation : Generations, boot : Boots]
      BY <1>1 DEF Views, Snapshots
    <2> QED
      BY <2>1, <2>2 DEF Bindings
  <1>5. job \in Jobs /\ job.state = "Idle"
    <2> HIDE DEF binding
    <2> QED
      BY <1>3, <1>4 DEF Jobs
  <1> HIDE DEF job
  <1>6. /\ W \in Workers /\ W.devices = worker.devices /\ W.tasks = worker.tasks
        /\ W.generation = worker.generation /\ W.posted = worker.posted /\ W.job = job
    BY <1>1, <1>5 DEF Workers
  <1>7. worker.job.state # "Busy"
    BY <1>2 DEF NoJob
  <1> HIDE DEF W
  <1>8. WorkerInv(W)
    BY <1>1, <1>5, <1>6, <1>7, JobAlters
  <1>9. WorkerInv(worker') /\ SameKnown(W, worker')
    BY <1>1, <1>2, <1>8, JobStepKeeps
  <1>10. SameKnown(worker, worker')
    BY <1>6, <1>9 DEF SameKnown
  <1> QED
    BY <1>2, <1>9, <1>10, QuietKept

LEMMA StartKeeps ==
    ASSUME OwnerInv, PageInv, StartCachedJob
    PROVE  Kept
  <1> DEFINE W == [worker EXCEPT !.pendingStart = TRUE]
  <1>1. worker \in Workers /\ WorkerInv(worker) /\ BootTyped
    BY DEF OwnerInv, WorkerInv
  <1>2. worker' \in JobStep(W) /\ page' = page /\ worker.job.state # "Busy"
    BY DEF StartCachedJob
  <1>3. /\ W \in Workers /\ W.devices = worker.devices /\ W.tasks = worker.tasks
        /\ W.generation = worker.generation /\ W.posted = worker.posted /\ W.job = worker.job
    BY <1>1 DEF Workers
  <1> HIDE DEF W
  <1>4. WorkerInv(W)
    BY <1>1, <1>2, <1>3, JobAlters
  <1>5. WorkerInv(worker') /\ SameKnown(W, worker')
    BY <1>1, <1>2, <1>4, JobStepKeeps
  <1>6. SameKnown(worker, worker')
    BY <1>3, <1>5 DEF SameKnown
  <1> QED
    BY <1>2, <1>5, <1>6, QuietKept

LEMMA NoJobTyped == NoJob \in Jobs
  <1>1. 0 \in Generations /\ 0 \in 0..JobOps
    BY BoundAssumption DEF Generations
  <1>2. [c \in Conns |-> Unbound] \in Bindings
    BY <1>1, NoBoot DEF Bindings, Unbound
  <1> QED
    BY <1>1, <1>2 DEF NoJob, Jobs

LEMMA ClearKeeps ==
    ASSUME OwnerInv, PageInv, ClearCachedJob
    PROVE  Kept
  <1> DEFINE W == [worker EXCEPT !.job = NoJob, !.pendingStart = FALSE]
  <1>1. worker \in Workers /\ WorkerInv(worker)
    BY DEF OwnerInv, WorkerInv
  <1>2. worker' = W /\ page' = page /\ worker.job.state # "Busy"
    BY DEF ClearCachedJob
  <1>3. /\ W \in Workers /\ W.devices = worker.devices /\ W.tasks = worker.tasks
        /\ W.generation = worker.generation /\ W.posted = worker.posted /\ W.job = NoJob
    BY <1>1, NoJobTyped DEF Workers
  <1>4. W.job.state # "Busy"
    BY <1>3 DEF NoJob
  <1> HIDE DEF W
  <1>5. WorkerInv(worker') /\ SameKnown(worker, worker')
    BY <1>1, <1>2, <1>3, <1>4, JobAlters DEF SameKnown
  <1> QED
    BY <1>2, <1>5, QuietKept

LEMMA PageReceivesKeeps ==
    ASSUME OwnerInv, PageInv, PageReceives
    PROVE  Kept /\ page' \in Views
  <1> DEFINE W == [worker EXCEPT !.posted = Tail(worker.posted)]
  <1>1. /\ worker \in Workers /\ WorkerInv(worker) /\ page \in Views
        /\ worker.posted \in Seq(Messages) /\ worker.posted # <<>>
        /\ Len(worker.posted) <= MaxQueue
    BY DEF OwnerInv, WorkerInv, PageReceives, Workers
  <1>2. worker' = W /\ page' = Applied(page, Head(worker.posted))
    BY <1>1 DEF PageReceives, Workers
  <1>3. Head(worker.posted) \in Messages /\ Tail(worker.posted) \in Seq(Messages)
    BY <1>1
  <1>4. Len(Tail(worker.posted)) <= MaxQueue
    BY <1>1, BoundAssumption
  <1>5. /\ W \in Workers /\ W.devices = worker.devices /\ W.tasks = worker.tasks
        /\ W.generation = worker.generation /\ W.posted = Tail(worker.posted)
        /\ W.job = worker.job
    BY <1>1, <1>3 DEF Workers
  <1> HIDE DEF W
  <1>6. WorkerInv(W)
    BY <1>1, <1>5 DEF WorkerInv, EntriesWhole, TasksOfThePast, OwnersUnique, Serves, JobOwned,
                      OwnsEntry, OnBoundBoot
  <1>7. PICK last \in Views : /\ Becomes(page, worker.posted, last)
                              /\ \A c \in Conns : Mirrors(last, worker.devices[c].device, c)
    BY DEF PageInv, LeadsTo
  <1>8. Becomes(Applied(page, Head(worker.posted)), Tail(worker.posted), last)
    BY <1>1, <1>7, TakeOne
  <1>9. LeadsTo(page', worker'.posted, worker'.devices)
    BY <1>2, <1>5, <1>7, <1>8 DEF LeadsTo
  <1>10. page' \in Views
    BY <1>1, <1>2, <1>3, AppliedTyped
  <1> QED
    BY <1>2, <1>4, <1>5, <1>6, <1>9, <1>10 DEF Kept

-----------------------------------------------------------------------------
(* The invariant.                                                          *)

LEMMA InitHolds == Init => OwnerInv /\ PageInv
  <1> SUFFICES ASSUME Init PROVE OwnerInv /\ PageInv
    OBVIOUS
  <1>1. 0 \in Generations
    BY BoundAssumption DEF Generations
  <1>2. /\ FromRequest(0) \in Devices /\ Whole(FromRequest(0))
        /\ FromRequest(0).generation = 0 /\ ~ FromRequest(0).capability
    BY <1>1, FreshTyped DEF FromRequest
  <1>3. /\ Absent \in Entries /\ Absent.state = "Absent" /\ Absent.device = FromRequest(0)
    BY <1>2 DEF Absent, Entries
  <1>4. /\ NoSnapshot \in Snapshots
        /\ NoDocument \in [generation : Generations, boot : Boots]
    BY <1>1, NoBoot DEF NoSnapshot, NoDocument, SnapshotOf, FromRequest, Snapshots
  <1>5. /\ worker.devices = [c \in Conns |-> Absent] /\ worker.tasks = {}
        /\ worker.generation = 0 /\ worker.job = NoJob /\ worker.posted = <<>>
    BY DEF Init
  <1>6. worker \in Workers
    BY <1>1, <1>3, NoJobTyped DEF Init, Workers
  <1>7. page \in Views
    BY <1>4 DEF Init, Views
  <1>8. WorkerInv(worker)
    <2>1. EntriesWhole(worker)
      BY <1>2, <1>3, <1>5 DEF EntriesWhole
    <2>2. TasksOfThePast(worker)
      BY <1>5 DEF TasksOfThePast
    <2>3. OwnersUnique(worker)
      BY <1>3, <1>5 DEF OwnersUnique
    <2>4. JobOwned(worker)
      BY <1>5 DEF JobOwned, NoJob
    <2> QED
      BY <1>6, <2>1, <2>2, <2>3, <2>4 DEF WorkerInv
  <1>9. BootTyped
    BY BoundAssumption DEF Init, BootTyped, Boots
  <1>10. Len(worker.posted) <= MaxQueue
    BY <1>5, BoundAssumption
  <1>11. Becomes(page, worker.posted, page)
    <2> DEFINE views == [k \in 0..0 |-> page]
    <2>1. views \in [0..0 -> Views] /\ views[0] = page
      BY <1>7
    <2>2. Len(worker.posted) = 0 /\ 1..0 = {}
      BY <1>5
    <2> HIDE DEF views
    <2> QED
      BY <2>1, <2>2 DEF Becomes
  <1>12. \A c \in Conns : Mirrors(page, worker.devices[c].device, c)
    BY <1>2, <1>3, <1>5 DEF Init, Mirrors, NoSnapshot
  <1>13. PageInv
    BY <1>7, <1>11, <1>12 DEF PageInv, LeadsTo
  <1> QED
    BY <1>7, <1>8, <1>9, <1>10, <1>13 DEF OwnerInv, Init

LEMMA KeptSuffices ==
    ASSUME Kept, BootTyped', page' \in Views, faults' \in Nat, commands' \in Nat
    PROVE  OwnerInv' /\ PageInv'
  BY DEF Kept, OwnerInv, PageInv

LEMMA StepHolds == OwnerInv /\ PageInv /\ [Next]_vars => OwnerInv' /\ PageInv'
  <1> SUFFICES ASSUME OwnerInv, PageInv, [Next]_vars
               PROVE  OwnerInv' /\ PageInv'
    OBVIOUS
  <1>1. BootTyped /\ page \in Views /\ faults \in Nat /\ commands \in Nat
    BY DEF OwnerInv
  <1>2. ASSUME NEW due \in SUBSET Conns, Tick(due)
        PROVE  OwnerInv' /\ PageInv'
    BY <1>1, <1>2, TickKeeps, KeptSuffices DEF Tick, BootTyped
  <1>3. ASSUME NEW t \in worker.tasks, TaskEnds(t)
        PROVE  OwnerInv' /\ PageInv'
    <2>1. (faults' = faults \/ faults' = faults + 1) /\ UNCHANGED <<page, boot, commands>>
      BY <1>3, Zenon DEF TaskEnds
    <2> QED
      BY <1>1, <1>3, <2>1, TaskEndsKeeps, KeptSuffices DEF BootTyped
  <1>4. ASSUME NEW c \in Conns, Configure(c)
        PROVE  OwnerInv' /\ PageInv'
    BY <1>1, <1>4, ConfigureKeeps, KeptSuffices DEF Configure, BootTyped
  <1>5. ASSUME NEW c \in Conns, Disconnect(c)
        PROVE  OwnerInv' /\ PageInv'
    <2>1. commands' \in Nat /\ UNCHANGED <<page, boot, faults>>
      BY <1>1, <1>5 DEF Disconnect, Command
    <2> QED
      BY <1>1, <1>5, <2>1, DisconnectKeeps, KeptSuffices DEF BootTyped
  <1>6. ASSUME NEW c \in Conns, LaunchByCommand(c)
        PROVE  OwnerInv' /\ PageInv'
    <2>1. commands' \in Nat /\ UNCHANGED <<page, boot, faults>>
      BY <1>1, <1>6 DEF LaunchByCommand, Command
    <2> QED
      BY <1>1, <1>6, <2>1, LaunchByCommandKeeps, KeptSuffices DEF BootTyped
  <1>7. ASSUME NEW c \in Conns, Restart(c)
        PROVE  OwnerInv' /\ PageInv'
    <2>1. UNCHANGED <<worker, page, commands>> /\ faults' \in Nat
      BY <1>1, <1>7 DEF Restart
    <2>2. BootTyped'
      <3>1. boot[c] + 1 \in Boots \ {0}
        BY <1>1, <1>7, BoundAssumption DEF Restart, BootTyped, Boots
      <3> QED
        BY <1>1, <1>7, <3>1 DEF Restart, BootTyped
    <2> QED
      BY <1>1, <2>1, <2>2 DEF OwnerInv, PageInv
  <1>8. ASSUME NEW participants \in SUBSET Conns \ {{}}, StageCachedJob(participants)
        PROVE  OwnerInv' /\ PageInv'
    <2>1. commands' \in Nat /\ UNCHANGED <<page, boot, faults>>
      BY <1>1, <1>8 DEF StageCachedJob, Command
    <2> QED
      BY <1>1, <1>8, <2>1, StageKeeps, KeptSuffices DEF BootTyped
  <1>9. CASE StartCachedJob
    <2>1. commands' \in Nat /\ UNCHANGED <<page, boot, faults>>
      BY <1>1, <1>9 DEF StartCachedJob, Command
    <2> QED
      BY <1>1, <1>9, <2>1, StartKeeps, KeptSuffices DEF BootTyped
  <1>10. CASE ClearCachedJob
    <2>1. commands' \in Nat /\ UNCHANGED <<page, boot, faults>>
      BY <1>1, <1>10 DEF ClearCachedJob, Command
    <2> QED
      BY <1>1, <1>10, <2>1, ClearKeeps, KeptSuffices DEF BootTyped
  <1>11. CASE PageReceives
    <2>1. UNCHANGED <<boot, faults, commands>>
      BY <1>11 DEF PageReceives
    <2> QED
      BY <1>1, <1>11, <2>1, PageReceivesKeeps, KeptSuffices DEF BootTyped
  <1>12. CASE UNCHANGED vars
    BY <1>12 DEF vars, OwnerInv, PageInv, BootTyped
  <1> QED
    BY <1>2, <1>3, <1>4, <1>5, <1>6, <1>7, <1>8, <1>9, <1>10, <1>11, <1>12 DEF Next

-----------------------------------------------------------------------------
(* What follows from it.                                                   *)

LEMMA OneElement ==
    ASSUME NEW S, NEW t \in S, \A u \in S : u = t
    PROVE  Cardinality(S) = 1
  <1>1. S = {t}
    OBVIOUS
  <1> QED
    BY <1>1, FS_Singleton

LEMMA OwnersAreSingle == OwnerInv => OneOwnerEach
  <1> SUFFICES ASSUME OwnerInv PROVE OneOwnerEach
    OBVIOUS
  <1>1. TypeOK
    BY DEF OwnerInv, WorkerInv, EntriesWhole, BootTyped, TypeOK
  <1>2. OneOwner
    <2> SUFFICES ASSUME NEW c \in Conns
                 PROVE  Cardinality(TasksOf(c)) =
                          (IF worker.devices[c].state = "Busy" THEN 1 ELSE 0)
      BY DEF OneOwner
    <2>1. \A t : t \in TasksOf(c) <=> t \in worker.tasks /\ Serves(worker, t, c)
      BY DEF TasksOf, Serves
    <2>2. OwnersUnique(worker)
      BY DEF OwnerInv, WorkerInv
    <2>3. CASE worker.devices[c].state = "Busy"
      <3>1. PICK t \in TasksOf(c) : \A u \in TasksOf(c) : u = t
        BY <2>1, <2>2, <2>3 DEF OwnersUnique
      <3> QED
        BY <2>3, <3>1, OneElement
    <2>4. CASE worker.devices[c].state # "Busy"
      <3>1. TasksOf(c) = {}
        BY <2>1, <2>2, <2>4 DEF OwnersUnique
      <3> QED
        BY <2>4, <3>1, FS_EmptySet
    <2> QED
      BY <2>3, <2>4
  <1>3. JobTaskReturns
    <2> DEFINE jobTasks == {t \in worker.tasks : t.kind = "Job"}
    <2>1. JobOwned(worker)
      BY DEF OwnerInv, WorkerInv
    <2>2. \A t \in jobTasks : OwnsEntry(worker, t)
      BY <2>1 DEF JobOwned
    <2>3. Cardinality(jobTasks) = (IF worker.job.state = "Busy" THEN 1 ELSE 0)
      <3>1. CASE worker.job.state = "Busy"
        <4>1. PICK t \in jobTasks : \A u \in jobTasks : u = t
          BY <2>1, <3>1 DEF JobOwned
        <4> HIDE DEF jobTasks
        <4> QED
          BY <3>1, <4>1, OneElement
      <3>2. CASE worker.job.state # "Busy"
        <4>1. jobTasks = {}
          BY <2>1, <3>2 DEF JobOwned
        <4> HIDE DEF jobTasks
        <4> QED
          BY <3>2, <4>1, FS_EmptySet
      <3> QED
        BY <3>1, <3>2
    <2> QED
      BY <2>2, <2>3 DEF JobTaskReturns
  <1> QED
    BY <1>1, <1>2, <1>3 DEF OneOwnerEach

LEMMA JobsAreOnBoundBoot == OwnerInv => JobOnBoundBoot
  BY DEF OwnerInv, WorkerInv, JobOwned, OnBoundBoot, JobOnBoundBoot

LEMMA LedPageMirrors == OwnerInv /\ PageInv => PageMirrorsAtRest
  <1> SUFFICES ASSUME OwnerInv, PageInv, worker.posted = <<>>
               PROVE  \A c \in Conns : Mirrors(page, worker.devices[c].device, c)
    BY DEF PageMirrorsAtRest, Mirrors
  <1>1. PICK last \in Views : /\ Becomes(page, <<>>, last)
                              /\ \A c \in Conns : Mirrors(last, worker.devices[c].device, c)
    BY DEF PageInv, LeadsTo
  <1>2. last = page
    BY <1>1, TakeNone DEF OwnerInv
  <1> QED
    BY <1>1, <1>2

\* The table, the tasks that hold parts of it and the messages under way agree after
\* every step of the worker, its devices and its page.
THEOREM WorkerInvariant == Spec => [](OwnerInv /\ PageInv)
  BY InitHolds, StepHolds, PTL DEF Spec

\* Every connection out of the worker's table, and the job while it is out, has exactly
\* one task that puts it back: no completion, stale or late, overwrites a connection or
\* leaves it out for ever (take_idle_device, finish_device_step, finish_live_job_step).
THEOREM OwnersReturn == Spec => []OneOwnerEach
  BY WorkerInvariant, OwnersAreSingle, PTL

\* A request of the job is signed for the boot its participant was compiled for
\* (take_live_job_task, validate_binding_identity).
THEOREM JobsOnBoundBoots == Spec => []JobOnBoundBoot
  BY WorkerInvariant, JobsAreOnBoundBoot, PTL

\* Once the messages are taken the page shows what the worker knows, also of a
\* connection whose documents were announced once and kept since (finish_device_step
\* against MutableSupervisorView::apply).
THEOREM PageMirrors == Spec => []PageMirrorsAtRest
  BY WorkerInvariant, LedPageMirrors, PTL
=============================================================================

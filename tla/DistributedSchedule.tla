-------------------------- MODULE DistributedSchedule --------------------------
(***************************************************************************)
(* DistributedScheduleCoordinator: one global job on several devices, all  *)
(* prepared, then all installed, and only then confirmed.  Its caller may  *)
(* use any method at any time and keep one request in flight per device,   *)
(* as the coordinator's documentation allows; the more restrained caller   *)
(* this program has is the module LiveJob.                                 *)
(***************************************************************************)
EXTENDS ScheduleDevice

CONSTANTS
    N,           \* number of participants, in the canonical device order
    MaxLease,    \* bound on attended leases
    MaxFaults,   \* bound on lost or unreadable exchanges and device faults
    Retained     \* what earlier sessions may have left on a device

ASSUME ParticipantAssumption == N \in Nat \ {0}
ASSUME BoundAssumption == MaxLease \in Nat /\ MaxFaults \in Nat
ASSUME RetainedAssumption == Retained \subseteq RetainedDevices

Participants == 1 .. N

VARIABLES
    part,      \* ParticipantScheduleMachine of each participant
    intent,    \* CoordinationIntent
    target,    \* target_ui_ns.is_some(): the planned commits are bound
    cleanup,   \* fault_cleanup_active
    wire,      \* the live request of each participant, if any
    answer,    \* the device's answer to it, if any
    late,      \* abandoned mutations that may still reach the device
    dev,       \* the devices
    epoch,     \* their clocks relative to the planned commits
    faults     \* losses and faults so far

coordinatorVars == <<part, intent, target, cleanup>>
netVars == <<wire, answer, late>>
deviceVars == <<dev, epoch>>
vars == <<coordinatorVars, netVars, deviceVars, faults>>

Intents == {"Prepare", "Install", "Confirm", "Abort", "Cancel"}

Requests == [op : Operations \cup {"None"}, lease : Nat]
Request(op, lease) == [op |-> op, lease |-> lease]
NoRequest == Request("None", 0)

Answers == [kind : {"None", "Report", "Unreadable"}, report : Reports]
Answer(kind, r) == [kind |-> kind, report |-> r]
NoAnswer == Answer("None", EmptyReport)

-----------------------------------------------------------------------------
(* The global phase.                                                       *)

Phase(p) == PhaseOf(part[p])
Every(S) == \A p \in Participants : Phase(p) \in S
Some(S) == \E p \in Participants : Phase(p) \in S

Failures == {"Aborted", "Cancelled", "Expired", "Faulted"}   \* terminal_failure

PastGuard == {"Priming", "Primed", "Running", "Complete"}    \* post_guard

InitialRound == \E p \in Participants : ~part[p].seen

PreparePhase ==
    IF InitialRound THEN "Preparing"
    ELSE IF Every({"Ready"}) THEN "Ready"
    ELSE IF Some(Failures \cup PastGuard) THEN "Faulted"
    ELSE "Preparing"

\* Mutation: an install that was sent counts.
InstallPhaseSent ==
    IF Every({"Installing", "Installed"}) THEN "Installed"
    ELSE IF Some(Failures) THEN "Faulted"
    ELSE IF Some(PastGuard) THEN "Irrevocable"
    ELSE "Installing"

InstallPhase ==
    IF Every({"Installed"}) THEN "Installed"
    ELSE IF Some(Failures) THEN "Faulted"
    ELSE IF Some(PastGuard) THEN "Irrevocable"
    ELSE "Installing"

ConfirmPhase ==
    IF Every({"Confirmed"}) THEN "Confirmed"
    ELSE IF Some(PastGuard) THEN "Irrevocable"
    ELSE IF Some(Failures) THEN "Faulted"
    ELSE "Confirming"

\* Mutation: a commit that no report has shown is taken as not installed.
SafeAfterAbortUnseen(p) ==
    Phase(p) \in IF part[p].bound THEN {"Installing", "Aborted", "Expired", "Faulted"}
                                  ELSE {"Empty", "Cancelled"}

\* participant_safe_after_abort
SafeAfterAbort(p) ==
    Phase(p) \in IF part[p].bound THEN {"Aborted", "Expired", "Faulted"}
                                  ELSE {"Empty", "Cancelled"}

\* participant_terminal_after_fault_cleanup
TerminalAfterCleanup(p) ==
    Phase(p) \in IF part[p].bound THEN {"Aborted", "Expired", "Complete", "Faulted"}
                                  ELSE {"Empty", "Cancelled", "Faulted"}

\* split_after_abort_is_terminal
SplitAfterAbort ==
    /\ Every({"Aborted", "Expired", "Complete"})
    /\ Some({"Aborted", "Expired"})
    /\ Some({"Complete"})

CleanedUp == cleanup /\ \A p \in Participants : TerminalAfterCleanup(p)

AbortPhase ==
    IF CleanedUp THEN "Faulted"
    ELSE IF \A p \in Participants : SafeAfterAbort(p) THEN "Aborted"
    ELSE IF SplitAfterAbort THEN "SplitAfterAbort"
    ELSE IF Some(PastGuard) THEN "Irrevocable"
    ELSE "Aborting"

CancelPhase ==
    IF CleanedUp THEN "Faulted"
    ELSE IF Every({"Empty", "Cancelled"}) THEN "Cancelled"
    ELSE "Cancelling"

GlobalPhase ==
    IF Every({"Complete"}) THEN "Complete"
    ELSE CASE intent = "Prepare" -> PreparePhase
           [] intent = "Install" -> InstallPhase
           [] intent = "Confirm" -> ConfirmPhase
           [] intent = "Abort"   -> AbortPhase
           [] intent = "Cancel"  -> CancelPhase

Terminal == {"Aborted", "SplitAfterAbort", "Cancelled", "Complete", "Faulted"}

-----------------------------------------------------------------------------
(* The next operation of each participant under an intent.                 *)

PrepareOperation(p) ==
    CASE Phase(p) = "Empty"     -> "Prepare"
      [] Phase(p) = "Preparing" -> "Status"
      [] Phase(p) = "Ready"     -> "None"
      [] OTHER -> "Error"

InstallOperation(p) ==
    CASE Phase(p) \in {"Ready", "Installing"} -> "Install"
      [] Phase(p) = "Installed" -> "None"
      [] OTHER -> "Error"

ConfirmOperation(p) ==
    CASE Phase(p) = "Installed" -> "Confirm"
      [] Phase(p) \in {"Confirmed"} \cup PastGuard -> "None"
      [] OTHER -> "Error"

CancelOperation(p) ==
    CASE Phase(p) \in {"Empty", "Cancelled"} -> "None"
      [] Phase(p) \in {"Preparing", "Ready", "Faulted"} /\ ~part[p].bound -> "Cancel"
      [] OTHER -> "Error"

\* next_abort_operation: what holds no commit is cancelled instead.
AbortOperation(p) ==
    IF ~part[p].bound THEN CancelOperation(p)
    ELSE CASE Phase(p) \in {"Installing", "Installed", "Confirmed"} -> "Abort"
           [] Phase(p) \in {"Aborted", "Expired", "Faulted"} \cup PastGuard -> "None"
           [] OTHER -> "Error"

IntentOperation(p, i) ==
    CASE i = "Prepare" -> PrepareOperation(p)
      [] i = "Install" -> InstallOperation(p)
      [] i = "Confirm" -> ConfirmOperation(p)
      [] i = "Abort"   -> AbortOperation(p)
      [] i = "Cancel"  -> CancelOperation(p)

\* A participant with a pending request is passed over; an ambiguous one is
\* inspected; nobody is touched before everybody was seen.
Operation(p, i) ==
    IF part[p].pending # "None" THEN "None"
    ELSE IF part[p].reconcile THEN "Status"
    ELSE IF i = "Prepare" /\ InitialRound
      THEN IF part[p].seen THEN "None" ELSE "Status"
    ELSE IF IntentOperation(p, i) \in Operations /\ ~CanBegin(part[p], IntentOperation(p, i))
      THEN "Error"
    ELSE IntentOperation(p, i)

\* next_request looks at the participants in order and returns at the first
\* operation, or error, it meets.
First(p, i) ==
    /\ Operation(p, i) # "None"
    /\ \A q \in Participants : q < p => Operation(q, i) = "None"

Send(p, op, lease) == wire' = [wire EXCEPT ![p] = Request(op, lease)]

\* Emits the first operation under intent i; the coordinator's intent is i.
RequestUnder(p, i) ==
    /\ First(p, i)
    /\ Operation(p, i) # "Error"
    /\ part' = [part EXCEPT ![p] = Begin(part[p], Operation(p, i))]
    /\ Send(p, Operation(p, i), 0)

NextRequest(p) ==
    /\ GlobalPhase \notin Terminal
    /\ RequestUnder(p, intent)
    /\ UNCHANGED <<intent, target, cleanup, answer, late, deviceVars, faults>>

-----------------------------------------------------------------------------
(* The coordinator's other methods.                                        *)

\* bind_start: the clocks' predictions bind one commit per participant.
BindStart ==
    /\ GlobalPhase = "Ready"
    /\ ~target
    /\ target' = TRUE
    /\ intent' = "Install"
    /\ UNCHANGED <<part, cleanup, netVars, deviceVars, faults>>

\* deadline_window: an estimate is never earlier than the device's clock, so
\* the window the browser sees as open is open on every device.
ConfirmationOpen == \A p \in Participants : epoch[p] = Open

\* Mutation: confirmation opens at the first installed participant.
BeginConfirmationEarly ==
    /\ intent = "Install" /\ Some({"Installed"})
    /\ ConfirmationOpen
    /\ intent' = "Confirm"
    /\ UNCHANGED <<part, target, cleanup, netVars, deviceVars, faults>>

BeginConfirmation ==
    /\ GlobalPhase = "Installed"
    /\ ConfirmationOpen
    /\ intent' = "Confirm"
    /\ UNCHANGED <<part, target, cleanup, netVars, deviceVars, faults>>

CanAbort ==
    /\ target
    /\ GlobalPhase \notin {"Irrevocable", "Complete", "Aborted", "SplitAfterAbort"}

BeginAbort ==
    /\ CanAbort
    /\ intent' = "Abort"
    /\ UNCHANGED <<part, target, cleanup, netVars, deviceVars, faults>>

CanCancel == ~target /\ GlobalPhase \notin {"Cancelled", "Complete"}

BeginCancel ==
    /\ CanCancel
    /\ intent' = "Cancel"
    /\ UNCHANGED <<part, target, cleanup, netVars, deviceVars, faults>>

NonePending == \A p \in Participants : part[p].pending = "None"

BeginStatusRound ==
    /\ NonePending
    /\ part' = [p \in Participants |-> Begin(part[p], "Status")]
    /\ wire' = [p \in Participants |-> Request("Status", 0)]
    /\ UNCHANGED <<intent, target, cleanup, answer, late, deviceVars, faults>>

\* The renewal of every participant is staged before any of them goes out.
RenewalAdmitted(leases) ==
    /\ Attended
    /\ GlobalPhase \in {"Confirmed", "Irrevocable"}
    /\ NonePending
    /\ \A p \in Participants : CanRenew(part[p], leases[p])

BeginLeaseRenewal(leases) ==
    /\ RenewalAdmitted(leases)
    /\ part' = [p \in Participants |-> BeginRenew(part[p], leases[p])]
    /\ wire' = [p \in Participants |-> Request("RenewLease", leases[p])]
    /\ UNCHANGED <<intent, target, cleanup, answer, late, deviceVars, faults>>

\* Mutation: the cleanup cancels even when commits are bound.
FaultCleanupCancels(machines) ==
    IF \E p \in Participants : PhaseOf(machines[p]) = "Faulted"
      THEN cleanup' = TRUE /\ intent' = "Cancel"
      ELSE UNCHANGED <<cleanup, intent>>

\* activate_fault_cleanup_if_observed, on the machines as they will be.  While
\* the first round is incomplete nothing is cleaned up.
FaultCleanup(machines) ==
    IF \E p \in Participants : PhaseOf(machines[p]) = "Faulted"
      THEN cleanup' = TRUE /\ intent' = IF target THEN "Abort" ELSE "Cancel"
      ELSE UNCHANGED <<cleanup, intent>>

AcceptResponse(p) ==
    LET machines == [part EXCEPT ![p] =
                        Accept(part[p], answer[p].kind = "Report", answer[p].report)]
        passive == /\ intent = "Prepare" /\ InitialRound
                   /\ \E q \in Participants : ~machines[q].seen
    IN  /\ answer[p].kind # "None"
        /\ part' = machines
        /\ IF passive THEN UNCHANGED <<cleanup, intent>> ELSE FaultCleanup(machines)
        /\ answer' = [answer EXCEPT ![p] = NoAnswer]
        /\ UNCHANGED <<target, wire, late, deviceVars, faults>>

\* A fetch failed or timed out: the request was executed, is lost, or is late.
AbandonPending(p) ==
    /\ part[p].pending # "None"
    /\ faults < MaxFaults
    /\ faults' = faults + 1
    /\ part' = [part EXCEPT ![p] = Abandon(part[p])]
    /\ late' = IF Mutates(wire[p].op) /\ wire[p].op # "None"
                 THEN [late EXCEPT ![p] = @ \cup {wire[p]}] ELSE late
    /\ wire' = [wire EXCEPT ![p] = NoRequest]
    /\ answer' = [answer EXCEPT ![p] = NoAnswer]
    /\ UNCHANGED <<intent, target, cleanup, deviceVars>>

-----------------------------------------------------------------------------
(* Devices and time.                                                       *)

DeviceExecute(p) ==
    /\ wire[p].op # "None"
    /\ dev' = [dev EXCEPT ![p] = Execute(dev[p], epoch[p], wire[p].op, wire[p].lease)]
    /\ answer' = [answer EXCEPT ![p] = Answer("Report", dev'[p])]
    /\ wire' = [wire EXCEPT ![p] = NoRequest]
    /\ UNCHANGED <<coordinatorVars, late, epoch, faults>>

\* An answer without a report: the operation was not executed.
DeviceRefuse(p) ==
    /\ wire[p].op # "None"
    /\ faults < MaxFaults
    /\ faults' = faults + 1
    /\ answer' = [answer EXCEPT ![p] = Answer("Unreadable", EmptyReport)]
    /\ wire' = [wire EXCEPT ![p] = NoRequest]
    /\ UNCHANGED <<coordinatorVars, late, deviceVars>>

DeviceExecuteLate(p) ==
    \E q \in late[p] :
      /\ dev' = [dev EXCEPT ![p] = Execute(dev[p], epoch[p], q.op, q.lease)]
      /\ late' = [late EXCEPT ![p] = @ \ {q}]
      /\ UNCHANGED <<coordinatorVars, wire, answer, epoch, faults>>

DeviceProgress(p) ==
    /\ Progress(dev[p], epoch[p]) # dev[p]
    /\ dev' = [dev EXCEPT ![p] = Progress(dev[p], epoch[p])]
    /\ UNCHANGED <<coordinatorVars, netVars, epoch, faults>>

DeviceFault(p) ==
    /\ ~Quiescent(dev[p])
    /\ faults < MaxFaults
    /\ faults' = faults + 1
    /\ dev' = [dev EXCEPT ![p] = Fault(dev[p])]
    /\ UNCHANGED <<coordinatorVars, netVars, epoch>>

\* All commits stand for one instant; the clocks' uncertainty is smaller than
\* the distance between two deadlines.
Elapse(p) ==
    /\ target
    /\ epoch[p] < Started
    /\ \A q \in Participants : epoch[p] <= epoch[q]
    /\ epoch' = [epoch EXCEPT ![p] = @ + 1]
    /\ UNCHANGED <<coordinatorVars, netVars, dev, faults>>

-----------------------------------------------------------------------------
Init ==
    /\ part = [p \in Participants |-> NewMachine]
    /\ intent = "Prepare"
    /\ target = FALSE
    /\ cleanup = FALSE
    /\ wire = [p \in Participants |-> NoRequest]
    /\ answer = [p \in Participants |-> NoAnswer]
    /\ late = [p \in Participants |-> {}]
    /\ dev \in [Participants -> Retained]
    /\ epoch = [p \in Participants |-> Open]
    /\ faults = 0

Leases == [Participants -> 1 .. MaxLease]

CoordinatorNext ==
    \/ BindStart
    \/ BeginConfirmation
    \/ BeginAbort
    \/ BeginCancel
    \/ BeginStatusRound
    \/ \E leases \in Leases : BeginLeaseRenewal(leases)
    \/ \E p \in Participants : NextRequest(p) \/ AcceptResponse(p) \/ AbandonPending(p)

DeviceNext(p) ==
    \/ DeviceExecute(p)
    \/ DeviceRefuse(p)
    \/ DeviceExecuteLate(p)
    \/ DeviceProgress(p)
    \/ DeviceFault(p)
    \/ Elapse(p)

Next == CoordinatorNext \/ \E p \in Participants : DeviceNext(p)

Spec == Init /\ [][Next]_vars

-----------------------------------------------------------------------------
(* Properties.                                                             *)

TypeOK ==
    /\ part \in [Participants -> Machines]
    /\ intent \in Intents
    /\ target \in BOOLEAN
    /\ cleanup \in BOOLEAN
    /\ wire \in [Participants -> Requests]
    /\ answer \in [Participants -> Answers]
    /\ late \in [Participants -> SUBSET Requests]
    /\ dev \in [Participants -> Reports]
    /\ epoch \in [Participants -> Epochs]
    /\ faults \in Nat

\* "Ordered global coordinator that never confirms before every exact install":
\* a device with start authority from this job implies that every device has
\* executed its install, whatever was lost, late, or left by a prior session.
AllInstalledBeforeAnyConfirmed ==
    (\E p \in Participants :
        dev[p].commit = "Ours" /\ dev[p].sched \in Authorized \cup {"Complete"})
      => \A q \in Participants : dev[q].commit = "Ours"

\* The devices as the abstract start barrier sees them: a device is free until it
\* holds a commit of this job.
BarrierOf(d) ==
    IF d.commit # "Ours" THEN "Free"
    ELSE IF d.sched = "Installed" THEN "Installed"
    ELSE IF d.sched \in Authorized \cup {"Complete"} THEN "Started"
    ELSE "Ended"

BarrierState == [p \in Participants |-> BarrierOf(dev[p])]

Barrier == INSTANCE StartBarrier WITH state <- BarrierState

\* The coordinator, over an unreliable network, implements the start barrier:
\* every step of a device is a barrier step or invisible to it.
ImplementsBarrier == Barrier!Spec

\* A global outcome is a fact about the devices, not about the requests sent:
\* none can start or run after Aborted or SplitAfterAbort, all have run after
\* Complete, and no late request can undo it.
OutcomeIsTrue ==
    /\ GlobalPhase \in {"Aborted", "SplitAfterAbort"} =>
          \A p \in Participants : Quiescent(dev[p])
    /\ GlobalPhase = "Aborted" => \A p \in Participants : dev[p].sched # "Complete"
    /\ GlobalPhase = "Complete" => \A p \in Participants : dev[p].sched = "Complete"

\* A correct device is never accused: the report of this job, or of none, is
\* accepted by validate_report and job_report_advances, although status polls
\* skip states and leases grow behind the client's back.
CorrectReportAccepted ==
    \A p \in Participants :
        answer[p].kind = "Report" /\ answer[p].report.owner # "Foreign" =>
            /\ ValidReport(part[p], answer[p].report)
            /\ part[p].seen => ReportAdvances(part[p].report, answer[p].report)

\* The browser never extends a lease it has not recorded: a device's lease never
\* exceeds authorized_lease_expiry_cycle, even by a late renewal.
LeaseWithinAuthority ==
    \A p \in Participants :
        dev[p].commit = "Ours" => dev[p].lease <= part[p].authorized

\* The step puts a starting request of p on the wire.
Starts(p) ==
    wire'[p] # wire[p] /\ wire'[p].op \in {"Prepare", "Install", "Confirm"}

\* After a stop or a fault cleanup no further participant is prepared, installed
\* or confirmed by the coordinator.
StopIsFinal ==
    [][(intent \in {"Abort", "Cancel"}) =>
         (intent' = intent /\ \A p \in Participants : ~Starts(p))]_vars

\* Once a participant is known to be past its abort guard the job never looks
\* abortable or aborted again, unless that participant's fault is being cleaned up.
IrrevocableIsFinal ==
    [][GlobalPhase = "Irrevocable" =>
         \/ GlobalPhase' \in {"Irrevocable", "Complete", "SplitAfterAbort", "Faulted"}
         \/ GlobalPhase' = "Aborting" /\ cleanup']_vars

\* A fault that was observed once is never forgotten: cleaning up the peers, or
\* cancelling the faulted actor itself, ends in Faulted and in no milder outcome.
FaultIsRemembered ==
    cleanup => GlobalPhase \notin {"Aborted", "Cancelled", "SplitAfterAbort", "Complete"}

\* The outcome that the browser shows matches what the devices do, and a fault of one of
\* them is never repainted as a clean end.
OutcomesHold == OutcomeIsTrue /\ FaultIsRemembered

\* What has been stopped stays stopped, and what is past its guard stays irrevocable.
EndsAreFinal == StopIsFinal /\ IrrevocableIsFinal

\* A lease the device holds was asked for, and no report of it is refused, although
\* renewals whose answers are lost may have taken effect.
LeaseAgreed == LeaseWithinAuthority /\ CorrectReportAccepted

-----------------------------------------------------------------------------
(* Why the barrier holds: what the client knows, and what its requests may *)
(* still do, is covered by facts about the devices that no step undoes.    *)

\* A commit and the state it is in belong together.
Coherent(d) ==
    /\ d.commit = "None" => d.sched \in {"None", "Prepared"}
    /\ d.commit # "None" => /\ d.sched \notin {"None", "Prepared"}
                            /\ d.actor \in {"Ready", "Faulted"}
                            /\ d.actor = "Faulted" => d.sched = "Faulted"
    /\ d.commit = "Ours" => d.owner = "This"

\* A report read from a device, however old, still bounds it: one that was
\* prepared holds no prior commit, one that was installed holds some commit.
Bounds(r, d) ==
    /\ r.sched = "Prepared" => d.commit # "Prior"
    /\ r.sched = "Installed" /\ r.owner = "This" => d.owner = "This" /\ d.commit # "None"

Known(p) ==
    /\ Coherent(dev[p])
    /\ Bounds(part[p].report, dev[p])
    /\ Bounds(answer[p].report, dev[p])
    /\ part[p].report.owner # "Foreign"

NoPriorOnceBound ==
    /\ target => \A p \in Participants : dev[p].commit # "Prior"
    /\ intent = "Install" => target

\* Whoever confirmed a device, or still may, does so with every commit in place.
ConfirmCovered ==
    \/ \A p \in Participants : dev[p].commit = "Ours"
    \/ /\ intent # "Confirm"
       /\ \A p \in Participants :
            /\ wire[p].op # "Confirm"
            /\ \A q \in late[p] : q.op # "Confirm"
            /\ BarrierOf(dev[p]) # "Started"

\* The inductive invariant behind ImplementsBarrier.
BarrierInv ==
    /\ TypeOK
    /\ \A p \in Participants : Known(p)
    /\ NoPriorOnceBound
    /\ ConfirmCovered
=============================================================================

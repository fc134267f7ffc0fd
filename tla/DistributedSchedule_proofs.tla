---------------------- MODULE DistributedSchedule_proofs ----------------------
(***************************************************************************)
(* The coordinator implements the start barrier, for any number of         *)
(* participants, any losses, and anything an earlier session left behind.  *)
(*                                                                         *)
(* The job as this program drives it keeps all of that.  Most of its steps *)
(* are steps of the coordinator; the others send a round of requests one   *)
(* at a time, give several of them up at once, or fault the job.           *)
(***************************************************************************)
EXTENDS MCLiveJob, SequenceTheorems, TLAPS

-----------------------------------------------------------------------------
(* What a device may become in one step of its own.                        *)

\* Commits of this job are never lost, prior ones never come, and a job of ours
\* that holds a commit is never replaced.
Steady(d, e) ==
    /\ d.commit = "Ours" => e.commit = "Ours"
    /\ d.commit # "Prior" => e.commit # "Prior"
    /\ d.owner = "This" /\ d.commit # "None" => e.owner = "This" /\ e.commit # "None"

\* The barrier moves that need no other device.
FreeMove(d, e) ==
    \/ BarrierOf(e) = BarrierOf(d)
    \/ BarrierOf(d) = "Free" /\ BarrierOf(e) = "Installed"
    \/ BarrierOf(d) \in {"Installed", "Started"} /\ BarrierOf(e) = "Ended"

StartMove(d, e) == BarrierOf(d) = "Installed" /\ BarrierOf(e) = "Started"

\* Every operation, executed once, twice or late, keeps a device coherent and
\* steady; only a confirmation starts it.
LEMMA ExecuteStep ==
    ASSUME NEW d \in Reports, NEW k \in Epochs, NEW op, NEW lease \in Nat, Coherent(d)
    PROVE  /\ Execute(d, k, op, lease) \in Reports
           /\ Coherent(Execute(d, k, op, lease))
           /\ Steady(d, Execute(d, k, op, lease))
           /\ \/ FreeMove(d, Execute(d, k, op, lease))
              \/ op = "Confirm" /\ StartMove(d, Execute(d, k, op, lease))
<1> USE DEF Reports, ScheduleStates, Epochs, Open, GuardClosed, FirstLease
<1>1. Execute(d, k, op, lease) \in Reports
  <2>1. CASE op = "Prepare"    BY <2>1 DEF Execute, Job
  <2>2. CASE op = "Install"    BY <2>2 DEF Execute
  <2>3. CASE op = "Confirm"    BY <2>3 DEF Execute
  <2>4. CASE op = "Abort"      BY <2>4 DEF Execute
  <2>5. CASE op = "Cancel"     BY <2>5 DEF Execute
  <2>6. CASE op = "RenewLease" BY <2>6 DEF Execute
  <2>7. CASE op \notin {"Prepare", "Install", "Confirm", "Abort", "Cancel", "RenewLease"}
    BY <2>7 DEF Execute
  <2> QED BY <2>1, <2>2, <2>3, <2>4, <2>5, <2>6, <2>7
<1>2. Coherent(Execute(d, k, op, lease))
  BY DEF Execute, Job, Quiescent, Authorized, Coherent
<1>3. Steady(d, Execute(d, k, op, lease))
  BY DEF Execute, Job, Quiescent, Authorized, Coherent, Steady
<1>4. \/ FreeMove(d, Execute(d, k, op, lease))
      \/ op = "Confirm" /\ StartMove(d, Execute(d, k, op, lease))
  BY DEF Execute, Job, Quiescent, Authorized, Coherent, FreeMove, StartMove, BarrierOf
<1> QED BY <1>1, <1>2, <1>3, <1>4

\* The same of what a device does on its own,
LEMMA ProgressStep ==
    ASSUME NEW d \in Reports, NEW k \in Epochs, Coherent(d)
    PROVE  /\ Progress(d, k) \in Reports
           /\ Coherent(Progress(d, k))
           /\ Steady(d, Progress(d, k))
           /\ FreeMove(d, Progress(d, k))
<1> USE DEF Reports, ScheduleStates
<1>1. Progress(d, k) \in Reports
  BY DEF Progress
<1>2. Coherent(Progress(d, k)) /\ Steady(d, Progress(d, k))
  BY DEF Progress, Coherent, Steady
<1>3. FreeMove(d, Progress(d, k))
  BY DEF Progress, Coherent, FreeMove, BarrierOf, Authorized
<1> QED BY <1>1, <1>2, <1>3

\* and of a fault.
LEMMA FaultStep ==
    ASSUME NEW d \in Reports, Coherent(d), ~Quiescent(d)
    PROVE  /\ Fault(d) \in Reports
           /\ Coherent(Fault(d))
           /\ Steady(d, Fault(d))
           /\ FreeMove(d, Fault(d))
<1> USE DEF Reports, ScheduleStates
<1>1. Fault(d) \in Reports
  BY DEF Fault
<1>2. Coherent(Fault(d)) /\ Steady(d, Fault(d))
  BY DEF Fault, Coherent, Steady
<1>3. FreeMove(d, Fault(d))
  BY DEF Fault, Coherent, FreeMove, BarrierOf, Authorized, Quiescent
<1> QED BY <1>1, <1>2, <1>3

\* What was once read of a device goes on to bound it,
LEMMA BoundsSteady ==
    ASSUME NEW r, NEW d, NEW e, Bounds(r, d), Steady(d, e)
    PROVE  Bounds(r, e)
BY DEF Bounds, Steady

\* and so does its present state.
LEMMA BoundsSelf ==
    ASSUME NEW d \in Reports, Coherent(d)
    PROVE  Bounds(d, d)
BY DEF Bounds, Coherent, Reports

-----------------------------------------------------------------------------
(* What the client's machine may become.                                   *)

LEMMA BeginType ==
    ASSUME NEW m \in Machines, NEW op \in Operations
    PROVE  Begin(m, op) \in Machines /\ Begin(m, op).report = m.report
BY DEF Machines, Begin, FirstLease

LEMMA RenewType ==
    ASSUME NEW m \in Machines, NEW lease \in Nat
    PROVE  BeginRenew(m, lease) \in Machines /\ BeginRenew(m, lease).report = m.report
BY DEF Machines, BeginRenew, Operations

LEMMA AbandonType ==
    ASSUME NEW m \in Machines
    PROVE  Abandon(m) \in Machines /\ Abandon(m).report = m.report
BY DEF Machines, Abandon, Taken, Mutates

LEMMA EmptyType == EmptyReport \in Reports
BY DEF EmptyReport, Reports, ScheduleStates

\* A machine never keeps a report of another job.
LEMMA AcceptType ==
    ASSUME NEW m \in Machines, NEW readable \in BOOLEAN, NEW r \in Reports
    PROVE  /\ Accept(m, readable, r) \in Machines
           /\ \/ Accept(m, readable, r).report = m.report
              \/ Accept(m, readable, r).report = EmptyReport
              \/ Accept(m, readable, r).report = r /\ r.owner # "Foreign"
<1>1. Taken(m) \in Machines /\ Taken(m).report = m.report
  BY DEF Machines, Taken, Mutates
<1>2. ASSUME NEW s \in Reports
      PROVE  Learned(m, s) \in Machines /\ Learned(m, s).report = s
  BY <1>2 DEF Machines, Learned
<1> QED BY <1>1, <1>2, EmptyType DEF Accept, ValidReport

\* Only the intent to confirm confirms.
LEMMA OperationType ==
    ASSUME NEW p \in Participants, NEW i \in Intents
    PROVE  /\ Operation(p, i) \in Operations \cup {"None", "Error"}
           /\ Operation(p, i) = "Confirm" => i = "Confirm"
<1>1. PrepareOperation(p) \in {"Prepare", "Status", "None", "Error"}
  BY DEF PrepareOperation
<1>2. InstallOperation(p) \in {"Install", "None", "Error"}
  BY DEF InstallOperation
<1>3. ConfirmOperation(p) \in {"Confirm", "None", "Error"}
  BY DEF ConfirmOperation
<1>4. CancelOperation(p) \in {"Cancel", "None", "Error"}
  BY DEF CancelOperation
<1>5. AbortOperation(p) \in {"Abort", "Cancel", "None", "Error"}
  BY <1>4 DEF AbortOperation
<1>6. /\ IntentOperation(p, i) \in Operations \cup {"None", "Error"}
      /\ IntentOperation(p, i) = "Confirm" => i = "Confirm"
  BY <1>1, <1>2, <1>3, <1>4, <1>5 DEF IntentOperation, Operations, Intents
<1> QED BY <1>6 DEF Operation, Operations

-----------------------------------------------------------------------------
(* The phases at which the coordinator takes its two decisions.            *)

\* A start is bound only if every participant was seen prepared,
LEMMA ReadyPhase ==
    ASSUME GlobalPhase = "Ready", intent \in Intents, part \in [Participants -> Machines]
    PROVE  \A p \in Participants : part[p].report.sched = "Prepared"
<1>1. PreparePhase \in {"Preparing", "Ready", "Faulted"}
  BY DEF PreparePhase
<1>2. GlobalPhase = "Ready" => PreparePhase = "Ready"
  BY DEF GlobalPhase, InstallPhase, ConfirmPhase, AbortPhase, CancelPhase, Intents
<1>3. Every({"Ready"})
  BY <1>2 DEF PreparePhase
<1> SUFFICES ASSUME NEW p \in Participants PROVE part[p].report.sched = "Prepared"
  OBVIOUS
<1>4. PhaseOf(part[p]) = "Ready"
  BY <1>3 DEF Every, Phase
<1>5. part[p].report.sched \in ScheduleStates
  BY DEF Machines, Reports
<1> QED BY <1>4, <1>5 DEF PhaseOf, ScheduledPhase, ScheduleStates

\* and confirmation opens only if every participant was seen installed.
LEMMA InstalledPhase ==
    ASSUME GlobalPhase = "Installed", intent \in Intents
    PROVE  /\ intent = "Install"
           /\ \A p \in Participants : /\ part[p].report.sched = "Installed"
                                      /\ part[p].report.owner # "None"
<1>1. intent = "Install" /\ InstallPhase = "Installed"
  BY DEF GlobalPhase, PreparePhase, ConfirmPhase, AbortPhase, CancelPhase, Intents
<1>2. Every({"Installed"})
  BY <1>1 DEF InstallPhase
<1> SUFFICES ASSUME NEW p \in Participants
             PROVE  part[p].report.sched = "Installed" /\ part[p].report.owner # "None"
  BY <1>1
<1>3. PhaseOf(part[p]) = "Installed"
  BY <1>2 DEF Every, Phase
<1> QED BY <1>3 DEF PhaseOf, ScheduledPhase

-----------------------------------------------------------------------------
(* The invariant is inductive.                                             *)

LEMMA RetainedCoherent ==
    ASSUME NEW d \in RetainedDevices
    PROVE  d \in Reports /\ Coherent(d)
BY EmptyType DEF RetainedDevices, Job, EmptyReport, Reports, ScheduleStates, FirstLease, Coherent

LEMMA BarrierInvInit == Init => BarrierInv
<1> SUFFICES ASSUME Init PROVE BarrierInv
  OBVIOUS
<1> USE RetainedAssumption, EmptyType DEF Init
<1>1. \A p \in Participants : dev[p] \in Reports /\ Coherent(dev[p])
  BY RetainedCoherent
<1>2. TypeOK
  <2>1. part \in [Participants -> Machines]
    BY DEF NewMachine, Machines
  <2>2. wire \in [Participants -> Requests] /\ late \in [Participants -> SUBSET Requests]
    BY DEF NoRequest, Request, Requests
  <2>3. answer \in [Participants -> Answers]
    BY DEF NoAnswer, Answer, Answers
  <2>4. dev \in [Participants -> Reports]
    BY <1>1
  <2>5. epoch \in [Participants -> Epochs]
    BY DEF Open, Epochs
  <2> QED BY <2>1, <2>2, <2>3, <2>4, <2>5 DEF TypeOK, Intents
<1>3. ASSUME NEW p \in Participants PROVE Known(p)
  BY <1>1 DEF Known, Bounds, NewMachine, NoAnswer, Answer, EmptyReport
<1>4. NoPriorOnceBound
  BY DEF NoPriorOnceBound
<1>5. ConfirmCovered
  <2>1. \A p \in Participants : dev[p].commit # "Ours"
    BY DEF RetainedDevices, Job, EmptyReport
  <2> QED BY <2>1 DEF ConfirmCovered, NoRequest, Request, BarrierOf
<1> QED BY <1>2, <1>3, <1>4, <1>5 DEF BarrierInv

\* A step that leaves devices, answers and reports alone changes no knowledge.
LEMMA KnownKept ==
    ASSUME NEW p \in Participants, Known(p), dev' = dev, answer'[p].report = answer[p].report,
           part'[p].report = part[p].report
    PROVE  Known(p)'
BY DEF Known

\* A device step keeps what is known of every device, and all commits.
LEMMA DeviceKeeps ==
    ASSUME BarrierInv, NEW p \in Participants, NEW e \in Reports,
           Coherent(e), Steady(dev[p], e),
           dev' = [dev EXCEPT ![p] = e],
           \A q \in Participants : \/ answer'[q].report = answer[q].report
                                   \/ q = p /\ answer'[q].report = e,
           UNCHANGED <<part, intent, target>>
    PROVE  /\ \A q \in Participants : Known(q)'
           /\ NoPriorOnceBound'
           /\ (\A q \in Participants : dev[q].commit = "Ours")
                => \A q \in Participants : dev'[q].commit = "Ours"
           /\ FreeMove(dev[p], e) =>
                \A q \in Participants :
                    BarrierOf(dev'[q]) = "Started" => BarrierOf(dev[q]) = "Started"
<1> USE DEF BarrierInv
<1>0. dev \in [Participants -> Reports]
  BY DEF TypeOK
<1>1. \A q \in Participants : dev'[q] = IF q = p THEN e ELSE dev[q]
  BY <1>0
<1>2. \A q \in Participants : Steady(dev[q], dev'[q]) /\ Coherent(dev'[q])
  BY <1>1 DEF Steady, Known
<1>3. ASSUME NEW q \in Participants PROVE Known(q)'
  <2>1. Bounds(part[q].report, dev'[q])
    BY <1>2, BoundsSteady DEF Known
  <2>2. Bounds(answer[q].report, dev'[q])
    BY <1>2, BoundsSteady DEF Known
  <2>3. Bounds(answer'[q].report, dev'[q])
    <3>1. CASE answer'[q].report = answer[q].report
      BY <2>2, <3>1
    <3>2. CASE q = p /\ answer'[q].report = e
      BY <3>2, <1>1, BoundsSelf
    <3> QED BY <3>1, <3>2
  <2> QED BY <1>2, <2>1, <2>3 DEF Known
<1>4. NoPriorOnceBound'
  BY <1>2 DEF NoPriorOnceBound, Steady
<1>5. (\A q \in Participants : dev[q].commit = "Ours")
        => \A q \in Participants : dev'[q].commit = "Ours"
  BY <1>2 DEF Steady
<1>6. FreeMove(dev[p], e) =>
        \A q \in Participants : BarrierOf(dev'[q]) = "Started" => BarrierOf(dev[q]) = "Started"
  BY <1>1 DEF FreeMove
<1> QED BY <1>3, <1>4, <1>5, <1>6

\* Every request of the coordinator, and what becomes of its participant.
LEMMA RequestKeeps ==
    ASSUME BarrierInv, NEW p \in Participants, NEW i \in Intents, RequestUnder(p, i)
    PROVE  /\ part' \in [Participants -> Machines]
           /\ \A q \in Participants : part'[q].report = part[q].report
           /\ wire' \in [Participants -> Requests]
           /\ \A q \in Participants : wire'[q].op = "Confirm" => wire[q].op = "Confirm" \/ i = "Confirm"
<1> USE DEF BarrierInv, TypeOK
<1>1. Operation(p, i) \in Operations
  <2>1. Operation(p, i) \notin {"None", "Error"}
    BY DEF RequestUnder, First
  <2> QED BY <2>1, OperationType
<1>2. /\ part' \in [Participants -> Machines]
      /\ \A q \in Participants : part'[q].report = part[q].report
  <2>1. part' = [part EXCEPT ![p] = Begin(part[p], Operation(p, i))]
    BY DEF RequestUnder
  <2> QED BY <1>1, <2>1, BeginType
<1>3. wire' = [wire EXCEPT ![p] = Request(Operation(p, i), 0)]
  BY DEF RequestUnder, Send
<1>4. Request(Operation(p, i), 0) \in Requests
  BY <1>1 DEF Request, Requests
<1>5. wire' \in [Participants -> Requests]
  BY <1>3, <1>4
<1>6. \A q \in Participants : wire'[q].op = "Confirm" => wire[q].op = "Confirm" \/ i = "Confirm"
  BY <1>3, OperationType DEF Request
<1> QED BY <1>2, <1>5, <1>6

LEMMA BarrierInvNext == BarrierInv /\ [Next]_vars => BarrierInv'
<1> SUFFICES ASSUME BarrierInv, [Next]_vars PROVE BarrierInv'
  OBVIOUS
<1> USE DEF BarrierInv, TypeOK
<1>1. CASE BindStart
  <2>1. \A p \in Participants : dev[p].commit # "Prior"
    BY <1>1, ReadyPhase DEF BindStart, Known, Bounds
  <2>2. TypeOK' /\ ConfirmCovered'
    BY <1>1 DEF BindStart, netVars, deviceVars, Intents, ConfirmCovered
  <2>3. \A p \in Participants : Known(p)'
    BY <1>1, KnownKept DEF BindStart, netVars, deviceVars
  <2>4. NoPriorOnceBound'
    BY <1>1, <2>1 DEF BindStart, deviceVars, NoPriorOnceBound
  <2> QED BY <2>2, <2>3, <2>4
<1>2. CASE BeginConfirmation
  <2>1. \A p \in Participants : dev[p].commit = "Ours"
    <3> SUFFICES ASSUME NEW p \in Participants PROVE dev[p].commit = "Ours"
      OBVIOUS
    <3>1. /\ target
          /\ part[p].report.sched = "Installed"
          /\ part[p].report.owner # "None"
      BY <1>2, InstalledPhase DEF BeginConfirmation, NoPriorOnceBound
    <3>2. part[p].report.owner = "This"
      BY <3>1 DEF Known, Machines, Reports
    <3>3. dev[p].commit \notin {"None", "Prior"}
      BY <3>1, <3>2 DEF Known, Bounds, NoPriorOnceBound
    <3>4. dev[p].commit \in {"None", "Ours", "Prior"}
      BY DEF Reports
    <3> QED BY <3>3, <3>4
  <2>2. TypeOK' /\ NoPriorOnceBound'
    BY <1>2 DEF BeginConfirmation, netVars, deviceVars, Intents, NoPriorOnceBound
  <2>3. \A p \in Participants : Known(p)'
    BY <1>2, KnownKept DEF BeginConfirmation, netVars, deviceVars
  <2>4. ConfirmCovered'
    BY <1>2, <2>1 DEF BeginConfirmation, deviceVars, ConfirmCovered
  <2> QED BY <2>2, <2>3, <2>4
<1>3. CASE BeginAbort \/ BeginCancel
  <2>1. TypeOK' /\ NoPriorOnceBound' /\ ConfirmCovered'
    BY <1>3 DEF BeginAbort, BeginCancel, netVars, deviceVars, Intents, NoPriorOnceBound,
                ConfirmCovered
  <2>2. \A p \in Participants : Known(p)'
    BY <1>3, KnownKept DEF BeginAbort, BeginCancel, netVars, deviceVars
  <2> QED BY <2>1, <2>2
<1>4. CASE BeginStatusRound
  <2>1. /\ part' \in [Participants -> Machines]
        /\ \A p \in Participants : part'[p].report = part[p].report
    BY <1>4, BeginType DEF BeginStatusRound, Operations
  <2>2. /\ wire' \in [Participants -> Requests]
        /\ \A p \in Participants : wire'[p].op # "Confirm"
    BY <1>4 DEF BeginStatusRound, Request, Requests, Operations
  <2>3. TypeOK' /\ NoPriorOnceBound' /\ ConfirmCovered'
    BY <1>4, <2>1, <2>2 DEF BeginStatusRound, deviceVars, NoPriorOnceBound, ConfirmCovered
  <2>4. \A p \in Participants : Known(p)'
    BY <1>4, <2>1, KnownKept DEF BeginStatusRound, deviceVars
  <2> QED BY <2>3, <2>4
<1>5. ASSUME NEW leases \in Leases, BeginLeaseRenewal(leases) PROVE BarrierInv'
  <2>0. \A p \in Participants : leases[p] \in Nat
    BY <1>5, BoundAssumption DEF Leases
  <2>1. /\ part' \in [Participants -> Machines]
        /\ \A p \in Participants : part'[p].report = part[p].report
    BY <1>5, <2>0, RenewType DEF BeginLeaseRenewal
  <2>2. /\ wire' \in [Participants -> Requests]
        /\ \A p \in Participants : wire'[p].op # "Confirm"
    BY <1>5, <2>0 DEF BeginLeaseRenewal, Request, Requests, Operations
  <2>3. TypeOK' /\ NoPriorOnceBound' /\ ConfirmCovered'
    BY <1>5, <2>1, <2>2 DEF BeginLeaseRenewal, deviceVars, NoPriorOnceBound, ConfirmCovered
  <2>4. \A p \in Participants : Known(p)'
    BY <1>5, <2>1, KnownKept DEF BeginLeaseRenewal, deviceVars
  <2> QED BY <2>3, <2>4
<1>6. ASSUME NEW p \in Participants, NextRequest(p) PROVE BarrierInv'
  <2>1. /\ part' \in [Participants -> Machines]
        /\ \A q \in Participants : part'[q].report = part[q].report
        /\ wire' \in [Participants -> Requests]
        /\ \A q \in Participants : wire'[q].op = "Confirm" => wire[q].op = "Confirm" \/ intent = "Confirm"
    BY <1>6, RequestKeeps DEF NextRequest
  <2>2. TypeOK' /\ NoPriorOnceBound'
    BY <1>6, <2>1 DEF NextRequest, deviceVars, NoPriorOnceBound
  <2>3. ConfirmCovered'
    BY <1>6, <2>1 DEF NextRequest, deviceVars, ConfirmCovered
  <2>4. \A q \in Participants : Known(q)'
    BY <1>6, <2>1, KnownKept DEF NextRequest, deviceVars
  <2> QED BY <2>2, <2>3, <2>4
<1>7. ASSUME NEW p \in Participants, AcceptResponse(p) PROVE BarrierInv'
  <2> DEFINE m == Accept(part[p], answer[p].kind = "Report", answer[p].report)
  <2>1. /\ part' = [part EXCEPT ![p] = m]
        /\ answer' = [answer EXCEPT ![p] = NoAnswer]
        /\ UNCHANGED <<target, wire, late, deviceVars, faults>>
        /\ \/ UNCHANGED <<cleanup, intent>>
           \/ cleanup' = TRUE /\ intent' = IF target THEN "Abort" ELSE "Cancel"
    BY <1>7 DEF AcceptResponse, FaultCleanup
  <2>2. /\ m \in Machines
        /\ \/ m.report = part[p].report
           \/ m.report = EmptyReport
           \/ m.report = answer[p].report /\ answer[p].report.owner # "Foreign"
    <3>1. part[p] \in Machines /\ answer[p].report \in Reports
      BY DEF Answers
    <3>2. (answer[p].kind = "Report") \in BOOLEAN
      OBVIOUS
    <3> QED BY <3>1, <3>2, AcceptType
  <2> HIDE DEF m
  <2>3. TypeOK'
    <3>1. NoAnswer \in Answers
      BY EmptyType DEF NoAnswer, Answer, Answers
    <3> QED BY <2>1, <2>2, <3>1 DEF deviceVars, Intents
  <2>4. NoPriorOnceBound' /\ ConfirmCovered'
    BY <2>1 DEF deviceVars, NoPriorOnceBound, ConfirmCovered
  <2>5. ASSUME NEW q \in Participants PROVE Known(q)'
    <3>1. CASE q # p
      BY <2>1, <3>1, KnownKept DEF deviceVars
    <3>2. CASE q = p
      <4>1. part'[q].report = m.report /\ answer'[q].report = EmptyReport /\ dev' = dev
        BY <2>1, <3>2 DEF deviceVars, NoAnswer, Answer
      <4>2. Bounds(m.report, dev[p]) /\ m.report.owner # "Foreign"
        BY <2>2 DEF Known, Bounds, EmptyReport
      <4>3. Bounds(EmptyReport, dev[p])
        BY DEF Bounds, EmptyReport
      <4> QED BY <3>2, <4>1, <4>2, <4>3 DEF Known
    <3> QED BY <3>1, <3>2
  <2> QED BY <2>3, <2>4, <2>5
<1>8. ASSUME NEW p \in Participants, AbandonPending(p) PROVE BarrierInv'
  <2>1. /\ part' \in [Participants -> Machines]
        /\ \A q \in Participants : part'[q].report = part[q].report
    BY <1>8, AbandonType DEF AbandonPending
  <2>2. /\ answer' \in [Participants -> Answers]
        /\ wire' \in [Participants -> Requests]
    BY <1>8, EmptyType DEF AbandonPending, NoAnswer, Answer, Answers, NoRequest, Request, Requests
  <2>3. /\ late' \in [Participants -> SUBSET Requests]
        /\ \A q \in Participants : late'[q] \subseteq late[q] \cup {wire[q]}
    BY <1>8 DEF AbandonPending
  <2>4. TypeOK' /\ NoPriorOnceBound'
    BY <1>8, <2>1, <2>2, <2>3, BoundAssumption DEF AbandonPending, deviceVars, NoPriorOnceBound
  <2>5. ConfirmCovered'
    BY <1>8, <2>3 DEF AbandonPending, deviceVars, ConfirmCovered, NoRequest, Request
  <2>6. ASSUME NEW q \in Participants PROVE Known(q)'
    <3>1. Bounds(answer'[q].report, dev[q])
      BY <1>8 DEF AbandonPending, Known, NoAnswer, Answer, EmptyReport, Bounds
    <3> QED BY <1>8, <2>1, <3>1 DEF AbandonPending, deviceVars, Known
  <2> QED BY <2>4, <2>5, <2>6
<1>9. ASSUME NEW p \in Participants, DeviceNext(p) PROVE BarrierInv'
  <2>0. dev[p] \in Reports /\ Coherent(dev[p]) /\ epoch[p] \in Epochs
    BY <1>9 DEF Known
  <2>1. CASE DeviceExecute(p)
    <3> DEFINE e == Execute(dev[p], epoch[p], wire[p].op, wire[p].lease)
    <3>1. /\ e \in Reports /\ Coherent(e) /\ Steady(dev[p], e)
          /\ FreeMove(dev[p], e) \/ wire[p].op = "Confirm"
      BY <2>0, ExecuteStep DEF Requests
    <3>2. dev' = [dev EXCEPT ![p] = e] /\ answer' = [answer EXCEPT ![p] = Answer("Report", e)]
      BY <2>1 DEF DeviceExecute
    <3> HIDE DEF e
    <3>3. answer' \in [Participants -> Answers] /\ dev' \in [Participants -> Reports]
      BY <3>1, <3>2 DEF Answer, Answers
    <3>4. wire' = [wire EXCEPT ![p] = NoRequest] /\ wire' \in [Participants -> Requests]
      BY <2>1 DEF DeviceExecute, NoRequest, Request, Requests
    <3>5. /\ \A q \in Participants : Known(q)'
          /\ NoPriorOnceBound'
          /\ (\A q \in Participants : dev[q].commit = "Ours")
               => \A q \in Participants : dev'[q].commit = "Ours"
          /\ FreeMove(dev[p], e) =>
               \A q \in Participants :
                   BarrierOf(dev'[q]) = "Started" => BarrierOf(dev[q]) = "Started"
      <4>1. \A q \in Participants : \/ answer'[q].report = answer[q].report
                                    \/ q = p /\ answer'[q].report = e
        BY <3>2 DEF Answer
      <4>2. UNCHANGED <<part, intent, target>>
        BY <2>1 DEF DeviceExecute, coordinatorVars
      <4> QED BY <1>9, <3>1, <3>2, <4>1, <4>2, DeviceKeeps
    <3>6. ConfirmCovered'
      BY <1>9, <2>1, <3>1, <3>4, <3>5
         DEF DeviceExecute, coordinatorVars, ConfirmCovered, NoRequest, Request
    <3>7. TypeOK'
      BY <2>1, <3>3, <3>4 DEF DeviceExecute, coordinatorVars
    <3> QED BY <3>5, <3>6, <3>7
  <2>2. CASE DeviceRefuse(p)
    <3>1. answer' \in [Participants -> Answers] /\ wire' \in [Participants -> Requests]
      BY <2>2, EmptyType DEF DeviceRefuse, Answer, Answers, NoRequest, Request, Requests
    <3>2. TypeOK' /\ NoPriorOnceBound'
      BY <2>2, <3>1 DEF DeviceRefuse, coordinatorVars, deviceVars, NoPriorOnceBound
    <3>3. ConfirmCovered'
      BY <2>2 DEF DeviceRefuse, coordinatorVars, deviceVars, ConfirmCovered, NoRequest, Request
    <3>4. ASSUME NEW q \in Participants PROVE Known(q)'
      <4>1. Bounds(answer'[q].report, dev[q])
        BY <2>2 DEF DeviceRefuse, Known, Answer, EmptyReport, Bounds
      <4> QED BY <2>2, <4>1 DEF DeviceRefuse, coordinatorVars, deviceVars, Known
    <3> QED BY <3>2, <3>3, <3>4
  <2>3. CASE DeviceExecuteLate(p)
    <3>1. PICK r \in late[p] :
            /\ dev' = [dev EXCEPT ![p] = Execute(dev[p], epoch[p], r.op, r.lease)]
            /\ late' = [late EXCEPT ![p] = @ \ {r}]
            /\ UNCHANGED <<coordinatorVars, wire, answer, epoch, faults>>
      BY <2>3 DEF DeviceExecuteLate
    <3> DEFINE e == Execute(dev[p], epoch[p], r.op, r.lease)
    <3>2. /\ e \in Reports /\ Coherent(e) /\ Steady(dev[p], e)
          /\ FreeMove(dev[p], e) \/ r.op = "Confirm"
      BY <2>0, <1>9, ExecuteStep DEF Requests
    <3>3. dev' = [dev EXCEPT ![p] = e]
      BY <3>1
    <3> HIDE DEF e
    <3>4. dev' \in [Participants -> Reports] /\ late' \in [Participants -> SUBSET Requests]
      BY <3>1, <3>2, <3>3
    <3>5. /\ \A q \in Participants : Known(q)'
          /\ NoPriorOnceBound'
          /\ (\A q \in Participants : dev[q].commit = "Ours")
               => \A q \in Participants : dev'[q].commit = "Ours"
          /\ FreeMove(dev[p], e) =>
               \A q \in Participants :
                   BarrierOf(dev'[q]) = "Started" => BarrierOf(dev[q]) = "Started"
      BY <1>9, <3>1, <3>2, <3>3, DeviceKeeps DEF coordinatorVars
    <3>6. ConfirmCovered'
      BY <1>9, <3>1, <3>2, <3>5 DEF coordinatorVars, ConfirmCovered
    <3>7. TypeOK'
      BY <3>1, <3>4 DEF coordinatorVars
    <3> QED BY <3>5, <3>6, <3>7
  <2>4. CASE DeviceProgress(p) \/ DeviceFault(p)
    <3>1. PICK e \in {Progress(dev[p], epoch[p]), Fault(dev[p])} :
            /\ e \in Reports /\ Coherent(e) /\ Steady(dev[p], e) /\ FreeMove(dev[p], e)
            /\ dev' = [dev EXCEPT ![p] = e]
      BY <2>0, <2>4, ProgressStep, FaultStep DEF DeviceProgress, DeviceFault
    <3>2. dev' \in [Participants -> Reports] /\ faults' \in Nat
      BY <2>4, <3>1 DEF DeviceProgress, DeviceFault
    <3>3. UNCHANGED <<part, intent, target, cleanup, wire, answer, late, epoch>>
      BY <2>4 DEF DeviceProgress, DeviceFault, coordinatorVars, netVars
    <3>4. /\ \A q \in Participants : Known(q)'
          /\ NoPriorOnceBound'
          /\ (\A q \in Participants : dev[q].commit = "Ours")
               => \A q \in Participants : dev'[q].commit = "Ours"
          /\ FreeMove(dev[p], e) =>
               \A q \in Participants :
                   BarrierOf(dev'[q]) = "Started" => BarrierOf(dev[q]) = "Started"
      BY <1>9, <3>1, <3>3, DeviceKeeps
    <3>5. ConfirmCovered'
      BY <3>1, <3>3, <3>4 DEF ConfirmCovered
    <3> QED BY <3>2, <3>3, <3>4, <3>5
  <2>5. CASE Elapse(p)
    <3>1. epoch' \in [Participants -> Epochs]
      BY <2>0, <2>5 DEF Elapse, Epochs, Started
    <3>2. TypeOK' /\ NoPriorOnceBound' /\ ConfirmCovered'
      BY <2>5, <3>1 DEF Elapse, coordinatorVars, netVars, NoPriorOnceBound, ConfirmCovered
    <3>3. \A q \in Participants : Known(q)'
      BY <2>5, KnownKept DEF Elapse, coordinatorVars, netVars
    <3> QED BY <3>2, <3>3
  <2> QED BY <1>9, <2>1, <2>2, <2>3, <2>4, <2>5 DEF DeviceNext
<1>10. CASE UNCHANGED vars
  <2>1. TypeOK' /\ NoPriorOnceBound' /\ ConfirmCovered'
    BY <1>10 DEF vars, coordinatorVars, netVars, deviceVars, NoPriorOnceBound, ConfirmCovered
  <2>2. \A p \in Participants : Known(p)'
    BY <1>10, KnownKept DEF vars, coordinatorVars, netVars, deviceVars
  <2> QED BY <2>1, <2>2
<1> QED BY <1>1, <1>2, <1>3, <1>4, <1>5, <1>6, <1>7, <1>8, <1>9, <1>10 DEF Next, CoordinatorNext

-----------------------------------------------------------------------------
(* The theorems.                                                           *)

\* The coordinator's state keeps its type and its inductive invariant for any
\* number of participants and faults.
THEOREM BarrierInvariant == Spec => []BarrierInv
<1>1. Init => BarrierInv
  BY BarrierInvInit
<1>2. BarrierInv /\ [Next]_vars => BarrierInv'
  BY BarrierInvNext
<1> QED BY <1>1, <1>2, PTL DEF Spec

\* Start authority implies that every device has executed its install.
THEOREM InstalledFirst == Spec => []AllInstalledBeforeAnyConfirmed
<1>1. BarrierInv => AllInstalledBeforeAnyConfirmed
  BY DEF BarrierInv, ConfirmCovered, AllInstalledBeforeAnyConfirmed, BarrierOf, Authorized
<1> QED BY <1>1, BarrierInvariant, PTL

\* One device moves, and its move is the abstract barrier's.
LEMMA DeviceMove ==
    ASSUME NEW p \in Participants, NEW e,
           dev \in [Participants -> Reports], dev' = [dev EXCEPT ![p] = e],
           \/ FreeMove(dev[p], e)
           \/ StartMove(dev[p], e) /\ \A q \in Participants : dev[q].commit = "Ours"
    PROVE  [Barrier!Next]_BarrierState
<1>1. BarrierState' = [BarrierState EXCEPT ![p] = BarrierOf(e)]
  BY DEF BarrierState
<1>2. \A q \in Participants : BarrierState[q] = BarrierOf(dev[q])
  BY DEF BarrierState
<1>3. CASE BarrierOf(e) = BarrierOf(dev[p])
  BY <1>1, <1>2, <1>3 DEF BarrierState
<1>4. CASE BarrierOf(dev[p]) = "Free" /\ BarrierOf(e) = "Installed"
  BY <1>1, <1>2, <1>4 DEF Barrier!Next, Barrier!Install
<1>5. CASE BarrierOf(dev[p]) \in {"Installed", "Started"} /\ BarrierOf(e) = "Ended"
  BY <1>1, <1>2, <1>5 DEF Barrier!Next, Barrier!End
<1>6. CASE StartMove(dev[p], e) /\ \A q \in Participants : dev[q].commit = "Ours"
  <2>1. \A q \in Participants : BarrierState[q] # "Free"
    BY <1>2, <1>6 DEF BarrierOf
  <2> QED BY <1>1, <1>2, <1>6, <2>1 DEF Barrier!Next, Barrier!Start, StartMove
<1> QED BY <1>3, <1>4, <1>5, <1>6 DEF FreeMove

LEMMA BarrierStep == BarrierInv /\ [Next]_vars => [Barrier!Next]_BarrierState
<1> SUFFICES ASSUME BarrierInv, [Next]_vars PROVE [Barrier!Next]_BarrierState
  OBVIOUS
<1> USE DEF BarrierInv, TypeOK
<1>1. CASE dev' = dev
  BY <1>1 DEF BarrierState
<1>2. ASSUME NEW p \in Participants, DeviceExecute(p) PROVE [Barrier!Next]_BarrierState
  <2> DEFINE e == Execute(dev[p], epoch[p], wire[p].op, wire[p].lease)
  <2>1. FreeMove(dev[p], e) \/ (wire[p].op = "Confirm" /\ StartMove(dev[p], e))
    BY <1>2, ExecuteStep DEF Known, Requests
  <2>2. wire[p].op = "Confirm" => \A q \in Participants : dev[q].commit = "Ours"
    BY <1>2 DEF ConfirmCovered
  <2>3. dev' = [dev EXCEPT ![p] = e]
    BY <1>2 DEF DeviceExecute
  <2> HIDE DEF e
  <2> QED BY <1>2, <2>1, <2>2, <2>3, DeviceMove
<1>3. ASSUME NEW p \in Participants, DeviceExecuteLate(p) PROVE [Barrier!Next]_BarrierState
  <2>1. PICK r \in late[p] : dev' = [dev EXCEPT ![p] = Execute(dev[p], epoch[p], r.op, r.lease)]
    BY <1>3 DEF DeviceExecuteLate
  <2> DEFINE e == Execute(dev[p], epoch[p], r.op, r.lease)
  <2>2. FreeMove(dev[p], e) \/ (r.op = "Confirm" /\ StartMove(dev[p], e))
    BY <1>3, ExecuteStep DEF Known, Requests
  <2>3. r.op = "Confirm" => \A q \in Participants : dev[q].commit = "Ours"
    BY <1>3 DEF ConfirmCovered
  <2>4. dev' = [dev EXCEPT ![p] = e]
    BY <2>1
  <2> HIDE DEF e
  <2> QED BY <1>3, <2>2, <2>3, <2>4, DeviceMove
<1>4. ASSUME NEW p \in Participants, DeviceProgress(p) PROVE [Barrier!Next]_BarrierState
  <2>1. FreeMove(dev[p], Progress(dev[p], epoch[p]))
    BY <1>4, ProgressStep DEF Known
  <2> QED BY <1>4, <2>1, DeviceMove DEF DeviceProgress
<1>5. ASSUME NEW p \in Participants, DeviceFault(p) PROVE [Barrier!Next]_BarrierState
  <2>1. FreeMove(dev[p], Fault(dev[p]))
    BY <1>5, FaultStep DEF DeviceFault, Known
  <2> QED BY <1>5, <2>1, DeviceMove DEF DeviceFault
<1>6. CASE CoordinatorNext
  <2>1. dev' = dev
    BY <1>6 DEF CoordinatorNext, BindStart, BeginConfirmation, BeginAbort, BeginCancel,
         BeginStatusRound, BeginLeaseRenewal, NextRequest, AcceptResponse, AbandonPending, deviceVars
  <2> QED BY <1>1, <2>1
<1>7. ASSUME NEW p \in Participants, DeviceRefuse(p) \/ Elapse(p) PROVE dev' = dev
  BY <1>7 DEF DeviceRefuse, Elapse, deviceVars
<1>8. CASE UNCHANGED vars
  BY <1>1, <1>8 DEF vars, deviceVars
<1> QED BY <1>1, <1>2, <1>3, <1>4, <1>5, <1>6, <1>7, <1>8 DEF Next, DeviceNext

\* The coordinator implements the abstract start barrier, whatever the network
\* loses or delays and whatever an earlier session left on the devices.
THEOREM Implementation == Spec => ImplementsBarrier
<1>1. Init => Barrier!Init
  <2> SUFFICES ASSUME Init PROVE BarrierState = [p \in Participants |-> "Free"]
    BY DEF Barrier!Init
  <2>1. \A p \in Participants : dev[p].commit # "Ours"
    BY RetainedAssumption DEF Init, RetainedDevices, Job, EmptyReport
  <2> QED BY <2>1 DEF BarrierState, BarrierOf
<1>2. BarrierInv /\ [Next]_vars => [Barrier!Next]_BarrierState
  BY BarrierStep
<1> QED BY <1>1, <1>2, BarrierInvariant, PTL DEF Spec, ImplementsBarrier, Barrier!Spec

-----------------------------------------------------------------------------
(* What an old report says of the device now.                              *)

\* Leases belong to commits, and grow only where the policy attends them.
Leased(d) ==
    /\ d.owner = "None" => d.sched = "None" /\ d.actor = "None"
    /\ d.commit = "None" => d.lease = 0
    /\ d.commit # "None" => d.lease >= FirstLease
    /\ d.commit = "Prior" \/ ~Attended => d.lease <= FirstLease

\* d is a state that a device which once was in state r may be in since.
Later(r, d) ==
    r.owner = "This" =>
        /\ d.owner = "This"
        /\ r.commit # "Prior" => d.commit # "Prior"
        /\ r.commit # "None" => /\ d.commit = r.commit
                                /\ d.sched = r.sched \/ d.sched \in LaterStates(r.sched)
                                /\ r.lease <= d.lease
        /\ r.sched = "Prepared" /\ d.sched = "None" => d.actor = "Cancelled"
        /\ r.actor = "Cancelled" => d.actor = "Cancelled"
        /\ r.actor = "Faulted" => d.actor \in {"Faulted", "Cancelled"}
        /\ Quiescent(r) => Quiescent(d) /\ (d.sched = "Complete" => r.sched = "Complete")

LEMMA LaterStatesTransitive ==
    ASSUME NEW r \in ScheduleStates, NEW s \in LaterStates(r), NEW t \in LaterStates(s)
    PROVE  t \in LaterStates(r)
BY DEF LaterStates, ScheduleStates

LEMMA LaterTransitive ==
    ASSUME NEW r \in Reports, NEW d \in Reports, NEW e \in Reports, Coherent(d),
           Coherent(e), Later(r, d), Later(d, e)
    PROVE  Later(r, e)
<1> SUFFICES ASSUME r.owner = "This" PROVE Later(r, e)
  BY DEF Later
<1>0. d.owner = "This" /\ e.owner = "This"
  BY DEF Later
<1>1. r.commit # "None" => /\ e.commit = r.commit
                           /\ e.sched = r.sched \/ e.sched \in LaterStates(r.sched)
                           /\ r.lease <= e.lease
  <2> SUFFICES ASSUME r.commit # "None"
               PROVE  /\ e.commit = r.commit
                      /\ e.sched = r.sched \/ e.sched \in LaterStates(r.sched)
                      /\ r.lease <= e.lease
    OBVIOUS
  <2>1. /\ d.commit = r.commit /\ e.commit = d.commit
        /\ d.sched = r.sched \/ d.sched \in LaterStates(r.sched)
        /\ e.sched = d.sched \/ e.sched \in LaterStates(d.sched)
        /\ r.lease <= d.lease /\ d.lease <= e.lease
    BY <1>0 DEF Later
  <2>2. r.sched \in ScheduleStates /\ r.lease \in Nat /\ d.lease \in Nat /\ e.lease \in Nat
    BY DEF Reports
  <2> QED BY <2>1, <2>2, LaterStatesTransitive
<1>2. r.commit # "Prior" => e.commit # "Prior"
  BY <1>0 DEF Later
<1>3. r.sched = "Prepared" /\ e.sched = "None" => e.actor = "Cancelled"
  <2> SUFFICES ASSUME r.sched = "Prepared", e.sched = "None" PROVE e.actor = "Cancelled"
    OBVIOUS
  <2>1. e.commit = "None"
    BY DEF Coherent
  <2>2. d.commit = "None"
    BY <1>0, <2>1 DEF Later
  <2>3. CASE d.sched = "None"
    BY <1>0, <2>3 DEF Later
  <2>4. CASE d.sched = "Prepared"
    BY <1>0, <2>4 DEF Later
  <2>5. d.sched \in {"None", "Prepared"}
    BY <2>2 DEF Coherent
  <2> QED BY <2>3, <2>4, <2>5
<1>4. /\ r.actor = "Cancelled" => e.actor = "Cancelled"
      /\ r.actor = "Faulted" => e.actor \in {"Faulted", "Cancelled"}
  BY <1>0 DEF Later
<1>5. Quiescent(r) => Quiescent(e) /\ (e.sched = "Complete" => r.sched = "Complete")
  BY <1>0 DEF Later
<1> QED BY <1>0, <1>1, <1>2, <1>3, <1>4, <1>5 DEF Later

\* Every operation leads to a later state,
LEMMA ExecuteLater ==
    ASSUME NEW d \in Reports, NEW k \in Epochs, NEW op, NEW lease \in Nat, Coherent(d),
           Leased(d), op = "RenewLease" => Attended
    PROVE  Leased(Execute(d, k, op, lease)) /\ Later(d, Execute(d, k, op, lease))
<1> USE DEF Reports, ScheduleStates, FirstLease, Coherent, Leased, Later, LaterStates, Quiescent
<1>1. CASE op = "Prepare"    BY <1>1 DEF Execute, Job
<1>2. CASE op = "Install"    BY <1>2 DEF Execute
<1>3. CASE op = "Confirm"    BY <1>3 DEF Execute
<1>4. CASE op = "Abort"      BY <1>4 DEF Execute
<1>5. CASE op = "Cancel"     BY <1>5 DEF Execute
<1>6. CASE op = "RenewLease" BY <1>6 DEF Execute, Authorized
<1>7. CASE op \notin {"Prepare", "Install", "Confirm", "Abort", "Cancel", "RenewLease"}
  BY <1>7 DEF Execute
<1> QED BY <1>1, <1>2, <1>3, <1>4, <1>5, <1>6, <1>7

\* and so does what a device does on its own, faults included.
LEMMA ProgressLater ==
    ASSUME NEW d \in Reports, NEW k \in Epochs, Coherent(d), Leased(d)
    PROVE  /\ Leased(Progress(d, k)) /\ Later(d, Progress(d, k))
           /\ ~Quiescent(d) => Leased(Fault(d)) /\ Later(d, Fault(d))
<1> USE DEF Reports, ScheduleStates, FirstLease, Coherent, Leased, Later, LaterStates, Quiescent
<1>1. Leased(Progress(d, k)) /\ Later(d, Progress(d, k))
  BY DEF Progress
<1>2. ~Quiescent(d) => Leased(Fault(d)) /\ Later(d, Fault(d))
  BY DEF Fault
<1> QED BY <1>1, <1>2

LEMMA LaterSelf ==
    ASSUME NEW d \in Reports, Coherent(d)
    PROVE  Later(d, d)
BY DEF Later, Reports, Coherent

\* job_report_advances admits every later state.
LEMMA LaterAdvances ==
    ASSUME NEW r \in Reports, NEW d \in Reports, Coherent(r), Leased(r), Coherent(d),
           Leased(d), Later(r, d), r.owner # "Foreign"
    PROVE  ReportAdvances(r, d)
<1>1. CASE r.sched = "None"
  BY <1>1 DEF ReportAdvances
<1>2. CASE r.sched # "None"
  <2>1. r.owner = "This"
    BY <1>2 DEF Leased, Reports
  <2>2. CASE d.sched = "None"
    BY <1>2, <2>1, <2>2 DEF ReportAdvances, Later, Coherent
  <2>3. CASE d.sched # "None"
    <3>1. ScheduleAdvances(r, d)
      <4>1. CASE r.commit = "None"
        BY <1>2, <2>1, <2>3, <4>1
           DEF ScheduleAdvances, Later, Coherent, Leased, LaterStates, Reports, ScheduleStates
      <4>2. CASE r.commit # "None"
        <5>1. /\ d.commit = r.commit
              /\ d.sched = r.sched \/ d.sched \in LaterStates(r.sched)
              /\ r.lease <= d.lease
          BY <2>1, <4>2 DEF Later
        <5>2. r.lease \in Nat /\ d.lease \in Nat /\ (~Attended => r.lease = d.lease)
          BY <4>2, <5>1 DEF Leased, Reports, FirstLease
        <5> QED BY <5>1, <5>2, <4>2, PolicyAssumption DEF ScheduleAdvances
      <4> QED BY <4>1, <4>2
    <3> QED BY <1>2, <2>3, <3>1 DEF ReportAdvances
  <2> QED BY <2>2, <2>3
<1> QED BY <1>1, <1>2

-----------------------------------------------------------------------------
(* The invariant behind outcomes and leases.                               *)

\* What was read, what is being answered and the device come one after another.
Chain(p) ==
    /\ Leased(dev[p])
    /\ Coherent(part[p].report) /\ Leased(part[p].report)
    /\ Coherent(answer[p].report) /\ Leased(answer[p].report)
    /\ IF part[p].seen THEN Later(part[p].report, dev[p]) ELSE part[p].report = EmptyReport
    /\ answer[p].kind = "Report" =>
         /\ Later(answer[p].report, dev[p])
         /\ part[p].seen => Later(part[p].report, answer[p].report)

\* Whatever may still install or renew has been recorded by the client before.
Authority(p) ==
    /\ part[p].bound => target /\ part[p].authorized >= FirstLease
    /\ ~Attended => part[p].authorized <= FirstLease
    /\ \A q \in late[p] \cup {wire[p]} :
         /\ q.op = "Install" => part[p].bound
         /\ q.op = "RenewLease" => Attended /\ q.lease <= part[p].authorized
    /\ dev[p].commit = "Ours" => part[p].bound /\ dev[p].lease <= part[p].authorized
    /\ part[p].authorized > FirstLease =>
         part[p].report.owner = "This" /\ part[p].report.sched \notin {"None", "Prepared"}

\* Commits are bound exactly while a stop means to abort, and only after everybody
\* was seen.
Targeted ==
    /\ intent \in {"Confirm", "Abort"} => target
    /\ intent = "Cancel" => ~target
    /\ target => \A p \in Participants :
                   /\ part[p].seen /\ part[p].report.owner = "This"
                   /\ answer[p].kind = "Report" => answer[p].report.commit # "Prior"

\* The fault that a cleanup follows stays visible.
Lapsed(m) ==
    /\ m.seen /\ m.report.owner # "None"
    /\ m.report.actor \in {"Faulted", "Cancelled"} \/ m.report.sched = "Faulted"

Cleaning ==
    cleanup => /\ intent \in {"Abort", "Cancel"}
               /\ \E p \in Participants : Lapsed(part[p])

OutcomeInv ==
    /\ \A p \in Participants : Chain(p) /\ Authority(p)
    /\ Targeted
    /\ Cleaning

LEMMA LapsedPhase ==
    ASSUME NEW m \in Machines
    PROVE  Lapsed(m) <=> PhaseOf(m) \in {"Faulted", "Cancelled"}
<1>0. m.seen \in BOOLEAN
  BY DEF Machines
<1>1. m.report.sched \in ScheduleStates /\ m.report \in Reports
  BY DEF Machines, Reports
<1>2. ScheduledPhase(m) # "Cancelled" /\ (ScheduledPhase(m) = "Faulted" <=> m.report.sched = "Faulted")
  <2>1. CASE m.report.sched = "None"
    BY <2>1 DEF ScheduledPhase
  <2>2. CASE m.report.sched = "Prepared"
    BY <2>2 DEF ScheduledPhase
  <2>3. CASE m.report.sched \notin {"None", "Prepared"}
    <3>1. ScheduledPhase(m) = m.report.sched
      BY <2>3 DEF ScheduledPhase
    <3> QED BY <1>1, <2>3, <3>1 DEF ScheduleStates
  <2> QED BY <2>1, <2>2, <2>3
<1>3. CASE ~m.seen \/ m.report.owner = "None"
  <2>1. PhaseOf(m) = "Empty"
    BY <1>0, <1>3 DEF PhaseOf
  <2> QED BY <1>3, <2>1 DEF Lapsed
<1>4. CASE m.seen /\ m.report.owner # "None"
  <2>1. CASE m.report.actor \in {"Faulted", "Cancelled"}
    BY <1>0, <1>4, <2>1 DEF PhaseOf, Lapsed
  <2>2. CASE m.report.actor \notin {"Faulted", "Cancelled"}
    <3>1. PhaseOf(m) = ScheduledPhase(m)
      BY <1>0, <1>4, <2>2 DEF PhaseOf
    <3> QED BY <1>2, <1>4, <2>2, <3>1 DEF Lapsed
  <2> QED BY <2>1, <2>2
<1> QED BY <1>3, <1>4

\* An answer is ignored, stands for a replaceable job, or is a later report.
LEMMA AcceptCases ==
    ASSUME NEW m, NEW readable \in BOOLEAN, NEW r
    PROVE  \/ Accept(m, readable, r) = Taken(m)
           \/ Accept(m, readable, r) = Learned(m, EmptyReport) /\ ~m.seen /\ ~m.bound
           \/ /\ Accept(m, readable, r) = Learned(m, r) /\ readable
              /\ ValidReport(m, r)
              /\ m.seen => ReportAdvances(m.report, r)
BY DEF Accept

\* An install goes out only where no lease beyond the first was ever asked for.
LEMMA InstallOnce ==
    ASSUME NEW p \in Participants, NEW i \in Intents, Operation(p, i) = "Install",
           part[p] \in Machines
    PROVE  i = "Install" /\ part[p].report.sched = "Prepared"
<1>1. i = "Install"
  BY DEF Operation, IntentOperation, PrepareOperation, ConfirmOperation, CancelOperation,
         AbortOperation, Intents
<1>2. CanBegin(part[p], "Install")
  BY DEF Operation, Operations
<1>3. PhaseOf(part[p]) \in {"Ready", "Installing"}
  BY <1>2 DEF CanBegin
<1> QED BY <1>1, <1>3 DEF PhaseOf, ScheduledPhase, Machines, Reports, ScheduleStates

\* Everybody that is ready was seen with a prepared job of this id.
LEMMA ReadySeen ==
    ASSUME GlobalPhase = "Ready", intent \in Intents, part \in [Participants -> Machines]
    PROVE  /\ intent = "Prepare"
           /\ \A p \in Participants : /\ part[p].seen /\ part[p].report.owner # "None"
                                      /\ part[p].report.sched = "Prepared"
<1>1. intent = "Prepare" /\ PreparePhase = "Ready"
  BY DEF GlobalPhase, InstallPhase, ConfirmPhase, AbortPhase, CancelPhase, Intents
<1>2. Every({"Ready"})
  BY <1>1 DEF PreparePhase
<1> SUFFICES ASSUME NEW p \in Participants
             PROVE  /\ part[p].seen /\ part[p].report.owner # "None"
                    /\ part[p].report.sched = "Prepared"
  BY <1>1
<1>3. PhaseOf(part[p]) = "Ready"
  BY <1>2 DEF Every, Phase
<1> QED BY <1>3, ReadyPhase DEF PhaseOf

LEMMA OutcomeInvInit == Init => OutcomeInv
<1> SUFFICES ASSUME Init PROVE OutcomeInv
  OBVIOUS
<1> USE DEF Init
<1>1. \A d \in RetainedDevices : Leased(d) /\ d.commit # "Ours"
  BY DEF RetainedDevices, Job, EmptyReport, Leased, FirstLease
<1>2. Coherent(EmptyReport) /\ Leased(EmptyReport)
  BY DEF EmptyReport, Coherent, Leased, FirstLease
<1>3. ASSUME NEW p \in Participants PROVE Chain(p) /\ Authority(p)
  <2>1. dev[p] \in RetainedDevices
    BY RetainedAssumption
  <2> QED BY <1>1, <1>2, <2>1 DEF Chain, Authority, NewMachine, NoAnswer, Answer, NoRequest,
             Request, EmptyReport, FirstLease
<1> QED BY <1>3 DEF OutcomeInv, Targeted, Cleaning

\* A step that leaves a participant's device, answer and knowledge alone.
LEMMA ChainKept ==
    ASSUME NEW p \in Participants, Chain(p), dev'[p] = dev[p], answer'[p] = answer[p],
           part'[p].report = part[p].report, part'[p].seen = part[p].seen
    PROVE  Chain(p)'
BY DEF Chain

LEMMA LapsedKept ==
    ASSUME Cleaning, UNCHANGED cleanup, UNCHANGED intent,
           \A p \in Participants : /\ part'[p].report = part[p].report
                                   /\ part'[p].seen = part[p].seen
    PROVE  Cleaning'
BY DEF Cleaning, Lapsed

\* A device moves to a later state; nothing else does, but for an answer that
\* reports it.
LEMMA DeviceChain ==
    ASSUME BarrierInv, OutcomeInv, NEW p \in Participants, NEW e \in Reports, Coherent(e),
           Leased(e), Later(dev[p], e), dev' = [dev EXCEPT ![p] = e], UNCHANGED part,
           \A q \in Participants :
               \/ answer'[q] = answer[q]
               \/ q = p /\ answer'[q] = Answer("Report", e)
    PROVE  \A q \in Participants : Chain(q)'
<1>0. dev \in [Participants -> Reports] /\ part \in [Participants -> Machines]
      /\ answer \in [Participants -> Answers]
  BY DEF BarrierInv, TypeOK
<1> SUFFICES ASSUME NEW q \in Participants PROVE Chain(q)'
  OBVIOUS
<1>1. CASE q # p
  BY <1>0, <1>1, ChainKept DEF OutcomeInv
<1>2. CASE q = p
  <2>1. part[p].report \in Reports /\ answer[p].report \in Reports /\ dev[p] \in Reports
    BY <1>0 DEF Machines, Answers
  <2>2. dev'[p] = e
    BY <1>0
  <2>3. part[p].seen => Later(part[p].report, e)
    BY <2>1, LaterTransitive DEF OutcomeInv, Chain, BarrierInv, Known
  <2>4. CASE answer'[q] = answer[q]
    <3>1. answer[p].kind = "Report" => Later(answer[p].report, e)
      BY <2>1, LaterTransitive DEF OutcomeInv, Chain, BarrierInv, Known
    <3> QED BY <1>2, <2>2, <2>3, <2>4, <3>1 DEF OutcomeInv, Chain
  <2>5. CASE answer'[q] = Answer("Report", e)
    <3>1. Later(e, e)
      BY LaterSelf
    <3> QED BY <1>2, <2>2, <2>3, <2>5, <3>1 DEF OutcomeInv, Chain, Answer
  <2> QED BY <1>2, <2>4, <2>5
<1> QED BY <1>1, <1>2

\* Nothing that may install or renew has been added, and nothing recorded is lost.
LEMMA AuthorityKept ==
    ASSUME NEW p \in Participants, Authority(p), dev'[p] = dev[p], target => target',
           part'[p].report = part[p].report, part'[p].bound = part[p].bound,
           part'[p].authorized = part[p].authorized,
           \A q \in late'[p] \cup {wire'[p]} :
               q \in late[p] \cup {wire[p]} \/ q.op \notin {"Install", "RenewLease"}
    PROVE  Authority(p)'
BY DEF Authority

\* The coordinator's decisions move no report and no request.
LEMMA DecisionKeeps ==
    ASSUME OutcomeInv, UNCHANGED <<part, cleanup, netVars, deviceVars>>, target => target',
           intent' \in {"Abort", "Cancel"} \/ ~cleanup
    PROVE  /\ \A p \in Participants : Chain(p)' /\ Authority(p)'
           /\ Cleaning'
<1>1. ASSUME NEW p \in Participants PROVE Chain(p)' /\ Authority(p)'
  <2>1. Chain(p)'
    BY ChainKept DEF OutcomeInv, netVars, deviceVars
  <2>2. Authority(p)'
    BY AuthorityKept DEF OutcomeInv, netVars, deviceVars
  <2> QED BY <2>1, <2>2
<1>2. Cleaning'
  BY DEF OutcomeInv, Cleaning
<1> QED BY <1>1, <1>2

LEMMA OutcomeBind ==
    ASSUME BarrierInv, OutcomeInv, BindStart
    PROVE  OutcomeInv'
<1>1. intent = "Prepare" /\ ~cleanup
  BY ReadySeen DEF BindStart, BarrierInv, TypeOK, OutcomeInv, Cleaning
<1>2. (\A p \in Participants : Chain(p)' /\ Authority(p)') /\ Cleaning'
  BY <1>1, DecisionKeeps DEF BindStart
<1>3. ASSUME NEW p \in Participants
      PROVE  /\ part[p].seen /\ part[p].report.owner = "This"
             /\ answer[p].kind = "Report" => answer[p].report.commit # "Prior"
  <2>1. part[p].seen /\ part[p].report.owner # "None" /\ part[p].report.sched = "Prepared"
    BY ReadySeen DEF BindStart, BarrierInv, TypeOK
  <2>2. part[p].report.owner = "This"
    BY <2>1 DEF BarrierInv, TypeOK, Known, Machines, Reports
  <2>3. part[p].report.commit = "None"
    BY <2>1 DEF OutcomeInv, Chain, Coherent
  <2> QED BY <2>1, <2>2, <2>3 DEF OutcomeInv, Chain, Later
<1>4. Targeted'
  BY <1>3 DEF BindStart, netVars, Targeted
<1> QED BY <1>2, <1>4 DEF OutcomeInv

LEMMA OutcomeDecide ==
    ASSUME BarrierInv, OutcomeInv, BeginConfirmation \/ BeginAbort \/ BeginCancel
    PROVE  OutcomeInv'
<1>1. CASE BeginConfirmation
  <2>1. ~cleanup
    BY <1>1, InstalledPhase DEF BeginConfirmation, BarrierInv, TypeOK, OutcomeInv, Cleaning
  <2>2. (\A p \in Participants : Chain(p)' /\ Authority(p)') /\ Cleaning'
    BY <1>1, <2>1, DecisionKeeps DEF BeginConfirmation
  <2>3. target
    BY <1>1, InstalledPhase DEF BeginConfirmation, BarrierInv, TypeOK, NoPriorOnceBound
  <2>4. Targeted'
    BY <1>1, <2>3 DEF BeginConfirmation, netVars, OutcomeInv, Targeted
  <2> QED BY <2>2, <2>4 DEF OutcomeInv
<1>2. CASE BeginAbort \/ BeginCancel
  <2>1. (\A p \in Participants : Chain(p)' /\ Authority(p)') /\ Cleaning'
    BY <1>2, DecisionKeeps DEF BeginAbort, BeginCancel
  <2>2. Targeted'
    BY <1>2 DEF BeginAbort, CanAbort, BeginCancel, CanCancel, netVars, OutcomeInv, Targeted
  <2> QED BY <2>1, <2>2 DEF OutcomeInv
<1> QED BY <1>1, <1>2

LEMMA OutcomeStatus ==
    ASSUME BarrierInv, OutcomeInv, BeginStatusRound
    PROVE  OutcomeInv'
<1>1. ASSUME NEW p \in Participants
      PROVE  /\ part'[p].report = part[p].report /\ part'[p].seen = part[p].seen
             /\ part'[p].bound = part[p].bound /\ part'[p].authorized = part[p].authorized
             /\ wire'[p].op = "Status"
  BY DEF BeginStatusRound, Begin, BarrierInv, TypeOK, Machines, Request
<1>2. ASSUME NEW p \in Participants PROVE Chain(p)' /\ Authority(p)'
  <2>1. Chain(p)'
    BY <1>1, ChainKept DEF BeginStatusRound, OutcomeInv, deviceVars
  <2>2. Authority(p)'
    BY <1>1, AuthorityKept DEF BeginStatusRound, OutcomeInv, deviceVars
  <2> QED BY <2>1, <2>2
<1>3. Cleaning'
  BY <1>1, LapsedKept DEF BeginStatusRound, OutcomeInv
<1>4. Targeted'
  BY <1>1 DEF BeginStatusRound, OutcomeInv, Targeted
<1> QED BY <1>2, <1>3, <1>4 DEF OutcomeInv

\* A renewal is recorded before it is sent, and only where the job is confirmed.
LEMMA OutcomeRenew ==
    ASSUME BarrierInv, OutcomeInv, NEW leases \in Leases, BeginLeaseRenewal(leases)
    PROVE  OutcomeInv'
<1>1. ASSUME NEW p \in Participants
      PROVE  /\ part'[p].report = part[p].report /\ part'[p].seen = part[p].seen
             /\ part'[p].bound = part[p].bound /\ part'[p].authorized = leases[p]
             /\ wire'[p] = Request("RenewLease", leases[p])
             /\ leases[p] \in Nat /\ part[p].authorized \in Nat
             /\ leases[p] >= part[p].authorized
  <2>1. part[p] \in Machines /\ leases[p] \in Nat
    BY BoundAssumption DEF BarrierInv, TypeOK, Leases
  <2>2. part'[p] = BeginRenew(part[p], leases[p]) /\ wire'[p] = Request("RenewLease", leases[p])
    BY DEF BeginLeaseRenewal
  <2>3. leases[p] >= part[p].authorized
    BY DEF BeginLeaseRenewal, RenewalAdmitted, CanRenew
  <2> QED BY <2>1, <2>2, <2>3 DEF BeginRenew, Machines
<1>2. ASSUME NEW p \in Participants
      PROVE  part[p].report.owner = "This" /\ part[p].report.sched \notin {"None", "Prepared"}
  <2>1. PhaseOf(part[p]) \in {"Confirmed", "Priming", "Primed", "Running"}
    BY DEF BeginLeaseRenewal, RenewalAdmitted, CanRenew
  <2> QED BY <2>1 DEF PhaseOf, ScheduledPhase, BarrierInv, TypeOK, Known, Machines, Reports
<1>3. ASSUME NEW p \in Participants PROVE Chain(p)' /\ Authority(p)'
  <2>1. Chain(p)'
    BY <1>1, ChainKept DEF BeginLeaseRenewal, OutcomeInv, deviceVars
  <2>2. /\ Attended
        /\ \A q \in late[p] : q.lease \in Nat
        /\ dev[p].lease \in Nat
    BY DEF BeginLeaseRenewal, RenewalAdmitted, BarrierInv, TypeOK, Requests, Reports
  <2>3. \A q \in late[p] \cup {wire'[p]} :
          /\ q.op = "Install" => part[p].bound
          /\ q.op = "RenewLease" => Attended /\ q.lease <= leases[p]
    <3>1. ASSUME NEW q \in late[p]
          PROVE  /\ q.op = "Install" => part[p].bound
                 /\ q.op = "RenewLease" => q.lease <= part[p].authorized
      BY DEF OutcomeInv, Authority
    <3>2. \A q \in late[p] : q.op = "RenewLease" => q.lease <= leases[p]
      BY <1>1, <2>2, <3>1
    <3>3. wire'[p].op # "Install" /\ wire'[p].lease <= leases[p]
      <4>1. wire'[p] = Request("RenewLease", leases[p]) /\ leases[p] \in Nat
        BY <1>1
      <4>2. /\ Request("RenewLease", leases[p]).op = "RenewLease"
            /\ Request("RenewLease", leases[p]).lease = leases[p]
        BY DEF Request
      <4> QED BY <4>1, <4>2
    <3> QED BY <2>2, <3>1, <3>2, <3>3, Zenon
  <2>4. Authority(p)'
    BY <1>1, <1>2, <2>2, <2>3
       DEF BeginLeaseRenewal, OutcomeInv, Authority, deviceVars, FirstLease
  <2> QED BY <2>1, <2>4
<1>4. Cleaning'
  BY <1>1, LapsedKept DEF BeginLeaseRenewal, OutcomeInv
<1>5. Targeted'
  BY <1>1 DEF BeginLeaseRenewal, OutcomeInv, Targeted
<1> QED BY <1>3, <1>4, <1>5 DEF OutcomeInv

\* The coordinator itself never asks for a renewal.
LEMMA NeverRenews ==
    ASSUME NEW p, NEW i \in Intents
    PROVE  Operation(p, i) # "RenewLease"
BY DEF Operation, IntentOperation, PrepareOperation, InstallOperation, ConfirmOperation,
       CancelOperation, AbortOperation, Intents

LEMMA OutcomeRequest ==
    ASSUME BarrierInv, OutcomeInv, NEW p \in Participants, NextRequest(p)
    PROVE  OutcomeInv'
<1>0. /\ part \in [Participants -> Machines] /\ wire \in [Participants -> Requests]
      /\ intent \in Intents
      /\ part' = [part EXCEPT ![p] = Begin(part[p], Operation(p, intent))]
      /\ wire' = [wire EXCEPT ![p] = Request(Operation(p, intent), 0)]
      /\ UNCHANGED <<intent, target, cleanup, answer, late, dev>>
  BY DEF BarrierInv, TypeOK, NextRequest, RequestUnder, Send, deviceVars
<1>1. ASSUME NEW q \in Participants
      PROVE  part'[q].report = part[q].report /\ part'[q].seen = part[q].seen
  BY <1>0 DEF Begin, Machines
<1>2. ASSUME NEW q \in Participants PROVE Chain(q)'
  BY <1>0, <1>1, ChainKept DEF OutcomeInv
<1>3. ASSUME NEW q \in Participants PROVE Authority(q)'
  <2>1. CASE q # p
    BY <1>0, <2>1, AuthorityKept DEF OutcomeInv
  <2>2. CASE q = p /\ Operation(p, intent) # "Install"
    <3>1. part'[p].bound = part[p].bound /\ part'[p].authorized = part[p].authorized
      BY <1>0, <2>2 DEF Begin, Machines
    <3>2. wire'[p].op \notin {"Install", "RenewLease"}
      BY <1>0, <2>2, NeverRenews DEF Request
    <3> QED BY <1>0, <1>1, <2>2, <3>1, <3>2, AuthorityKept DEF OutcomeInv
  <2>3. CASE q = p /\ Operation(p, intent) = "Install"
    <3>1. part'[p].bound = TRUE /\ part'[p].authorized = FirstLease
      BY <1>0, <2>3 DEF Begin, Machines
    <3>2. target
      BY <1>0, <2>3, InstallOnce DEF BarrierInv, NoPriorOnceBound
    <3>3. part[p].authorized \in Nat /\ dev[p].lease \in Nat
      BY DEF BarrierInv, TypeOK, Machines, Reports
    <3>4. part[p].authorized <= FirstLease
      BY <1>0, <2>3, <3>3, InstallOnce DEF OutcomeInv, Authority, FirstLease
    <3>5. dev[p].commit = "Ours" => dev[p].lease <= FirstLease
      BY <3>3, <3>4 DEF OutcomeInv, Authority, FirstLease
    <3>6. ASSUME NEW r \in late[p], r.op = "RenewLease"
          PROVE  Attended /\ r.lease <= FirstLease
      <4>1. r.lease \in Nat
        BY DEF BarrierInv, TypeOK, Requests
      <4>2. Attended /\ r.lease <= part[p].authorized
        BY <3>6 DEF OutcomeInv, Authority
      <4> QED BY <3>3, <3>4, <4>1, <4>2 DEF FirstLease
    <3>7. wire'[p].op = "Install"
      BY <1>0, <2>3 DEF Request
    <3> QED BY <1>0, <2>3, <3>1, <3>2, <3>5, <3>6, <3>7 DEF Authority, FirstLease
  <2> QED BY <2>1, <2>2, <2>3
<1>4. Cleaning'
  BY <1>0, <1>1, LapsedKept DEF OutcomeInv
<1>5. Targeted'
  BY <1>0, <1>1 DEF OutcomeInv, Targeted
<1> QED BY <1>2, <1>3, <1>4, <1>5 DEF OutcomeInv

\* What accepting an answer does to the machine that asked.
LEMMA AcceptLearns ==
    ASSUME BarrierInv, OutcomeInv, NEW p \in Participants, NEW m,
           m = Accept(part[p], answer[p].kind = "Report", answer[p].report)
    PROVE  /\ m.bound = part[p].bound /\ m.authorized = part[p].authorized
           /\ \/ m.report = part[p].report /\ m.seen = part[p].seen
              \/ m.report = EmptyReport /\ m.seen = TRUE /\ ~part[p].seen
              \/ /\ m.report = answer[p].report /\ m.seen = TRUE
                 /\ answer[p].kind = "Report" /\ answer[p].report.owner # "Foreign"
<1>1. part[p] \in Machines /\ (answer[p].kind = "Report") \in BOOLEAN
  BY DEF BarrierInv, TypeOK
<1>2. CASE m = Taken(part[p])
  BY <1>1, <1>2 DEF Taken, Machines
<1>3. CASE m = Learned(part[p], EmptyReport) /\ ~part[p].seen
  BY <1>1, <1>3 DEF Learned, Machines
<1>4. CASE m = Learned(part[p], answer[p].report) /\ answer[p].kind = "Report"
           /\ ValidReport(part[p], answer[p].report)
  BY <1>1, <1>4 DEF Learned, Machines, ValidReport
<1> QED BY <1>1, <1>2, <1>3, <1>4, AcceptCases

\* A fault stays a fault, or what its cancellation leaves.
LEMMA LapsedLater ==
    ASSUME NEW r \in Reports, NEW d \in Reports, Coherent(r), Later(r, d), r.owner = "This",
           r.actor \in {"Faulted", "Cancelled"} \/ r.sched = "Faulted"
    PROVE  d.owner = "This" /\ (d.actor \in {"Faulted", "Cancelled"} \/ d.sched = "Faulted")
<1>1. CASE r.actor \in {"Faulted", "Cancelled"}
  BY <1>1 DEF Later
<1>2. CASE r.sched = "Faulted"
  <2>1. r.commit # "None"
    BY <1>2 DEF Coherent
  <2>2. d.sched = "Faulted" \/ d.sched \in LaterStates("Faulted")
    BY <1>2, <2>1 DEF Later
  <2>3. LaterStates("Faulted") = {}
    BY DEF LaterStates
  <2> QED BY <2>2, <2>3 DEF Later
<1> QED BY <1>1, <1>2

LEMMA OutcomeAccept ==
    ASSUME BarrierInv, OutcomeInv, NEW p \in Participants, AcceptResponse(p)
    PROVE  OutcomeInv'
<1>1. PICK m : m = Accept(part[p], answer[p].kind = "Report", answer[p].report)
  OBVIOUS
<1>0. /\ part \in [Participants -> Machines] /\ answer \in [Participants -> Answers]
      /\ part' = [part EXCEPT ![p] = m]
      /\ answer' = [answer EXCEPT ![p] = NoAnswer]
      /\ UNCHANGED <<target, wire, late, dev>>
      /\ part' \in [Participants -> Machines]
  BY <1>1, BarrierInvNext DEF BarrierInv, TypeOK, AcceptResponse, deviceVars, Next, CoordinatorNext
<1>2. /\ m.bound = part[p].bound /\ m.authorized = part[p].authorized
      /\ \/ m.report = part[p].report /\ m.seen = part[p].seen
         \/ m.report = EmptyReport /\ m.seen = TRUE /\ ~part[p].seen
         \/ /\ m.report = answer[p].report /\ m.seen = TRUE
            /\ answer[p].kind = "Report" /\ answer[p].report.owner # "Foreign"
  BY <1>1, AcceptLearns
<1>3. Chain(p) /\ Authority(p) /\ Known(p)
  BY DEF OutcomeInv, BarrierInv
<1>4. part'[p] = m /\ answer'[p] = NoAnswer /\ dev'[p] = dev[p]
  BY <1>0
<1>5. /\ part[p] \in Machines /\ part[p].report \in Reports
      /\ answer[p].report \in Reports /\ part[p].seen \in BOOLEAN
  BY <1>0 DEF Answers, Machines
\* What was seen of this job is followed by a later report of this job.
<1>6. part[p].seen /\ part[p].report.owner = "This" =>
        /\ m.seen /\ m.report.owner = "This"
        /\ part[p].report.sched \notin {"None", "Prepared"} =>
              m.report.sched \notin {"None", "Prepared"}
        /\ Lapsed(part[p]) => Lapsed(m)
  <2> SUFFICES ASSUME part[p].seen, part[p].report.owner = "This"
               PROVE  /\ m.seen /\ m.report.owner = "This"
                      /\ part[p].report.sched \notin {"None", "Prepared"} =>
                            m.report.sched \notin {"None", "Prepared"}
                      /\ Lapsed(part[p]) => Lapsed(m)
    OBVIOUS
  <2>1. CASE m.report = part[p].report /\ m.seen = part[p].seen
    BY <2>1 DEF Lapsed
  <2>2. CASE m.report = answer[p].report /\ m.seen = TRUE /\ answer[p].kind = "Report"
    <3>1. Later(part[p].report, answer[p].report) /\ Coherent(part[p].report)
          /\ Coherent(answer[p].report)
      BY <1>3, <2>2 DEF Chain
    <3>2. answer[p].report.owner = "This"
      BY <3>1 DEF Later
    <3>3. part[p].report.sched \notin {"None", "Prepared"} =>
             answer[p].report.sched \notin {"None", "Prepared"}
      BY <3>1 DEF Later, Coherent
    <3>4. Lapsed(part[p]) => Lapsed(m)
      BY <1>5, <2>2, <3>1, <3>2, LapsedLater DEF Lapsed
    <3> QED BY <2>2, <3>2, <3>3, <3>4
  <2> QED BY <1>2, <2>1, <2>2
<1>7. ASSUME NEW q \in Participants PROVE Chain(q)'
  <2>1. CASE q # p
    BY <1>0, <2>1, ChainKept DEF OutcomeInv
  <2>2. CASE q = p
    <3>1. Coherent(EmptyReport) /\ Leased(EmptyReport) /\ Later(EmptyReport, dev[p])
      BY DEF EmptyReport, Coherent, Leased, Later, FirstLease
    <3>2. NoAnswer.kind = "None" /\ NoAnswer.report = EmptyReport
      BY DEF NoAnswer, Answer
    <3>3. /\ Coherent(m.report) /\ Leased(m.report)
          /\ IF m.seen THEN Later(m.report, dev[p]) ELSE m.report = EmptyReport
      BY <1>2, <1>3, <3>1 DEF Chain
    <3> QED BY <1>3, <1>4, <2>2, <3>1, <3>2, <3>3 DEF Chain
  <2> QED BY <2>1, <2>2
<1>8. ASSUME NEW q \in Participants PROVE Authority(q)'
  <2>1. CASE q # p
    BY <1>0, <2>1, AuthorityKept DEF OutcomeInv
  <2>2. CASE q = p
    <3>1. part[p].authorized > FirstLease =>
            m.report.owner = "This" /\ m.report.sched \notin {"None", "Prepared"}
      <4> SUFFICES ASSUME part[p].authorized > FirstLease
                   PROVE  m.report.owner = "This" /\ m.report.sched \notin {"None", "Prepared"}
        OBVIOUS
      <4>1. part[p].report.owner = "This" /\ part[p].report.sched \notin {"None", "Prepared"}
        BY <1>3 DEF Authority
      <4>2. part[p].seen
        BY <1>3, <4>1 DEF Chain, EmptyReport
      <4> QED BY <1>6, <4>1, <4>2
    <3> QED BY <1>0, <1>2, <1>3, <1>4, <2>2, <3>1 DEF Authority
  <2> QED BY <2>1, <2>2
<1>9. target => \A q \in Participants :
                  /\ part'[q].seen /\ part'[q].report.owner = "This"
                  /\ answer'[q].kind = "Report" => answer'[q].report.commit # "Prior"
  BY <1>0, <1>6 DEF OutcomeInv, Targeted, NoAnswer, Answer
<1>10. CASE UNCHANGED <<cleanup, intent>> /\ ~cleanup
  BY <1>0, <1>7, <1>8, <1>9, <1>10 DEF OutcomeInv, Targeted, Cleaning
<1>11. CASE /\ UNCHANGED <<cleanup, intent>> /\ cleanup
            /\ ~\E q \in Participants : PhaseOf(part'[q]) = "Faulted"
  <2>1. PICK q \in Participants : Lapsed(part[q])
    BY <1>11 DEF OutcomeInv, Cleaning
  <2>2. Lapsed(part'[q])
    <3>1. CASE q # p
      BY <1>0, <2>1, <3>1
    <3>2. CASE q = p
      <4>1. part[p].seen /\ part[p].report.owner = "This"
        BY <1>3, <1>5, <2>1, <3>2 DEF Lapsed, Known, Reports
      <4> QED BY <1>4, <1>6, <2>1, <3>2, <4>1
    <3> QED BY <3>1, <3>2
  <2>3. Cleaning'
    BY <1>11, <2>2 DEF OutcomeInv, Cleaning
  <2> QED BY <1>0, <1>7, <1>8, <1>9, <1>11, <2>3 DEF OutcomeInv, Targeted
<1>12. CASE /\ \E q \in Participants : PhaseOf(part'[q]) = "Faulted"
            /\ cleanup' = TRUE /\ intent' = IF target THEN "Abort" ELSE "Cancel"
  <2>1. PICK q \in Participants : PhaseOf(part'[q]) = "Faulted"
    BY <1>12
  <2>2. Lapsed(part'[q])
    BY <1>0, <2>1, LapsedPhase
  <2>3. Cleaning'
    BY <1>12, <2>2 DEF Cleaning
  <2>4. Targeted'
    BY <1>0, <1>9, <1>12 DEF Targeted
  <2> QED BY <1>7, <1>8, <2>3, <2>4 DEF OutcomeInv
<1>13. \/ UNCHANGED <<cleanup, intent>> /\ intent = "Prepare"
       \/ /\ UNCHANGED <<cleanup, intent>>
          /\ ~\E q \in Participants : PhaseOf(part'[q]) = "Faulted"
       \/ /\ \E q \in Participants : PhaseOf(part'[q]) = "Faulted"
          /\ cleanup' = TRUE /\ intent' = IF target THEN "Abort" ELSE "Cancel"
  BY DEF AcceptResponse, FaultCleanup
<1>14. intent = "Prepare" => ~cleanup
  BY DEF OutcomeInv, Cleaning
<1>15. cleanup \in BOOLEAN
  BY DEF BarrierInv, TypeOK
<1> QED BY <1>10, <1>11, <1>12, <1>13, <1>14, <1>15

LEMMA OutcomeAbandon ==
    ASSUME BarrierInv, OutcomeInv, NEW p \in Participants, AbandonPending(p)
    PROVE  OutcomeInv'
<1>0. /\ part \in [Participants -> Machines]
      /\ part' = [part EXCEPT ![p] = Abandon(part[p])]
      /\ answer' = [answer EXCEPT ![p] = NoAnswer]
      /\ UNCHANGED <<intent, target, cleanup, dev>>
  BY DEF BarrierInv, TypeOK, AbandonPending, deviceVars
<1>1. ASSUME NEW q \in Participants
      PROVE  /\ part'[q].report = part[q].report /\ part'[q].seen = part[q].seen
             /\ part'[q].bound = part[q].bound /\ part'[q].authorized = part[q].authorized
  BY <1>0 DEF Abandon, Taken, Machines
<1>2. ASSUME NEW q \in Participants PROVE Chain(q)'
  <2>1. CASE q # p
    BY <1>0, <1>1, <2>1, ChainKept DEF OutcomeInv
  <2>2. CASE q = p
    <3>1. answer'[q].kind = "None" /\ answer'[q].report = EmptyReport
      BY <1>0, <2>2 DEF NoAnswer, Answer, BarrierInv, TypeOK
    <3>2. Coherent(EmptyReport) /\ Leased(EmptyReport)
      BY DEF EmptyReport, Coherent, Leased, FirstLease
    <3> QED BY <1>0, <1>1, <3>1, <3>2 DEF OutcomeInv, Chain
  <2> QED BY <2>1, <2>2
<1>3. ASSUME NEW q \in Participants PROVE Authority(q)'
  <2>1. \A r \in late'[q] \cup {wire'[q]} :
            r \in late[q] \cup {wire[q]} \/ r.op \notin {"Install", "RenewLease"}
    BY DEF AbandonPending, BarrierInv, TypeOK, NoRequest, Request
  <2> QED BY <1>0, <1>1, <2>1, AuthorityKept DEF OutcomeInv
<1>4. Cleaning'
  BY <1>0, <1>1, LapsedKept DEF OutcomeInv
<1>5. Targeted'
  BY <1>0, <1>1 DEF OutcomeInv, Targeted, NoAnswer, Answer, BarrierInv, TypeOK
<1> QED BY <1>2, <1>3, <1>4, <1>5 DEF OutcomeInv

\* A lease of this job comes from an install or a renewal.
LEMMA LeaseOrigin ==
    ASSUME NEW d \in Reports, NEW k \in Epochs, NEW op, NEW lease \in Nat
    PROVE  /\ Execute(d, k, op, lease).commit = "Ours" =>
                 \/ d.commit = "Ours" /\ Execute(d, k, op, lease).lease = d.lease
                 \/ op = "Install" /\ Execute(d, k, op, lease).lease = FirstLease
                 \/ op = "RenewLease" /\ d.commit = "Ours" /\ Execute(d, k, op, lease).lease = lease
           /\ Progress(d, k).commit = d.commit /\ Progress(d, k).lease = d.lease
           /\ Fault(d).commit = d.commit /\ Fault(d).lease = d.lease
<1> USE DEF Reports
<1>1. Progress(d, k).commit = d.commit /\ Progress(d, k).lease = d.lease
  BY DEF Progress
<1>2. Fault(d).commit = d.commit /\ Fault(d).lease = d.lease
  BY DEF Fault
<1>3. Execute(d, k, op, lease).commit = "Ours" =>
         \/ d.commit = "Ours" /\ Execute(d, k, op, lease).lease = d.lease
         \/ op = "Install" /\ Execute(d, k, op, lease).lease = FirstLease
         \/ op = "RenewLease" /\ d.commit = "Ours" /\ Execute(d, k, op, lease).lease = lease
  BY DEF Execute, Job
<1> QED BY <1>1, <1>2, <1>3

\* A device executes what it was sent, at once or late.
LEMMA OutcomeExecute ==
    ASSUME BarrierInv, BarrierInv', OutcomeInv, NEW p \in Participants,
           NEW r \in late[p] \cup {wire[p]},
           dev' = [dev EXCEPT ![p] = Execute(dev[p], epoch[p], r.op, r.lease)],
           \A q \in Participants :
               /\ \/ answer'[q] = answer[q]
                  \/ q = p /\ answer'[q] = Answer("Report", dev'[p])
               /\ late'[q] \subseteq late[q]
               /\ wire'[q] \in {wire[q], NoRequest},
           UNCHANGED coordinatorVars
    PROVE  OutcomeInv'
<1>0. /\ dev \in [Participants -> Reports] /\ dev[p] \in Reports /\ epoch[p] \in Epochs
      /\ r \in Requests /\ r.lease \in Nat /\ Coherent(dev[p])
  BY DEF BarrierInv, TypeOK, Known, Requests
<1>1. /\ r.op = "Install" => part[p].bound
      /\ r.op = "RenewLease" => Attended /\ r.lease <= part[p].authorized
      /\ part[p].bound => part[p].authorized >= FirstLease
      /\ dev[p].commit = "Ours" => part[p].bound /\ dev[p].lease <= part[p].authorized
  BY DEF OutcomeInv, Authority
<1> DEFINE e == Execute(dev[p], epoch[p], r.op, r.lease)
<1>2. e \in Reports /\ Coherent(e)
  BY <1>0, ExecuteStep
<1>3. Leased(e) /\ Later(dev[p], e)
  BY <1>0, <1>1, ExecuteLater DEF OutcomeInv, Chain
<1>4. e.commit = "Ours" => part[p].bound /\ e.lease <= part[p].authorized
  <2>1. \/ e.commit # "Ours"
        \/ dev[p].commit = "Ours" /\ e.lease = dev[p].lease
        \/ r.op = "Install" /\ e.lease = FirstLease
        \/ r.op = "RenewLease" /\ dev[p].commit = "Ours" /\ e.lease = r.lease
    BY <1>0, LeaseOrigin
  <2> HIDE DEF e
  <2>2. part[p].authorized \in Nat
    BY DEF BarrierInv, TypeOK, Machines
  <2> QED BY <1>1, <2>1, <2>2 DEF FirstLease
<1>5. dev' = [dev EXCEPT ![p] = e] /\ dev'[p] = e
  BY <1>0
<1> HIDE DEF e
<1>6. \A q \in Participants : Chain(q)'
  BY <1>2, <1>3, <1>5, DeviceChain DEF coordinatorVars
<1>7. ASSUME NEW q \in Participants PROVE Authority(q)'
  <2>1. \A s \in late'[q] \cup {wire'[q]} :
            s \in late[q] \cup {wire[q]} \/ s.op \notin {"Install", "RenewLease"}
    BY DEF NoRequest, Request
  <2>2. CASE q # p
    BY <1>0, <1>5, <2>1, <2>2, AuthorityKept DEF OutcomeInv, coordinatorVars
  <2>3. CASE q = p
    BY <1>4, <1>5, <2>1, <2>3 DEF OutcomeInv, Authority, coordinatorVars
  <2> QED BY <2>2, <2>3
<1>8. Targeted'
  <2>1. target => \A q \in Participants : dev'[q].commit # "Prior"
    BY DEF BarrierInv, NoPriorOnceBound, coordinatorVars
  <2>2. ASSUME target, NEW q \in Participants, answer'[q].kind = "Report"
        PROVE  answer'[q].report.commit # "Prior"
    <3>1. CASE answer'[q] = answer[q]
      BY <2>2, <3>1 DEF OutcomeInv, Targeted
    <3>2. CASE q = p /\ answer'[q] = Answer("Report", dev'[p])
      BY <2>1, <2>2, <3>2 DEF Answer
    <3> QED BY <3>1, <3>2
  <2> QED BY <2>2 DEF OutcomeInv, Targeted, coordinatorVars
<1>9. Cleaning'
  BY LapsedKept DEF OutcomeInv, coordinatorVars
<1> QED BY <1>6, <1>7, <1>8, <1>9 DEF OutcomeInv

\* A device moves on its own, which leaves its commit and lease alone.
LEMMA OutcomeMoves ==
    ASSUME BarrierInv, OutcomeInv, NEW p \in Participants,
           DeviceProgress(p) \/ DeviceFault(p)
    PROVE  OutcomeInv'
<1>0. /\ dev \in [Participants -> Reports] /\ dev[p] \in Reports /\ epoch[p] \in Epochs
      /\ Coherent(dev[p]) /\ Leased(dev[p])
  BY DEF BarrierInv, TypeOK, Known, OutcomeInv, Chain
<1>1. PICK e \in Reports :
        /\ Coherent(e) /\ Leased(e) /\ Later(dev[p], e)
        /\ e.commit = dev[p].commit /\ e.lease = dev[p].lease
        /\ dev' = [dev EXCEPT ![p] = e]
  <2>1. CASE DeviceProgress(p)
    BY <1>0, <2>1, ProgressStep, ProgressLater, LeaseOrigin DEF DeviceProgress
  <2>2. CASE DeviceFault(p)
    BY <1>0, <2>2, FaultStep, ProgressLater, LeaseOrigin DEF DeviceFault
  <2> QED BY <2>1, <2>2
<1>2. UNCHANGED <<coordinatorVars, netVars>>
  BY DEF DeviceProgress, DeviceFault
<1>3. dev'[p] = e
  BY <1>0, <1>1
<1>4. \A q \in Participants : Chain(q)'
  BY <1>1, <1>2, DeviceChain DEF coordinatorVars, netVars
<1>5. ASSUME NEW q \in Participants PROVE Authority(q)'
  <2>1. dev'[q].commit = dev[q].commit /\ dev'[q].lease = dev[q].lease
    BY <1>0, <1>1
  <2> QED BY <1>2, <2>1 DEF OutcomeInv, Authority, coordinatorVars, netVars
<1>6. Targeted' /\ Cleaning'
  BY <1>2 DEF OutcomeInv, Targeted, Cleaning, coordinatorVars, netVars
<1> QED BY <1>4, <1>5, <1>6 DEF OutcomeInv

LEMMA OutcomeInvNext == BarrierInv /\ OutcomeInv /\ [Next]_vars => OutcomeInv'
<1> SUFFICES ASSUME BarrierInv, OutcomeInv, [Next]_vars PROVE OutcomeInv'
  OBVIOUS
<1>0. BarrierInv'
  BY BarrierInvNext
<1>1. CASE CoordinatorNext
  BY <1>1, OutcomeBind, OutcomeDecide, OutcomeStatus, OutcomeRenew, OutcomeRequest,
     OutcomeAccept, OutcomeAbandon DEF CoordinatorNext
<1>2. ASSUME NEW p \in Participants, DeviceExecute(p) PROVE OutcomeInv'
  <2>1. /\ wire \in [Participants -> Requests] /\ answer \in [Participants -> Answers]
        /\ UNCHANGED <<coordinatorVars, late>>
        /\ wire' = [wire EXCEPT ![p] = NoRequest]
        /\ answer' = [answer EXCEPT ![p] = Answer("Report", dev'[p])]
        /\ dev' = [dev EXCEPT ![p] = Execute(dev[p], epoch[p], wire[p].op, wire[p].lease)]
    BY <1>2 DEF DeviceExecute, BarrierInv, TypeOK
  <2>2. \A q \in Participants :
            /\ \/ answer'[q] = answer[q]
               \/ q = p /\ answer'[q] = Answer("Report", dev'[p])
            /\ late'[q] \subseteq late[q]
            /\ wire'[q] \in {wire[q], NoRequest}
    BY <2>1
  <2> QED BY <1>0, <1>2, <2>1, <2>2, OutcomeExecute
<1>3. ASSUME NEW p \in Participants, DeviceExecuteLate(p) PROVE OutcomeInv'
  <2>1. PICK r \in late[p] :
          /\ dev' = [dev EXCEPT ![p] = Execute(dev[p], epoch[p], r.op, r.lease)]
          /\ late' = [late EXCEPT ![p] = @ \ {r}]
          /\ UNCHANGED <<coordinatorVars, wire, answer, epoch, faults>>
    BY <1>3 DEF DeviceExecuteLate
  <2>2. late \in [Participants -> SUBSET Requests]
    BY DEF BarrierInv, TypeOK
  <2>3. \A q \in Participants :
            /\ \/ answer'[q] = answer[q]
               \/ q = p /\ answer'[q] = Answer("Report", dev'[p])
            /\ late'[q] \subseteq late[q]
            /\ wire'[q] \in {wire[q], NoRequest}
    BY <2>1, <2>2
  <2> QED BY <1>0, <1>3, <2>1, <2>3, OutcomeExecute
<1>4. ASSUME NEW p \in Participants, DeviceRefuse(p) PROVE OutcomeInv'
  <2>1. /\ wire \in [Participants -> Requests] /\ answer \in [Participants -> Answers]
        /\ UNCHANGED <<coordinatorVars, late, deviceVars>>
        /\ wire' = [wire EXCEPT ![p] = NoRequest]
        /\ answer' = [answer EXCEPT ![p] = Answer("Unreadable", EmptyReport)]
    BY <1>4 DEF DeviceRefuse, BarrierInv, TypeOK
  <2>2. Coherent(EmptyReport) /\ Leased(EmptyReport)
    BY DEF EmptyReport, Coherent, Leased, FirstLease
  <2>3. ASSUME NEW q \in Participants PROVE Chain(q)' /\ Authority(q)'
    <3>1. CASE q # p
      BY <1>4, <2>1, <3>1, ChainKept, AuthorityKept DEF OutcomeInv, coordinatorVars, deviceVars
    <3>2. CASE q = p
      <4>1. answer'[p].kind = "Unreadable" /\ answer'[p].report = EmptyReport
        BY <2>1 DEF Answer
      <4>2. Chain(q)'
        BY <1>4, <2>1, <2>2, <3>2, <4>1 DEF OutcomeInv, Chain, coordinatorVars, deviceVars
      <4>3. wire'[p].op \notin {"Install", "RenewLease"}
        BY <2>1 DEF NoRequest, Request
      <4>4. Authority(q)'
        BY <1>4, <2>1, <3>2, <4>3, AuthorityKept DEF OutcomeInv, coordinatorVars, deviceVars
      <4> QED BY <4>2, <4>4
    <3> QED BY <3>1, <3>2
  <2>4. Cleaning' /\ Targeted'
    BY <1>4, <2>1 DEF OutcomeInv, Cleaning, Targeted, Answer, coordinatorVars
  <2> QED BY <2>3, <2>4 DEF OutcomeInv
<1>5. ASSUME NEW p \in Participants, Elapse(p) PROVE OutcomeInv'
  BY <1>5 DEF Elapse, coordinatorVars, netVars, OutcomeInv, Chain, Authority, Targeted, Cleaning
<1>6. CASE UNCHANGED vars
  BY <1>6 DEF vars, coordinatorVars, netVars, deviceVars, OutcomeInv, Chain, Authority,
              Targeted, Cleaning
<1> QED BY <1>1, <1>2, <1>3, <1>4, <1>5, <1>6, OutcomeMoves DEF Next, DeviceNext

\* What the client knows, what it has authorized and what may still arrive fit the
\* devices, for any number of participants, losses and faults.
THEOREM OutcomeInvariant == Spec => []OutcomeInv
<1>1. BarrierInv /\ OutcomeInv /\ [Next]_vars => OutcomeInv'
  BY OutcomeInvNext
<1> QED BY <1>1, OutcomeInvInit, BarrierInvariant, PTL DEF Spec

-----------------------------------------------------------------------------
(* What follows: reports, leases and outcomes.                             *)

\* A report of this job, or of none, carries no more than the client authorized.
LEMMA AnswerValid ==
    ASSUME BarrierInv, OutcomeInv, NEW p \in Participants, answer[p].kind = "Report",
           answer[p].report.owner # "Foreign"
    PROVE  ValidReport(part[p], answer[p].report)
<1> DEFINE r == answer[p].report
<1> SUFFICES ASSUME part[p].bound, r.sched \notin {"None", "Prepared"}
             PROVE  MatchesCommit(part[p], r)
  BY DEF ValidReport
<1>1. /\ Coherent(r) /\ Leased(r) /\ Later(r, dev[p])
      /\ target /\ FirstLease <= part[p].authorized
      /\ ~Attended => part[p].authorized <= FirstLease
      /\ dev[p].commit = "Ours" => dev[p].lease <= part[p].authorized
  BY DEF OutcomeInv, Chain, Authority, FirstLease
<1>2. r \in Reports /\ dev[p].lease \in Nat /\ part[p].authorized \in Nat
  BY DEF BarrierInv, TypeOK, Answers, Reports, Machines
<1>3. r.commit = "Ours"
  BY <1>1, <1>2 DEF OutcomeInv, Targeted, Coherent, Reports
<1>4. dev[p].commit = "Ours" /\ r.lease <= dev[p].lease
  BY <1>1, <1>3 DEF Later, Coherent
<1>5. r.lease \in Nat /\ FirstLease <= r.lease /\ (~Attended => r.lease <= FirstLease)
  BY <1>1, <1>2, <1>3 DEF Leased, Reports, FirstLease
<1> QED BY <1>1, <1>2, <1>3, <1>4, <1>5 DEF MatchesCommit, FirstLease

\* A correct device is never accused, however much its lease and state moved on
\* behind the client's back.
THEOREM ReportsAccepted == Spec => []CorrectReportAccepted
<1>1. BarrierInv /\ OutcomeInv => CorrectReportAccepted
  <2> SUFFICES ASSUME BarrierInv, OutcomeInv, NEW p \in Participants,
                      answer[p].kind = "Report", answer[p].report.owner # "Foreign"
               PROVE  /\ ValidReport(part[p], answer[p].report)
                      /\ part[p].seen => ReportAdvances(part[p].report, answer[p].report)
    BY DEF CorrectReportAccepted
  <2>1. part[p].report \in Reports /\ answer[p].report \in Reports
    BY DEF BarrierInv, TypeOK, Machines, Answers
  <2>2. part[p].seen => ReportAdvances(part[p].report, answer[p].report)
    BY <2>1, LaterAdvances DEF OutcomeInv, Chain, BarrierInv, Known
  <2> QED BY <2>2, AnswerValid
<1> QED BY <1>1, BarrierInvariant, OutcomeInvariant, PTL

\* A lease on a device was recorded by the browser before it was asked for, and no
\* report that shows it is refused.
THEOREM LeasesAgree == Spec => []LeaseAgreed
<1>1. OutcomeInv => LeaseWithinAuthority
  BY DEF OutcomeInv, Authority, LeaseWithinAuthority
<1>2. LeaseWithinAuthority /\ CorrectReportAccepted => LeaseAgreed
  BY DEF LeaseAgreed
<1> QED BY <1>1, <1>2, OutcomeInvariant, ReportsAccepted, PTL

\* The phases of a participant that was seen with this job.
LEMMA SeenPhase ==
    ASSUME NEW m \in Machines, m.seen, m.report.owner # "None"
    PROVE  /\ PhaseOf(m) # "Empty"
           /\ PhaseOf(m) \in {"Aborted", "Expired", "Complete"} \cup PastGuard <=>
                 /\ m.report.actor \notin {"Faulted", "Cancelled"}
                 /\ m.report.sched \in {"Aborted", "Expired", "Complete"} \cup PastGuard
           /\ PhaseOf(m) \in {"Aborted", "Expired", "Complete"} \cup PastGuard =>
                 m.report.sched = PhaseOf(m)
<1>1. m.report.sched \in ScheduleStates
  BY DEF Machines, Reports
<1>2. CASE m.report.actor \in {"Faulted", "Cancelled"}
  <2>1. PhaseOf(m) = m.report.actor
    BY <1>2 DEF PhaseOf
  <2> QED BY <1>2, <2>1 DEF PastGuard
<1>3. CASE m.report.actor \notin {"Faulted", "Cancelled"}
  <2>1. PhaseOf(m) = ScheduledPhase(m)
    BY <1>3 DEF PhaseOf
  <2>2. CASE m.report.sched \in {"None", "Prepared"}
    <3>1. ScheduledPhase(m) \in {"Preparing", "Installing", "Ready"}
      BY <2>2 DEF ScheduledPhase
    <3> QED BY <2>1, <2>2, <3>1 DEF PastGuard
  <2>3. CASE m.report.sched \notin {"None", "Prepared"}
    <3>1. ScheduledPhase(m) = m.report.sched
      BY <2>3 DEF ScheduledPhase
    <3> QED BY <1>1, <1>3, <2>1, <3>1 DEF ScheduleStates
  <2> QED BY <2>2, <2>3
<1> QED BY <1>2, <1>3

\* Which intent a phase stands for.
LEMMA PhaseOrigin ==
    ASSUME intent \in Intents
    PROVE  /\ GlobalPhase = "Complete" => Every({"Complete"})
           /\ GlobalPhase = "Aborted" =>
                 /\ intent = "Abort" /\ ~CleanedUp
                 /\ \A p \in Participants : SafeAfterAbort(p)
           /\ GlobalPhase = "SplitAfterAbort" => intent = "Abort" /\ SplitAfterAbort
           /\ GlobalPhase = "Cancelled" =>
                 intent = "Cancel" /\ ~CleanedUp /\ Every({"Empty", "Cancelled"})
           /\ GlobalPhase = "Irrevocable" =>
                 intent \in {"Install", "Confirm", "Abort"} /\ Some(PastGuard)
<1>1. PreparePhase \in {"Preparing", "Ready", "Faulted"}
  BY DEF PreparePhase
<1>2. InstallPhase \in {"Installed", "Faulted", "Irrevocable", "Installing"}
      /\ (InstallPhase = "Irrevocable" => Some(PastGuard))
  BY DEF InstallPhase
<1>3. ConfirmPhase \in {"Confirmed", "Irrevocable", "Faulted", "Confirming"}
      /\ (ConfirmPhase = "Irrevocable" => Some(PastGuard))
  BY DEF ConfirmPhase
<1>4. /\ AbortPhase \in {"Faulted", "Aborted", "SplitAfterAbort", "Irrevocable", "Aborting"}
      /\ AbortPhase = "Aborted" => ~CleanedUp /\ \A p \in Participants : SafeAfterAbort(p)
      /\ AbortPhase = "SplitAfterAbort" => SplitAfterAbort
      /\ AbortPhase = "Irrevocable" => Some(PastGuard)
  BY DEF AbortPhase
<1>5. /\ CancelPhase \in {"Faulted", "Cancelled", "Cancelling"}
      /\ CancelPhase = "Cancelled" => ~CleanedUp /\ Every({"Empty", "Cancelled"})
  BY DEF CancelPhase
<1>6. \/ Every({"Complete"}) /\ GlobalPhase = "Complete"
      \/ intent = "Prepare" /\ GlobalPhase = PreparePhase
      \/ intent = "Install" /\ GlobalPhase = InstallPhase
      \/ intent = "Confirm" /\ GlobalPhase = ConfirmPhase
      \/ intent = "Abort" /\ GlobalPhase = AbortPhase
      \/ intent = "Cancel" /\ GlobalPhase = CancelPhase
  BY DEF GlobalPhase, Intents
<1> QED BY <1>1, <1>2, <1>3, <1>4, <1>5, <1>6

\* A report that shows an end is as good as a look at the device.
LEMMA EndSeen ==
    ASSUME BarrierInv, OutcomeInv, NEW p \in Participants, part[p].seen,
           part[p].report.owner # "None",
           Phase(p) \in {"Aborted", "Expired", "Complete", "Cancelled", "Faulted"}
    PROVE  /\ Quiescent(dev[p])
           /\ dev[p].sched = "Complete" => Phase(p) = "Complete"
           /\ Phase(p) = "Complete" => dev[p].sched = "Complete"
<1>1. part[p] \in Machines /\ part[p].report \in Reports
  BY DEF BarrierInv, TypeOK, Machines
<1>2. part[p].report.owner = "This"
  BY <1>1 DEF BarrierInv, Known, Reports
<1>3. Later(part[p].report, dev[p]) /\ Coherent(part[p].report)
  BY DEF OutcomeInv, Chain
<1>4. CASE Phase(p) \in {"Aborted", "Expired", "Complete"}
  <2>1. part[p].report.sched = Phase(p)
    BY <1>1, <1>4, SeenPhase DEF Phase
  <2>2. Quiescent(part[p].report)
    BY <1>4, <2>1 DEF Quiescent
  <2>3. Phase(p) = "Complete" => part[p].report.commit # "None"
    BY <1>3, <2>1 DEF Coherent
  <2>4. Phase(p) = "Complete" => dev[p].sched = "Complete"
    BY <1>2, <1>3, <2>1, <2>3 DEF Later, LaterStates
  <2> QED BY <1>2, <1>3, <2>1, <2>2, <2>4 DEF Later
<1>5. CASE Phase(p) \in {"Cancelled", "Faulted"}
  <2>1. Lapsed(part[p])
    BY <1>1, <1>5, LapsedPhase DEF Phase
  <2>2. Quiescent(part[p].report) /\ part[p].report.sched # "Complete"
    BY <1>3, <2>1 DEF Lapsed, Quiescent, Coherent
  <2> QED BY <1>2, <1>3, <1>5, <2>2 DEF Later
<1> QED BY <1>4, <1>5

LEMMA OutcomeTrue ==
    ASSUME BarrierInv, OutcomeInv
    PROVE  OutcomeIsTrue
<1>0. intent \in Intents /\ part \in [Participants -> Machines]
  BY DEF BarrierInv, TypeOK
<1>1. target => \A p \in Participants :
        part[p].seen /\ part[p].report.owner # "None" /\ Phase(p) # "Empty"
  BY <1>0, SeenPhase DEF OutcomeInv, Targeted, Phase
<1>2. ASSUME GlobalPhase = "Aborted", NEW p \in Participants
      PROVE  Quiescent(dev[p]) /\ dev[p].sched # "Complete"
  <2>1. target /\ Phase(p) \in {"Aborted", "Expired", "Cancelled", "Faulted"}
    BY <1>0, <1>1, <1>2, PhaseOrigin DEF SafeAfterAbort, OutcomeInv, Targeted
  <2> QED BY <1>1, <2>1, EndSeen
<1>3. ASSUME GlobalPhase = "SplitAfterAbort", NEW p \in Participants
      PROVE  Quiescent(dev[p])
  <2>1. target /\ Phase(p) \in {"Aborted", "Expired", "Complete"}
    BY <1>0, <1>3, PhaseOrigin DEF SplitAfterAbort, Every, OutcomeInv, Targeted
  <2> QED BY <1>1, <2>1, EndSeen
<1>4. ASSUME GlobalPhase = "Complete", NEW p \in Participants
      PROVE  dev[p].sched = "Complete"
  <2>1. Phase(p) = "Complete"
    BY <1>0, <1>4, PhaseOrigin DEF Every
  <2>2. part[p].seen /\ part[p].report.owner # "None"
    BY <1>0, <2>1 DEF Phase, PhaseOf, Machines
  <2> QED BY <2>1, <2>2, EndSeen
<1> QED BY <1>2, <1>3, <1>4 DEF OutcomeIsTrue

\* While a cleanup runs, what would be a clean end is a finished cleanup.
LEMMA FaultShown ==
    ASSUME BarrierInv, OutcomeInv
    PROVE  FaultIsRemembered
<1>0. intent \in Intents /\ part \in [Participants -> Machines]
  BY DEF BarrierInv, TypeOK
<1> SUFFICES ASSUME cleanup
             PROVE  GlobalPhase \notin {"Aborted", "Cancelled", "SplitAfterAbort", "Complete"}
  BY DEF FaultIsRemembered
<1>1. PICK q \in Participants : Phase(q) \in {"Faulted", "Cancelled"}
  BY <1>0, LapsedPhase DEF OutcomeInv, Cleaning, Phase
<1>2. GlobalPhase # "Complete"
  BY <1>0, <1>1, PhaseOrigin DEF Every
<1>3. GlobalPhase # "SplitAfterAbort"
  BY <1>0, <1>1, PhaseOrigin DEF SplitAfterAbort, Every
<1>4. GlobalPhase # "Aborted"
  <2> SUFFICES ASSUME GlobalPhase = "Aborted" PROVE FALSE
    OBVIOUS
  <2>1. \A p \in Participants : SafeAfterAbort(p) => TerminalAfterCleanup(p)
    BY DEF SafeAfterAbort, TerminalAfterCleanup
  <2> QED BY <1>0, <2>1, PhaseOrigin DEF CleanedUp
<1>5. GlobalPhase # "Cancelled"
  <2> SUFFICES ASSUME GlobalPhase = "Cancelled" PROVE FALSE
    OBVIOUS
  <2>1. intent = "Cancel" /\ ~CleanedUp /\ Every({"Empty", "Cancelled"})
    BY <1>0, PhaseOrigin
  <2>2. \A p \in Participants : ~part[p].bound
    BY <2>1 DEF OutcomeInv, Targeted, Authority
  <2>3. \A p \in Participants : TerminalAfterCleanup(p)
    BY <2>1, <2>2 DEF Every, TerminalAfterCleanup
  <2> QED BY <2>1, <2>3 DEF CleanedUp
<1> QED BY <1>2, <1>3, <1>4, <1>5

\* The outcome that is shown is what the devices do, and a fault is never repainted.
THEOREM OutcomesAreTrue == Spec => []OutcomesHold
<1>1. BarrierInv /\ OutcomeInv => OutcomesHold
  BY OutcomeTrue, FaultShown DEF OutcomesHold
<1> QED BY <1>1, BarrierInvariant, OutcomeInvariant, PTL

\* Under a stop the coordinator only inspects, aborts and cancels.
LEMMA StopOperations ==
    ASSUME NEW p, NEW i \in {"Abort", "Cancel"}
    PROVE  Operation(p, i) \notin {"Prepare", "Install", "Confirm"}
<1>1. CancelOperation(p) \in {"None", "Cancel", "Error"}
  BY DEF CancelOperation
<1>2. AbortOperation(p) \in {"None", "Abort", "Cancel", "Error"}
  BY <1>1 DEF AbortOperation
<1> QED BY <1>1, <1>2 DEF Operation, IntentOperation

LEMMA StopStep ==
    ASSUME BarrierInv, OutcomeInv, [Next]_vars, intent \in {"Abort", "Cancel"}
    PROVE  intent' = intent /\ \A p \in Participants : ~Starts(p)
<1> USE DEF BarrierInv, TypeOK
<1>0. target <=> intent = "Abort"
  BY DEF OutcomeInv, Targeted
<1>1. CASE BindStart
  BY <1>1, ReadySeen DEF BindStart
<1>2. CASE BeginConfirmation
  BY <1>2, InstalledPhase DEF BeginConfirmation
<1>3. CASE BeginAbort \/ BeginCancel
  BY <1>0, <1>3 DEF BeginAbort, CanAbort, BeginCancel, CanCancel, netVars, Starts
<1>4. CASE BeginStatusRound
  BY <1>4 DEF BeginStatusRound, Starts, Request
<1>5. ASSUME NEW leases \in Leases, BeginLeaseRenewal(leases)
      PROVE  intent' = intent /\ \A p \in Participants : ~Starts(p)
  BY <1>5 DEF BeginLeaseRenewal, Starts, Request
<1>6. ASSUME NEW p \in Participants, NextRequest(p)
      PROVE  intent' = intent /\ \A q \in Participants : ~Starts(q)
  <2>1. wire' = [wire EXCEPT ![p] = Request(Operation(p, intent), 0)] /\ intent' = intent
    BY <1>6 DEF NextRequest, RequestUnder, Send
  <2>2. Operation(p, intent) \notin {"Prepare", "Install", "Confirm"}
    BY StopOperations
  <2> QED BY <2>1, <2>2 DEF Starts, Request
<1>7. ASSUME NEW p \in Participants, AcceptResponse(p)
      PROVE  intent' = intent /\ \A q \in Participants : ~Starts(q)
  <2>1. wire' = wire /\ intent' \in {intent, IF target THEN "Abort" ELSE "Cancel"}
    BY <1>7 DEF AcceptResponse, FaultCleanup
  <2> QED BY <1>0, <2>1 DEF Starts
<1>8. ASSUME NEW p \in Participants,
             AbandonPending(p) \/ DeviceExecute(p) \/ DeviceRefuse(p)
      PROVE  intent' = intent /\ \A q \in Participants : ~Starts(q)
  BY <1>8 DEF AbandonPending, DeviceExecute, DeviceRefuse, coordinatorVars, NoRequest, Request,
              Starts
<1>9. ASSUME NEW p \in Participants,
             DeviceExecuteLate(p) \/ DeviceProgress(p) \/ DeviceFault(p) \/ Elapse(p)
      PROVE  intent' = intent /\ \A q \in Participants : ~Starts(q)
  BY <1>9 DEF DeviceExecuteLate, DeviceProgress, DeviceFault, Elapse, coordinatorVars, netVars,
              Starts
<1>10. CASE UNCHANGED vars
  BY <1>10 DEF vars, coordinatorVars, netVars, Starts
<1> QED BY <1>1, <1>2, <1>3, <1>4, <1>5, <1>6, <1>7, <1>8, <1>9, <1>10
       DEF Next, CoordinatorNext, DeviceNext

\* A phase past the guard depends on the report alone,
LEMMA GuardKept ==
    ASSUME NEW m \in Machines, NEW n \in Machines, PhaseOf(m) \in PastGuard,
           n.report = m.report, n.seen = m.seen
    PROVE  PhaseOf(n) \in PastGuard
<1>1. m.seen /\ m.report.owner # "None"
  BY DEF PhaseOf, Machines, PastGuard
<1>2. PhaseOf(m) = m.report.sched /\ m.report.actor \notin {"Faulted", "Cancelled"}
  BY <1>1, SeenPhase
<1> QED BY <1>1, <1>2 DEF PhaseOf, ScheduledPhase, PastGuard

\* and is followed by phases past the guard, or a fault.
LEMMA GuardAccept ==
    ASSUME BarrierInv, OutcomeInv, NEW p \in Participants, NEW m \in Machines,
           m = Accept(part[p], answer[p].kind = "Report", answer[p].report),
           Phase(p) \in PastGuard
    PROVE  PhaseOf(m) \in PastGuard \cup {"Faulted"}
<1>0. part[p] \in Machines /\ part[p].report \in Reports /\ answer[p].report \in Reports
  BY DEF BarrierInv, TypeOK, Machines, Answers
<1>1. part[p].seen /\ part[p].report.owner # "None"
  BY <1>0 DEF Phase, PhaseOf, Machines, PastGuard
<1>2. part[p].report.sched \in PastGuard /\ part[p].report.owner = "This"
  BY <1>0, <1>1, SeenPhase DEF Phase, BarrierInv, Known, Reports
<1>3. CASE m.report = part[p].report /\ m.seen = part[p].seen
  BY <1>0, <1>3, GuardKept DEF Phase
<1>4. CASE m.report = answer[p].report /\ m.seen = TRUE /\ answer[p].kind = "Report"
  <2>1. /\ Later(part[p].report, m.report) /\ Coherent(part[p].report)
        /\ Coherent(m.report) /\ m.report \in Reports
    BY <1>0, <1>1, <1>4 DEF OutcomeInv, Chain
  <2>2. part[p].report.commit # "None"
    BY <1>2, <2>1 DEF Coherent, PastGuard
  <2>3. /\ m.report.owner = "This" /\ m.report.commit # "None"
        /\ m.report.sched \in PastGuard \cup {"Faulted"}
    BY <1>2, <2>1, <2>2 DEF Later, LaterStates, PastGuard
  <2>4. m.report.actor \in {"Ready", "Faulted"}
    BY <2>1, <2>3 DEF Coherent
  <2> QED BY <1>4, <2>3, <2>4 DEF PhaseOf, ScheduledPhase, PastGuard
<1> QED BY <1>1, <1>3, <1>4, AcceptLearns

\* Somebody is past the guard of a bound job, or its fault is being cleaned up.
PastOrCleaned ==
    \/ intent \in {"Install", "Confirm", "Abort"} /\ Some(PastGuard)
    \/ intent = "Abort" /\ cleanup

Irreversible ==
    \/ GlobalPhase \in {"Irrevocable", "Complete", "SplitAfterAbort", "Faulted"}
    \/ GlobalPhase = "Aborting" /\ cleanup

\* No phase is mild then.
LEMMA PastPhase == FaultIsRemembered /\ PastOrCleaned => Irreversible
<1> SUFFICES ASSUME FaultIsRemembered, PastOrCleaned PROVE Irreversible
  OBVIOUS
<1>1. CASE intent \in {"Install", "Confirm", "Abort"} /\ Some(PastGuard)
  <2>1. PICK q \in Participants : Phase(q) \in PastGuard
    BY <1>1 DEF Some
  <2>2. InstallPhase \in {"Faulted", "Irrevocable"}
    BY <1>1, <2>1 DEF InstallPhase, Every, PastGuard
  <2>3. ConfirmPhase = "Irrevocable"
    BY <1>1, <2>1 DEF ConfirmPhase, Every, PastGuard
  <2>4. ~SafeAfterAbort(q)
    BY <2>1 DEF SafeAfterAbort, PastGuard
  <2>5. AbortPhase \in {"Faulted", "SplitAfterAbort", "Irrevocable"}
    BY <1>1, <2>4 DEF AbortPhase
  <2> QED BY <1>1, <2>2, <2>3, <2>5 DEF GlobalPhase, Irreversible
<1>2. CASE intent = "Abort" /\ cleanup
  BY <1>2 DEF FaultIsRemembered, GlobalPhase, AbortPhase, Irreversible
<1> QED BY <1>1, <1>2 DEF PastOrCleaned

LEMMA IrrevocableStep ==
    ASSUME BarrierInv, OutcomeInv, [Next]_vars, GlobalPhase = "Irrevocable"
    PROVE  PastOrCleaned'
<1>0. /\ intent \in {"Install", "Confirm", "Abort"} /\ Some(PastGuard) /\ target
      /\ part \in [Participants -> Machines] /\ intent \in Intents
  BY PhaseOrigin DEF BarrierInv, TypeOK, NoPriorOnceBound, OutcomeInv, Targeted
<1>1. PICK q \in Participants : Phase(q) \in PastGuard
  BY <1>0 DEF Some
<1>2. BarrierInv' /\ OutcomeInv' /\ part' \in [Participants -> Machines]
  BY BarrierInvNext, OutcomeInvNext DEF BarrierInv, TypeOK
<1>3. intent' = intent \/ intent' = "Abort"
  <2>1. ~BindStart /\ ~BeginConfirmation /\ ~BeginCancel
    BY <1>0 DEF BindStart, BeginConfirmation, BeginCancel, CanCancel
  <2>2. ASSUME NEW p \in Participants, AcceptResponse(p) PROVE intent' \in {intent, "Abort"}
    BY <1>0, <2>2 DEF AcceptResponse, FaultCleanup
  <2>3. CASE BeginAbort
    BY <2>3 DEF BeginAbort
  <2>4. CASE BeginStatusRound \/ \E leases \in Leases : BeginLeaseRenewal(leases)
    BY <2>4 DEF BeginStatusRound, BeginLeaseRenewal
  <2>5. ASSUME NEW p \in Participants, NextRequest(p) \/ AbandonPending(p) \/ DeviceNext(p)
        PROVE  intent' = intent
    BY <2>5 DEF NextRequest, AbandonPending, DeviceNext, DeviceExecute, DeviceRefuse,
                DeviceExecuteLate, DeviceProgress, DeviceFault, Elapse, coordinatorVars
  <2>6. CASE UNCHANGED vars
    BY <2>6 DEF vars, coordinatorVars
  <2> QED BY <2>1, <2>2, <2>3, <2>4, <2>5, <2>6 DEF Next, CoordinatorNext
<1>4. ASSUME part'[q].report = part[q].report, part'[q].seen = part[q].seen
      PROVE  PastOrCleaned'
  <2>1. PhaseOf(part'[q]) \in PastGuard
    BY <1>0, <1>1, <1>2, <1>4, GuardKept DEF Phase
  <2> QED BY <1>0, <1>3, <2>1 DEF PastOrCleaned, Some, Phase
<1>5. CASE AcceptResponse(q)
  <2>1. PICK m : m = Accept(part[q], answer[q].kind = "Report", answer[q].report)
    OBVIOUS
  <2>2. part'[q] = m
    BY <1>0, <1>5, <2>1 DEF AcceptResponse
  <2>3. PhaseOf(part'[q]) \in PastGuard \cup {"Faulted"}
    BY <1>1, <1>2, <2>1, <2>2, GuardAccept
  <2>4. CASE PhaseOf(part'[q]) = "Faulted"
    <3>1. cleanup' = TRUE /\ intent' = "Abort"
      BY <1>0, <1>5, <2>4 DEF AcceptResponse, FaultCleanup
    <3> QED BY <3>1 DEF PastOrCleaned
  <2>5. CASE PhaseOf(part'[q]) \in PastGuard
    BY <1>0, <1>3, <2>5 DEF PastOrCleaned, Some, Phase
  <2> QED BY <2>3, <2>4, <2>5
<1>6. ASSUME ~AcceptResponse(q)
      PROVE  part'[q].report = part[q].report /\ part'[q].seen = part[q].seen
  <2>1. CASE BeginStatusRound
    BY <1>0, <2>1 DEF BeginStatusRound, Begin, Machines
  <2>2. ASSUME NEW leases \in Leases, BeginLeaseRenewal(leases)
        PROVE  part'[q].report = part[q].report /\ part'[q].seen = part[q].seen
    BY <1>0, <2>2 DEF BeginLeaseRenewal, BeginRenew, Machines
  <2>3. ASSUME NEW p \in Participants, NextRequest(p)
        PROVE  part'[q].report = part[q].report /\ part'[q].seen = part[q].seen
    BY <1>0, <2>3 DEF NextRequest, RequestUnder, Begin, Machines
  <2>4. ASSUME NEW p \in Participants, AcceptResponse(p)
        PROVE  part'[q].report = part[q].report /\ part'[q].seen = part[q].seen
    BY <1>0, <1>6, <2>4 DEF AcceptResponse
  <2>5. ASSUME NEW p \in Participants, AbandonPending(p)
        PROVE  part'[q].report = part[q].report /\ part'[q].seen = part[q].seen
    BY <1>0, <2>5 DEF AbandonPending, Abandon, Taken, Machines
  <2>6. CASE BindStart \/ BeginConfirmation \/ BeginAbort \/ BeginCancel \/ UNCHANGED vars
    BY <2>6 DEF BindStart, BeginConfirmation, BeginAbort, BeginCancel, vars, coordinatorVars
  <2>7. ASSUME NEW p \in Participants, DeviceNext(p)
        PROVE  part'[q].report = part[q].report /\ part'[q].seen = part[q].seen
    BY <2>7 DEF DeviceNext, DeviceExecute, DeviceRefuse, DeviceExecuteLate, DeviceProgress,
                DeviceFault, Elapse, coordinatorVars
  <2> QED BY <2>1, <2>2, <2>3, <2>4, <2>5, <2>6, <2>7 DEF Next, CoordinatorNext
<1> QED BY <1>4, <1>5, <1>6

\* A stop is final: nobody is started after it, and it is not taken back.  So is the
\* point of no return: what is past its guard never looks abortable or aborted again,
\* unless its fault is being cleaned up.
THEOREM EndsFinal == Spec => EndsAreFinal
<1>1. BarrierInv /\ OutcomeInv /\ [Next]_vars =>
        ((intent \in {"Abort", "Cancel"}) =>
            (intent' = intent /\ \A p \in Participants : ~Starts(p)))
  BY StopStep
<1>2. Spec => StopIsFinal
  BY <1>1, BarrierInvariant, OutcomeInvariant, PTL DEF Spec, StopIsFinal
<1>3. BarrierInv /\ OutcomeInv /\ [Next]_vars /\ GlobalPhase = "Irrevocable" => PastOrCleaned'
  BY IrrevocableStep
<1>4. BarrierInv /\ OutcomeInv => FaultIsRemembered
  BY FaultShown
<1>5. Irreversible' =>
        \/ GlobalPhase' \in {"Irrevocable", "Complete", "SplitAfterAbort", "Faulted"}
        \/ GlobalPhase' = "Aborting" /\ cleanup'
  BY DEF Irreversible
<1>6. Spec => IrrevocableIsFinal
  BY <1>3, <1>4, <1>5, PastPhase, BarrierInvariant, OutcomeInvariant, PTL
     DEF Spec, IrrevocableIsFinal
<1> QED BY <1>2, <1>6 DEF EndsAreFinal

-----------------------------------------------------------------------------
(* The job of the program: the invariant.                                   *)

\* What is queued was decided before, by everybody's machine.
Decided(r, machines) ==
    /\ r.to \in Participants
    /\ \/ r.op = "Status"
       \/ r.op = "RenewLease" /\ Attended /\ r.lease <= machines[r.to].authorized

QueueDecided == \A i \in 1 .. Len(queue) : Decided(queue[i], part)

\* A start that was asked for is still possible when it begins, and a sweep that is due
\* has nothing queued before it.
NothingBetween ==
    /\ startAsked => ~Busy /\ ~caching /\ GlobalPhase = "Ready"
    /\ sweep => queue = <<>>
    /\ intent = "Prepare" => ~target

JobState ==
    /\ queue \in Seq(Queued)
    /\ sweep \in BOOLEAN /\ stop \in BOOLEAN
    /\ override \in {"None", "Cancelled", "Faulted"}
    /\ caching \in BOOLEAN /\ startAsked \in BOOLEAN

JobInv == JobState /\ QueueDecided /\ NothingBetween

-----------------------------------------------------------------------------
(* The steps the coordinator does not have.                                *)

\* A fault of the job itself leaves coordinator, network and devices alone.
LEMMA JobFault ==
    ASSUME BarrierInv, OutcomeInv, UNCHANGED <<coordinatorVars, netVars, deviceVars>>,
           faults' \in Nat
    PROVE  BarrierInv' /\ OutcomeInv'
<1>1. UNCHANGED <<part, intent, target, cleanup, wire, answer, late, dev, epoch>>
  BY DEF coordinatorVars, netVars, deviceVars
<1>2. TypeOK' /\ NoPriorOnceBound' /\ ConfirmCovered'
  BY <1>1 DEF BarrierInv, TypeOK, NoPriorOnceBound, ConfirmCovered
<1>3. \A p \in Participants : Known(p)'
  BY <1>1, KnownKept DEF BarrierInv
<1>4. OutcomeInv'
  BY <1>1 DEF OutcomeInv, Chain, Authority, Targeted, Cleaning
<1> QED BY <1>2, <1>3, <1>4 DEF BarrierInv

\* Only status requests go out, or renewals that everybody's machine has recorded.
LEMMA RoundKeeps ==
    ASSUME BarrierInv, OutcomeInv,
           UNCHANGED <<intent, target, cleanup, answer, late, dev, epoch, faults>>,
           part' \in [Participants -> Machines], wire' \in [Participants -> Requests],
           \A p \in Participants :
              /\ part'[p].report = part[p].report /\ part'[p].seen = part[p].seen
              /\ part'[p].bound = part[p].bound
              /\ \/ part'[p].authorized = part[p].authorized
                 \/ /\ Attended /\ part'[p].authorized >= part[p].authorized
                    /\ part[p].report.owner = "This"
                    /\ part[p].report.sched \notin {"None", "Prepared"}
              /\ \/ wire'[p] = wire[p]
                 \/ wire'[p].op = "Status"
                 \/ /\ wire'[p].op = "RenewLease" /\ Attended
                    /\ wire'[p].lease <= part'[p].authorized
    PROVE  BarrierInv' /\ OutcomeInv'
<1>1. TypeOK' /\ NoPriorOnceBound' /\ ConfirmCovered'
  BY DEF BarrierInv, TypeOK, NoPriorOnceBound, ConfirmCovered
<1>2. \A p \in Participants : Known(p)'
  BY KnownKept DEF BarrierInv
<1>3. ASSUME NEW p \in Participants PROVE Chain(p)' /\ Authority(p)'
  <2>1. Chain(p)'
    BY ChainKept DEF OutcomeInv
  <2>2. Authority(p)
    BY DEF OutcomeInv
  <2>3. /\ part[p].authorized \in Nat /\ part'[p].authorized \in Nat /\ dev[p].lease \in Nat
        /\ \A q \in late[p] \cup {wire[p]} : q.lease \in Nat
    BY DEF BarrierInv, TypeOK, Machines, Reports, Requests
  <2>4. part[p].authorized <= part'[p].authorized
    BY <2>3
  <2>5. ASSUME NEW q \in late[p] \cup {wire[p]}
        PROVE  /\ q.op = "Install" => part[p].bound
               /\ q.op = "RenewLease" => Attended /\ q.lease <= part'[p].authorized
    <3>1. /\ q.op = "Install" => part[p].bound
          /\ q.op = "RenewLease" => Attended /\ q.lease <= part[p].authorized
      BY <2>2 DEF Authority
    <3> QED BY <2>3, <2>4, <3>1
  <2>6. \A q \in late'[p] \cup {wire'[p]} :
           /\ q.op = "Install" => part'[p].bound
           /\ q.op = "RenewLease" => Attended /\ q.lease <= part'[p].authorized
    BY <2>5
  <2>7. /\ part'[p].bound => target' /\ part'[p].authorized >= FirstLease
        /\ dev'[p].commit = "Ours" => part'[p].bound /\ dev'[p].lease <= part'[p].authorized
    BY <2>2, <2>3, <2>4 DEF Authority, FirstLease
  <2>8. /\ ~Attended => part'[p].authorized <= FirstLease
        /\ part'[p].authorized > FirstLease =>
             part'[p].report.owner = "This" /\ part'[p].report.sched \notin {"None", "Prepared"}
    BY <2>2 DEF Authority
  <2> QED BY <2>1, <2>6, <2>7, <2>8 DEF Authority
<1>4. Targeted' /\ Cleaning'
  BY LapsedKept DEF OutcomeInv, Targeted
<1> QED BY <1>1, <1>2, <1>3, <1>4 DEF BarrierInv, OutcomeInv

\* A participant's request is lost, and with it those queued behind it.
LEMMA DrainKeeps ==
    ASSUME BarrierInv, OutcomeInv, JobInv, NEW p \in Participants, FetchFailed(p)
    PROVE  BarrierInv' /\ OutcomeInv'
<1>0. /\ faults' = faults + 1 /\ faults' \in Nat
      /\ part' = Drained([part EXCEPT ![p] = Abandon(part[p])])
      /\ wire' = [wire EXCEPT ![p] = NoRequest]
      /\ answer' = [answer EXCEPT ![p] = NoAnswer]
      /\ late' = IF wire[p].op \in Operations /\ Mutates(wire[p].op)
                   THEN [late EXCEPT ![p] = @ \cup {wire[p]}] ELSE late
      /\ UNCHANGED <<intent, target, cleanup, dev, epoch>>
  BY DEF FetchFailed, deviceVars, BarrierInv, TypeOK
<1>1. /\ part \in [Participants -> Machines] /\ wire \in [Participants -> Requests]
      /\ answer \in [Participants -> Answers] /\ late \in [Participants -> SUBSET Requests]
  BY DEF BarrierInv, TypeOK
<1>2. ASSUME NEW m \in Machines
      PROVE  /\ Abandon(m) \in Machines
             /\ Abandon(m).report = m.report /\ Abandon(m).seen = m.seen
             /\ Abandon(m).bound = m.bound /\ Abandon(m).authorized = m.authorized
  BY AbandonType DEF Abandon, Taken, Machines
<1>3. PICK machines : machines = [part EXCEPT ![p] = Abandon(part[p])]
  OBVIOUS
<1>4. /\ machines \in [Participants -> Machines]
      /\ \A q \in Participants :
           /\ machines[q].report = part[q].report /\ machines[q].seen = part[q].seen
           /\ machines[q].bound = part[q].bound /\ machines[q].authorized = part[q].authorized
  BY <1>1, <1>2, <1>3
<1>5. part' = [q \in Participants |-> IF \E i \in 1 .. Len(queue) : queue[i].to = q
                                        THEN Abandon(machines[q]) ELSE machines[q]]
  BY <1>0, <1>3 DEF Drained
<1>6. \A q \in Participants : part'[q] = Abandon(machines[q]) \/ part'[q] = machines[q]
  BY <1>5
<1>7. part' \in [Participants -> Machines]
  BY <1>2, <1>4, <1>5
<1>8. \A q \in Participants :
           /\ part'[q].report = part[q].report /\ part'[q].seen = part[q].seen
           /\ part'[q].bound = part[q].bound /\ part'[q].authorized = part[q].authorized
  BY <1>2, <1>4, <1>6
<1>9. /\ NoRequest \in Requests /\ NoRequest.op = "None"
      /\ NoAnswer \in Answers /\ NoAnswer.kind = "None" /\ NoAnswer.report = EmptyReport
  BY EmptyType DEF NoAnswer, Answer, Answers, NoRequest, Request, Requests
<1>10. /\ answer' \in [Participants -> Answers] /\ wire' \in [Participants -> Requests]
       /\ late' \in [Participants -> SUBSET Requests]
  BY <1>0, <1>1, <1>9
<1>11. \A q \in Participants : /\ late'[q] \subseteq late[q] \cup {wire[q]}
                               /\ wire'[q] \in {wire[q], NoRequest}
                               /\ answer'[q] \in {answer[q], NoAnswer}
  BY <1>0, <1>1
<1>12. TypeOK' /\ NoPriorOnceBound'
  BY <1>0, <1>7, <1>10 DEF BarrierInv, TypeOK, NoPriorOnceBound
<1>13. ConfirmCovered'
  BY <1>0, <1>9, <1>11 DEF BarrierInv, ConfirmCovered
<1>14. ASSUME NEW q \in Participants PROVE Known(q)'
  <2>1. Bounds(answer'[q].report, dev[q])
    BY <1>9, <1>11 DEF BarrierInv, Known, EmptyReport, Bounds
  <2> QED BY <1>0, <1>8, <2>1 DEF BarrierInv, Known
<1>15. ASSUME NEW q \in Participants PROVE Chain(q)' /\ Authority(q)'
  <2>1. Coherent(EmptyReport) /\ Leased(EmptyReport)
    BY DEF EmptyReport, Coherent, Leased, FirstLease
  <2>2. /\ dev'[q] = dev[q] /\ target' = target /\ Chain(q) /\ Authority(q)
        /\ part'[q].report = part[q].report /\ part'[q].seen = part[q].seen
        /\ part'[q].bound = part[q].bound /\ part'[q].authorized = part[q].authorized
    BY <1>0, <1>8 DEF OutcomeInv
  <2>3. answer'[q] = answer[q] => Chain(q)'
    BY <2>2, ChainKept
  <2>4. answer'[q] = NoAnswer => Chain(q)'
    BY <1>9, <2>1, <2>2 DEF Chain
  <2>5. \A r \in late'[q] \cup {wire'[q]} :
            r \in late[q] \cup {wire[q]} \/ r.op \notin {"Install", "RenewLease"}
    BY <1>9, <1>11
  <2>6. Authority(q)'
    BY <2>2, <2>5, AuthorityKept
  <2> QED BY <1>11, <2>3, <2>4, <2>6
<1>16. Cleaning'
  BY <1>0, <1>8, LapsedKept DEF OutcomeInv
<1>17. Targeted'
  BY <1>0, <1>8, <1>9, <1>11 DEF OutcomeInv, Targeted
<1> QED BY <1>12, <1>13, <1>14, <1>15, <1>16, <1>17 DEF BarrierInv, OutcomeInv

-----------------------------------------------------------------------------
(* Rounds, sent one request at a time.                                     *)

LEMMA IntervalEnds ==
    ASSUME NEW m \in Nat, NEW n \in Nat, 1 .. m = 1 .. n
    PROVE  m = n
<1>1. ASSUME NEW a \in Nat, NEW b \in Nat, 1 .. a = 1 .. b PROVE a <= b
  <2>1. CASE a = 0
    BY <2>1
  <2>2. CASE a >= 1
    <3>1. a \in 1 .. a
      BY <2>2
    <3>2. a \in 1 .. b
      BY <1>1, <3>1
    <3> QED BY <3>2
  <2> QED BY <2>1, <2>2
<1>2. m <= n /\ n <= m
  BY <1>1
<1> QED BY <1>2

LEMMA RoundQueue ==
    ASSUME NEW op \in Operations, NEW leases \in [Participants -> Nat]
    PROVE  /\ ToEach(op, leases) \in Seq(Queued) /\ ToEach(op, leases) # <<>>
           /\ Len(ToEach(op, leases)) = N
           /\ \A i \in 1 .. N : ToEach(op, leases)[i] = [to |-> i, op |-> op, lease |-> leases[i]]
<1>1. PICK q : q = ToEach(op, leases)
  OBVIOUS
<1>2. q = [i \in 1 .. N |-> [to |-> i, op |-> op, lease |-> leases[i]]]
  BY <1>1 DEF ToEach
<1>3. q \in [1 .. N -> Queued]
  BY <1>2 DEF Queued, Participants
<1>4. q \in Seq(Queued)
  BY <1>3, SeqDef, ParticipantAssumption
<1>5. Len(q) \in Nat /\ DOMAIN q = 1 .. Len(q)
  BY <1>4, LenProperties
<1>6. 1 .. Len(q) = 1 .. N
  BY <1>3, <1>5
<1>7. Len(q) = N
  BY <1>5, <1>6, IntervalEnds, ParticipantAssumption
<1>8. q # <<>>
  <2>1. Len(<<>>) = 0 /\ N # 0
    BY EmptySeq, ParticipantAssumption
  <2> QED BY <1>7, <2>1
<1>9. \A i \in 1 .. N : q[i] = [to |-> i, op |-> op, lease |-> leases[i]]
  BY <1>2
<1> QED BY <1>1, <1>4, <1>7, <1>8, <1>9

LEMMA QueueHead ==
    ASSUME NEW q \in Seq(Queued), q # <<>>
    PROVE  /\ 1 \in 1 .. Len(q) /\ Head(q) = q[1] /\ Head(q) \in Queued
           /\ Tail(q) \in Seq(Queued)
           /\ \A i \in 1 .. Len(Tail(q)) : i + 1 \in 1 .. Len(q) /\ Tail(q)[i] = q[i + 1]
<1>1. Len(q) \in Nat \ {0}
  BY EmptySeq
<1>2. /\ Head(q) \in Queued /\ Tail(q) \in Seq(Queued)
      /\ Len(Tail(q)) = Len(q) - 1
      /\ \A i \in 1 .. Len(Tail(q)) : Tail(q)[i] = q[i + 1]
  BY HeadTailProperties
<1> QED BY <1>1, <1>2

\* The head of a decided round goes out, and the rest stays decided.
LEMMA SendKeeps ==
    ASSUME BarrierInv, OutcomeInv, NEW q \in Seq(Queued), q # <<>>, SendHead(q),
           \A i \in 1 .. Len(q) : Decided(q[i], part'),
           UNCHANGED <<intent, target, cleanup, answer, late, dev, epoch, faults>>,
           part' \in [Participants -> Machines],
           \A p \in Participants :
              /\ part'[p].report = part[p].report /\ part'[p].seen = part[p].seen
              /\ part'[p].bound = part[p].bound
              /\ \/ part'[p].authorized = part[p].authorized
                 \/ /\ Attended /\ part'[p].authorized >= part[p].authorized
                    /\ part[p].report.owner = "This"
                    /\ part[p].report.sched \notin {"None", "Prepared"}
    PROVE  BarrierInv' /\ OutcomeInv' /\ queue' \in Seq(Queued) /\ QueueDecided'
<1>1. PICK h : h = Head(q)
  OBVIOUS
<1>2. h \in Queued /\ Decided(h, part') /\ Tail(q) \in Seq(Queued)
  BY <1>1, QueueHead
<1>3. wire' = [wire EXCEPT ![h.to] = Request(h.op, h.lease)] /\ queue' = Tail(q)
  BY <1>1 DEF SendHead, Send
<1>4. wire \in [Participants -> Requests] /\ Request(h.op, h.lease) \in Requests
  BY <1>2 DEF BarrierInv, TypeOK, Request, Requests, Queued
<1>5. wire' \in [Participants -> Requests]
  BY <1>3, <1>4
<1>6. ASSUME NEW p \in Participants
      PROVE  \/ wire'[p] = wire[p]
             \/ wire'[p].op = "Status"
             \/ /\ wire'[p].op = "RenewLease" /\ Attended
                /\ wire'[p].lease <= part'[p].authorized
  BY <1>2, <1>3, <1>4 DEF Decided, Request
<1>7. BarrierInv' /\ OutcomeInv'
  BY <1>5, <1>6, RoundKeeps
<1>8. QueueDecided'
  BY <1>3, QueueHead DEF QueueDecided
<1> QED BY <1>2, <1>3, <1>7, <1>8

\* A fault of the job itself empties the queue.
LEMMA FaultKeeps ==
    ASSUME BarrierInv, OutcomeInv, MarkFault,
           UNCHANGED <<coordinatorVars, netVars, deviceVars>>, faults' \in Nat
    PROVE  /\ BarrierInv' /\ OutcomeInv' /\ queue' \in Seq(Queued) /\ QueueDecided'
           /\ queue' = <<>> /\ override' = "Faulted"
<1>1. queue' = <<>> /\ override' = "Faulted"
  BY DEF MarkFault
<1>2. queue' \in Seq(Queued) /\ QueueDecided'
  BY <1>1, EmptySeq DEF QueueDecided
<1> QED BY <1>1, <1>2, JobFault

LEMMA StatusKeeps ==
    ASSUME BarrierInv, OutcomeInv, StatusRound, QuietNet
    PROVE  /\ BarrierInv' /\ OutcomeInv' /\ queue' \in Seq(Queued) /\ QueueDecided'
           /\ override' \in {override, "Faulted"}
           /\ UNCHANGED <<intent, target>>
           /\ ~NonePending => queue' = <<>>
<1>1. CASE ~NonePending
  BY <1>1, FaultKeeps DEF StatusRound, FaultJob, QuietNet, coordinatorVars, netVars, deviceVars,
     BarrierInv, TypeOK
<1>2. CASE NonePending
  <2>1. /\ part' = [p \in Participants |-> Begin(part[p], "Status")]
        /\ SendHead(ToEach("Status", NoLeases))
        /\ UNCHANGED <<intent, target, cleanup, override, answer, late, dev, epoch, faults>>
    BY <1>2 DEF StatusRound, QuietNet, deviceVars
  <2>2. part \in [Participants -> Machines]
    BY DEF BarrierInv, TypeOK
  <2>3. ASSUME NEW m \in Machines
        PROVE  /\ Begin(m, "Status") \in Machines
               /\ Begin(m, "Status").report = m.report /\ Begin(m, "Status").seen = m.seen
               /\ Begin(m, "Status").bound = m.bound
               /\ Begin(m, "Status").authorized = m.authorized
    BY DEF Operations, Begin, Machines
  <2>4. /\ part' \in [Participants -> Machines]
        /\ \A p \in Participants :
              /\ part'[p].report = part[p].report /\ part'[p].seen = part[p].seen
              /\ part'[p].bound = part[p].bound /\ part'[p].authorized = part[p].authorized
    BY <2>1, <2>2, <2>3
  <2>5. NoLeases \in [Participants -> Nat] /\ "Status" \in Operations
    BY DEF NoLeases, Operations
  <2>6. PICK q : q = ToEach("Status", NoLeases)
    OBVIOUS
  <2>7. /\ q \in Seq(Queued) /\ q # <<>> /\ Len(q) = N
        /\ \A i \in 1 .. N : q[i] = [to |-> i, op |-> "Status", lease |-> NoLeases[i]]
    BY <2>5, <2>6, RoundQueue
  <2>8. ASSUME NEW i \in 1 .. Len(q) PROVE Decided(q[i], part')
    <3>1. q[i].to = i /\ q[i].op = "Status" /\ i \in Participants
      BY <2>7 DEF Participants
    <3> QED BY <3>1 DEF Decided
  <2> QED BY <1>2, <2>1, <2>4, <2>6, <2>7, <2>8, SendKeeps
<1> QED BY <1>1, <1>2

-----------------------------------------------------------------------------
(* The steps of the job, one lemma each.                                   *)

Held == BarrierInv /\ OutcomeInv /\ JobInv

\* A step taken with no start asked for, that keeps the queue in order.
LEMMA JobRest ==
    ASSUME JobInv, ~startAsked, UNCHANGED <<stop, caching, startAsked>>, sweep' \in BOOLEAN,
           override' \in {override, "Faulted"}, queue' \in Seq(Queued), QueueDecided',
           sweep' => queue' = <<>>, intent' = "Prepare" => ~target'
    PROVE  JobInv'
BY DEF JobInv, JobState, NothingBetween

LEMMA EmptyQueue == <<>> \in Seq(Queued) /\ (queue' = <<>> => QueueDecided')
BY EmptySeq DEF QueueDecided

\* Past its caching, a job that has not ended is in the coordinator's phase.
LEMMA PhaseDirect ==
    ASSUME JobInv, ~caching, ~JobTerminal
    PROVE  override = "None" /\ JobPhase = GlobalPhase /\ GlobalPhase \notin Terminal
<1>1. override = "None"
  BY DEF JobInv, JobState, JobTerminal, JobPhase, Terminal
<1> QED BY <1>1 DEF JobTerminal, JobPhase

LEMMA CacheCompleteKeeps ==
    ASSUME Held, CacheComplete
    PROVE  Held'
<1>1. UNCHANGED vars /\ UNCHANGED <<queue, sweep, stop, override, startAsked>> /\ caching
      /\ caching' = FALSE
  BY DEF CacheComplete
<1>2. BarrierInv' /\ OutcomeInv'
  BY <1>1, BarrierInvNext, OutcomeInvNext DEF Held
<1>3. ~startAsked
  BY <1>1 DEF Held, JobInv, NothingBetween
<1>4. part' = part /\ intent' = intent /\ target' = target
  BY <1>1 DEF vars, coordinatorVars
<1>5. JobInv'
  BY <1>1, <1>3, <1>4 DEF Held, JobInv, JobState, NothingBetween, QueueDecided
<1> QED BY <1>2, <1>5 DEF Held

\* A command never changes the coordinator's phase while the job waits for its start.
LEMMA PhaseKept ==
    ASSUME UNCHANGED coordinatorVars
    PROVE  GlobalPhase' = GlobalPhase
<1>1. part' = part /\ intent' = intent /\ cleanup' = cleanup
  BY DEF coordinatorVars
<1> QED BY <1>1 DEF GlobalPhase, PreparePhase, InstallPhase, ConfirmPhase, AbortPhase, CancelPhase,
       InitialRound, CleanedUp, SplitAfterAbort, SafeAfterAbort, TerminalAfterCleanup, Every,
       Some, Phase

LEMMA RequestStartKeeps ==
    ASSUME Held, RequestStart
    PROVE  Held'
<1>1. /\ UNCHANGED vars /\ UNCHANGED <<queue, sweep, stop, override, caching>>
      /\ ~Busy /\ JobPhase = "Ready" /\ ~JobTerminal /\ startAsked' = TRUE
  BY DEF RequestStart, Idle
<1>2. BarrierInv' /\ OutcomeInv'
  BY <1>1, BarrierInvNext, OutcomeInvNext DEF Held
<1>3. ~caching
  BY <1>1 DEF JobPhase, Held, JobInv, JobState
<1>4. GlobalPhase = "Ready"
  BY <1>1, <1>3, PhaseDirect DEF Held
<1>5. UNCHANGED <<coordinatorVars, wire, answer>>
  BY <1>1 DEF vars, netVars
<1>6. GlobalPhase' = "Ready" /\ ~Busy'
  BY <1>1, <1>4, <1>5, PhaseKept DEF Busy
<1>7. part' = part /\ intent' = intent /\ target' = target
  BY <1>5 DEF coordinatorVars
<1>8. JobInv'
  BY <1>1, <1>3, <1>6, <1>7 DEF Held, JobInv, JobState, NothingBetween, QueueDecided
<1> QED BY <1>2, <1>8 DEF Held

\* The start that was asked for is the coordinator's own decision.
LEMMA BeginStartKeeps ==
    ASSUME Held, BeginPendingStart
    PROVE  Held'
<1>1. /\ startAsked /\ startAsked' = FALSE /\ GlobalPhase = "Ready"
      /\ UNCHANGED <<netVars, deviceVars, sweep, stop, caching>>
  BY DEF BeginPendingStart, Held, JobInv, NothingBetween
<1>2. CASE /\ queue = <<>> /\ target' = TRUE /\ intent' = "Install"
           /\ UNCHANGED <<part, cleanup, queue, override, faults>>
  <2>1. intent = "Prepare"
    BY <1>1, ReadySeen DEF Held, BarrierInv, TypeOK
  <2>2. BindStart
    BY <1>1, <1>2, <2>1 DEF BindStart, Held, JobInv, NothingBetween
  <2>3. BarrierInv' /\ OutcomeInv'
    BY <2>2, BarrierInvNext, OutcomeInvNext DEF Held, Next, CoordinatorNext
  <2>4. JobInv'
    BY <1>1, <1>2, EmptyQueue DEF Held, JobInv, JobState, NothingBetween
  <2> QED BY <2>3, <2>4 DEF Held
<1>3. CASE MarkFault /\ UNCHANGED coordinatorVars /\ faults' \in {faults, faults + 1}
  <2>1. faults' \in Nat
    BY <1>3 DEF Held, BarrierInv, TypeOK
  <2>2. BarrierInv' /\ OutcomeInv' /\ queue' = <<>> /\ override' = "Faulted"
    BY <1>1, <1>3, <2>1, FaultKeeps DEF Held
  <2>3. JobInv'
    BY <1>1, <1>3, <2>2, EmptyQueue DEF Held, JobInv, JobState, NothingBetween, coordinatorVars
  <2> QED BY <2>2, <2>3 DEF Held
<1> QED BY <1>2, <1>3 DEF BeginPendingStart

\* A start that is dropped only forgets that it was asked for.
LEMMA DropStartKeeps ==
    ASSUME Held, DropPendingStart
    PROVE  Held'
<1>1. /\ UNCHANGED vars /\ UNCHANGED <<queue, sweep, stop, override, caching>>
      /\ startAsked' = FALSE
  BY DEF DropPendingStart
<1>2. BarrierInv' /\ OutcomeInv'
  BY <1>1, BarrierInvNext, OutcomeInvNext DEF Held
<1>3. part' = part /\ intent' = intent /\ target' = target
  BY <1>1 DEF vars, coordinatorVars
<1>4. JobInv'
  BY <1>1, <1>3 DEF Held, JobInv, JobState, NothingBetween, QueueDecided
<1> QED BY <1>2, <1>4 DEF Held

LEMMA RequestStopKeeps ==
    ASSUME Held, RequestStop
    PROVE  Held'
<1>1. /\ startAsked' = FALSE /\ queue' = <<>>
      /\ UNCHANGED <<part, target, cleanup, netVars, deviceVars, faults, sweep, caching>>
      /\ intent' \in {intent, "Abort", "Cancel"} /\ stop' \in {stop, TRUE}
      /\ override' \in {override, "Cancelled"}
  BY DEF RequestStop, QuietNet, netVars
<1>2. BeginAbort \/ BeginCancel \/ UNCHANGED vars
  BY <1>1 DEF RequestStop, BeginAbort, BeginCancel, vars, coordinatorVars
<1>3. BarrierInv' /\ OutcomeInv'
  BY <1>2, BarrierInvNext, OutcomeInvNext DEF Held, Next, CoordinatorNext
<1>4. JobInv'
  BY <1>1, EmptyQueue DEF Held, JobInv, JobState, NothingBetween
<1> QED BY <1>3, <1>4 DEF Held

\* Whatever faults the job leaves the devices to themselves.
LEMMA JobFaultKeeps ==
    ASSUME Held, FaultJob, UNCHANGED <<sweep, stop, caching, startAsked>>,
           UNCHANGED <<answer, late, deviceVars>>, faults' \in {faults, faults + 1}
    PROVE  Held'
<1>1. UNCHANGED <<coordinatorVars, netVars, deviceVars>> /\ MarkFault
  BY DEF FaultJob, netVars
<1>2. faults' \in Nat
  BY DEF Held, BarrierInv, TypeOK
<1>3. BarrierInv' /\ OutcomeInv' /\ queue' = <<>> /\ override' = "Faulted"
  BY <1>1, <1>2, FaultKeeps DEF Held
<1>4. UNCHANGED <<coordinatorVars, wire, answer>>
  BY <1>1 DEF netVars
<1>5. GlobalPhase' = GlobalPhase /\ Busy' = Busy /\ UNCHANGED <<intent, target>>
  BY <1>4, PhaseKept DEF Busy, coordinatorVars
<1>6. JobInv'
  BY <1>3, <1>5, EmptyQueue DEF Held, JobInv, JobState, NothingBetween
<1> QED BY <1>3, <1>6 DEF Held

LEMMA StatusStepKeeps ==
    ASSUME Held, MayStep, StatusRound, QuietNet, UNCHANGED <<stop, caching, startAsked>>,
           sweep' \in BOOLEAN, sweep' => sweep /\ ~NonePending
    PROVE  Held'
<1>1. /\ BarrierInv' /\ OutcomeInv' /\ queue' \in Seq(Queued) /\ QueueDecided'
      /\ override' \in {override, "Faulted"}
      /\ UNCHANGED <<intent, target>>
      /\ ~NonePending => queue' = <<>>
  BY StatusKeeps DEF Held
<1>2. ~startAsked
  BY DEF MayStep
<1>3. JobInv'
  BY <1>1, <1>2, JobRest DEF Held, JobInv, NothingBetween
<1> QED BY <1>1, <1>3 DEF Held

LEMMA QueueStepKeeps ==
    ASSUME Held, QueueStep
    PROVE  Held'
<1>1. /\ ~startAsked /\ queue # <<>> /\ SendHead(queue)
      /\ UNCHANGED <<answer, late, deviceVars, faults>>
      /\ UNCHANGED <<coordinatorVars, sweep, stop, override, caching, startAsked>>
  BY DEF QueueStep, MayStep, QuietNet
<1>2. /\ queue \in Seq(Queued)
      /\ \A i \in 1 .. Len(queue) : Decided(queue[i], part')
      /\ part' = part /\ part' \in [Participants -> Machines]
      /\ UNCHANGED <<intent, target, cleanup, answer, late, dev, epoch, faults>>
  BY <1>1 DEF Held, JobInv, JobState, QueueDecided, BarrierInv, TypeOK, coordinatorVars, deviceVars
<1>3. BarrierInv' /\ OutcomeInv' /\ queue' \in Seq(Queued) /\ QueueDecided'
  BY <1>1, <1>2, SendKeeps DEF Held
<1>4. ~sweep
  BY <1>1 DEF Held, JobInv, NothingBetween
<1>5. JobInv'
  BY <1>1, <1>2, <1>3, <1>4, JobRest DEF Held, JobInv, JobState, NothingBetween
<1> QED BY <1>3, <1>5 DEF Held

\* The request that the timer sends is the coordinator's next one.
LEMMA RequestStepKeeps ==
    ASSUME Held, NEW p \in Participants, RequestStep(p)
    PROVE  Held'
<1>1. /\ ~startAsked /\ queue = <<>> /\ ~sweep /\ ~caching /\ ~JobTerminal
      /\ RequestUnder(p, intent)
      /\ UNCHANGED <<answer, late, deviceVars, faults>>
      /\ UNCHANGED <<intent, target, cleanup, jobVars>>
  BY DEF RequestStep, Direct, MayStep, Idle, QuietNet
<1>2. NextRequest(p)
  BY <1>1, PhaseDirect DEF Held, NextRequest
<1>3. BarrierInv' /\ OutcomeInv'
  BY <1>2, BarrierInvNext, OutcomeInvNext DEF Held, Next, CoordinatorNext
<1>4. JobInv'
  BY <1>1, EmptyQueue, JobRest DEF Held, JobInv, JobState, NothingBetween, jobVars
<1> QED BY <1>3, <1>4 DEF Held

\* Once every participant was seen installed, and commits are bound, all are ours.
LEMMA AllOurs ==
    ASSUME BarrierInv, OutcomeInv, GlobalPhase = "Installed"
    PROVE  /\ intent = "Install" /\ target /\ ~cleanup
           /\ \A p \in Participants : dev[p].commit = "Ours"
<1>1. /\ intent = "Install"
      /\ \A p \in Participants : /\ part[p].report.sched = "Installed"
                                 /\ part[p].report.owner # "None"
  BY InstalledPhase DEF BarrierInv, TypeOK
<1>2. target /\ ~cleanup
  BY <1>1 DEF BarrierInv, NoPriorOnceBound, OutcomeInv, Cleaning
<1>3. ASSUME NEW p \in Participants PROVE dev[p].commit = "Ours"
  <2>1. part[p].report.owner = "This"
    BY <1>1 DEF BarrierInv, TypeOK, Known, Machines, Reports
  <2>2. dev[p].commit \notin {"None", "Prior"}
    BY <1>1, <1>2, <2>1 DEF BarrierInv, Known, Bounds, NoPriorOnceBound
  <2>3. dev[p].commit \in {"None", "Ours", "Prior"}
    BY DEF BarrierInv, TypeOK, Reports
  <2> QED BY <2>2, <2>3
<1> QED BY <1>1, <1>2, <1>3

\* Confirmation opens and its first request goes out in one step, with every commit
\* in place.
LEMMA ConfirmKeeps ==
    ASSUME Held, GlobalPhase = "Installed", NEW p \in Participants, RequestUnder(p, "Confirm"),
           intent' = "Confirm", UNCHANGED <<target, cleanup, answer, late, dev, epoch, faults>>
    PROVE  BarrierInv' /\ OutcomeInv'
<1> USE DEF Held
<1>1. /\ intent = "Install" /\ target /\ ~cleanup
      /\ \A q \in Participants : dev[q].commit = "Ours"
  BY AllOurs
<1>2. /\ part' \in [Participants -> Machines] /\ wire' \in [Participants -> Requests]
      /\ \A q \in Participants : part'[q].report = part[q].report
  BY RequestKeeps DEF Intents
<1>3. TypeOK' /\ NoPriorOnceBound' /\ ConfirmCovered'
  BY <1>1, <1>2 DEF BarrierInv, TypeOK, Intents, NoPriorOnceBound, ConfirmCovered
<1>4. \A q \in Participants : Known(q)'
  BY <1>2, KnownKept DEF BarrierInv
<1>5. /\ part \in [Participants -> Machines] /\ wire \in [Participants -> Requests]
      /\ part' = [part EXCEPT ![p] = Begin(part[p], Operation(p, "Confirm"))]
      /\ wire' = [wire EXCEPT ![p] = Request(Operation(p, "Confirm"), 0)]
  BY DEF BarrierInv, TypeOK, RequestUnder, Send
<1>6. Operation(p, "Confirm") \notin {"Install", "RenewLease"}
  BY <1>5, InstallOnce, NeverRenews DEF Intents
<1>7. ASSUME NEW q \in Participants
      PROVE  /\ part'[q].report = part[q].report /\ part'[q].seen = part[q].seen
             /\ part'[q].bound = part[q].bound /\ part'[q].authorized = part[q].authorized
  BY <1>5, <1>6 DEF Begin, Machines
<1>8. ASSUME NEW q \in Participants PROVE Chain(q)' /\ Authority(q)'
  <2>1. Chain(q)'
    BY <1>7, ChainKept DEF OutcomeInv
  <2>2. \A r \in late'[q] \cup {wire'[q]} :
            r \in late[q] \cup {wire[q]} \/ r.op \notin {"Install", "RenewLease"}
    BY <1>5, <1>6 DEF Request
  <2>3. Authority(q)'
    BY <1>7, <2>2, AuthorityKept DEF OutcomeInv
  <2> QED BY <2>1, <2>3
<1>9. Targeted' /\ Cleaning'
  BY <1>1, <1>7 DEF OutcomeInv, Targeted, Cleaning
<1> QED BY <1>3, <1>4, <1>8, <1>9 DEF BarrierInv, OutcomeInv

LEMMA ConfirmStepKeeps ==
    ASSUME Held, ConfirmStep
    PROVE  Held'
<1>1. /\ ~startAsked /\ queue = <<>> /\ ~sweep /\ ~caching /\ ~JobTerminal
      /\ JobPhase = "Installed"
      /\ UNCHANGED <<answer, late, deviceVars, faults>>
      /\ UNCHANGED <<sweep, stop, caching, startAsked>>
  BY DEF ConfirmStep, Direct, MayStep, Idle, QuietNet
<1>2. CASE FaultJob
  BY <1>1, <1>2, JobFaultKeeps
<1>3. CASE /\ intent' = "Confirm" /\ \E p \in Participants : RequestUnder(p, "Confirm")
           /\ UNCHANGED <<target, cleanup, queue, override>>
  <2>1. GlobalPhase = "Installed"
    BY <1>1, PhaseDirect DEF Held
  <2>2. BarrierInv' /\ OutcomeInv'
    BY <1>1, <1>3, <2>1, ConfirmKeeps DEF deviceVars
  <2>3. JobInv'
    BY <1>1, <1>3, EmptyQueue, JobRest DEF Held, JobInv, JobState
  <2> QED BY <2>2, <2>3 DEF Held
<1> QED BY <1>2, <1>3 DEF ConfirmStep

\* Every machine records the renewal before the first request of the round leaves.
LEMMA RenewStepKeeps ==
    ASSUME Held, RenewStep
    PROVE  Held'
<1>1. /\ Attended /\ ~startAsked /\ queue = <<>> /\ ~sweep
      /\ UNCHANGED <<answer, late, deviceVars, faults>>
      /\ UNCHANGED <<sweep, stop, caching, startAsked>>
  BY DEF RenewStep, Direct, MayStep, QuietNet
<1>2. CASE FaultJob
  BY <1>1, <1>2, JobFaultKeeps
<1>3. ASSUME NEW leases \in Leases, RenewalAdmitted(leases),
             part' = [p \in Participants |-> BeginRenew(part[p], leases[p])],
             SendHead(ToEach("RenewLease", leases)),
             UNCHANGED <<intent, target, cleanup, override>>
      PROVE  Held'
  <2>1. leases \in [Participants -> Nat] /\ "RenewLease" \in Operations
    BY BoundAssumption DEF Leases, Operations
  <2>2. ASSUME NEW p \in Participants
        PROVE  /\ part'[p] \in Machines /\ part'[p].report = part[p].report
               /\ part'[p].seen = part[p].seen /\ part'[p].bound = part[p].bound
               /\ part'[p].authorized = leases[p] /\ part'[p].authorized >= part[p].authorized
               /\ part[p].report.owner = "This"
               /\ part[p].report.sched \notin {"None", "Prepared"}
    <3>1. part[p] \in Machines /\ leases[p] \in Nat
      BY <2>1 DEF Held, BarrierInv, TypeOK
    <3>2. part'[p] = BeginRenew(part[p], leases[p])
      BY <1>3
    <3>3. /\ leases[p] >= part[p].authorized
          /\ PhaseOf(part[p]) \in {"Confirmed", "Priming", "Primed", "Running"}
      BY <1>3 DEF RenewalAdmitted, CanRenew
    <3>4. part[p].report.owner = "This" /\ part[p].report.sched \notin {"None", "Prepared"}
      BY <3>1, <3>3 DEF PhaseOf, ScheduledPhase, Held, BarrierInv, Known, Machines, Reports
    <3>5. /\ BeginRenew(part[p], leases[p]) \in Machines
          /\ BeginRenew(part[p], leases[p]).report = part[p].report
          /\ BeginRenew(part[p], leases[p]).seen = part[p].seen
          /\ BeginRenew(part[p], leases[p]).bound = part[p].bound
          /\ BeginRenew(part[p], leases[p]).authorized = leases[p]
      BY <3>1, RenewType DEF BeginRenew, Machines
    <3> QED BY <3>2, <3>3, <3>4, <3>5
  <2>3. part' \in [Participants -> Machines]
    BY <1>3, <2>2
  <2>4. PICK q : q = ToEach("RenewLease", leases)
    OBVIOUS
  <2>5. /\ q \in Seq(Queued) /\ q # <<>> /\ Len(q) = N
        /\ \A i \in 1 .. N : q[i] = [to |-> i, op |-> "RenewLease", lease |-> leases[i]]
    BY <2>1, <2>4, RoundQueue
  <2>6. ASSUME NEW i \in 1 .. Len(q) PROVE Decided(q[i], part')
    <3>1. /\ q[i].to = i /\ q[i].op = "RenewLease" /\ q[i].lease = leases[i]
          /\ i \in Participants
      BY <2>5 DEF Participants
    <3>2. leases[i] \in Nat /\ part'[i].authorized = leases[i]
      BY <2>1, <2>2, <3>1
    <3> QED BY <1>1, <3>1, <3>2 DEF Decided
  <2>7. BarrierInv' /\ OutcomeInv' /\ queue' \in Seq(Queued) /\ QueueDecided'
    BY <1>1, <1>3, <2>2, <2>3, <2>4, <2>5, <2>6, SendKeeps DEF Held, deviceVars
  <2>8. JobInv'
    BY <1>1, <1>3, <2>7, JobRest DEF Held, JobInv, JobState, NothingBetween
  <2> QED BY <2>7, <2>8 DEF Held
<1> QED BY <1>2, <1>3 DEF RenewStep, LeaseTargets

\* An answer changes no authority, and none arrives while a start is asked for.
LEMMA AnsweredKeeps ==
    ASSUME Held, NEW p \in Participants, FetchAnswered(p)
    PROVE  Held'
<1> USE DEF Held
<1>1. AcceptResponse(p) /\ UNCHANGED jobVars
  BY DEF FetchAnswered
<1>2. BarrierInv' /\ OutcomeInv'
  BY <1>1, BarrierInvNext, OutcomeInvNext DEF Next, CoordinatorNext
<1>3. PICK m : m = Accept(part[p], answer[p].kind = "Report", answer[p].report)
  OBVIOUS
<1>4. /\ part' = [part EXCEPT ![p] = m] /\ target' = target
      /\ intent' \in {intent, "Abort", "Cancel"} /\ answer[p].kind # "None"
  BY <1>1, <1>3 DEF AcceptResponse, FaultCleanup
<1>5. part \in [Participants -> Machines] /\ m.authorized = part[p].authorized
  BY <1>3, AcceptLearns DEF BarrierInv, TypeOK
<1>6. \A q \in Participants : part'[q].authorized = part[q].authorized
  BY <1>4, <1>5
<1>7. Busy
  BY <1>4 DEF Busy, NoAnswer, Answer
<1>8. JobState' /\ NothingBetween'
  BY <1>1, <1>4, <1>7 DEF JobInv, JobState, NothingBetween, jobVars
<1>9. QueueDecided'
  BY <1>1, <1>6 DEF JobInv, QueueDecided, Decided, jobVars
<1> QED BY <1>2, <1>8, <1>9 DEF JobInv

LEMMA FailedKeeps ==
    ASSUME Held, NEW p \in Participants, FetchFailed(p)
    PROVE  Held'
<1>1. /\ Busy /\ queue' = <<>> /\ sweep' = TRUE
      /\ UNCHANGED <<intent, target, stop, override, caching, startAsked>>
  BY DEF FetchFailed, Busy
<1>2. BarrierInv' /\ OutcomeInv'
  BY DrainKeeps DEF Held
<1>3. ~startAsked
  BY <1>1 DEF Held, JobInv, NothingBetween
<1>4. JobInv'
  BY <1>1, <1>3, EmptyQueue, JobRest DEF Held, JobInv, JobState, NothingBetween
<1> QED BY <1>2, <1>4 DEF Held

\* A device that has no request of the job's answers none.
LEMMA DevicesKeep ==
    ASSUME Held, NEW p \in Participants, DeviceNext(p), UNCHANGED jobVars
    PROVE  Held'
<1>1. BarrierInv' /\ OutcomeInv'
  BY BarrierInvNext, OutcomeInvNext DEF Held, Next
<1>2. UNCHANGED coordinatorVars
  BY DEF DeviceNext, DeviceExecute, DeviceRefuse, DeviceExecuteLate, DeviceProgress, DeviceFault,
         Elapse
<1>3. part' = part /\ intent' = intent /\ target' = target /\ GlobalPhase' = GlobalPhase
  BY <1>2, PhaseKept DEF coordinatorVars
<1>4. ~Busy => ~Busy'
  <2> SUFFICES ASSUME ~Busy PROVE ~Busy'
    OBVIOUS
  <2>1. \A q \in Participants : wire[q] = NoRequest /\ answer[q] = NoAnswer
    BY DEF Busy
  <2>2. wire[p].op = "None"
    BY <2>1 DEF NoRequest, Request
  <2>3. wire' = wire /\ answer' = answer
    BY <2>2 DEF DeviceNext, DeviceExecute, DeviceRefuse, DeviceExecuteLate, DeviceProgress,
                DeviceFault, Elapse, netVars
  <2> QED BY <2>1, <2>3 DEF Busy
<1>5. JobInv'
  BY <1>3, <1>4 DEF Held, JobInv, JobState, NothingBetween, QueueDecided, jobVars
<1> QED BY <1>1, <1>5 DEF Held

LEMMA StayKeeps ==
    ASSUME Held, UNCHANGED allVars
    PROVE  Held'
<1>1. BarrierInv' /\ OutcomeInv'
  BY BarrierInvNext, OutcomeInvNext DEF Held, allVars
<1>2. UNCHANGED coordinatorVars /\ wire' = wire /\ answer' = answer /\ UNCHANGED jobVars
  BY DEF allVars, vars, netVars
<1>3. part' = part /\ intent' = intent /\ target' = target /\ GlobalPhase' = GlobalPhase
  BY <1>2, PhaseKept DEF coordinatorVars
<1>4. JobInv'
  BY <1>2, <1>3 DEF Held, JobInv, JobState, NothingBetween, QueueDecided, jobVars, Busy
<1> QED BY <1>1, <1>4 DEF Held

LEMMA TickKeeps ==
    ASSUME Held, Tick
    PROVE  Held'
<1>1. CASE SweepStep
  <2>1. /\ MayStep /\ StatusRound /\ QuietNet /\ UNCHANGED <<stop, caching, startAsked>>
        /\ sweep' \in BOOLEAN /\ (sweep' => sweep /\ ~NonePending)
    BY <1>1 DEF SweepStep
  <2> QED BY <2>1, StatusStepKeeps
<1>2. CASE PollStep
  <2>1. /\ MayStep /\ StatusRound /\ QuietNet /\ UNCHANGED <<stop, caching, startAsked>>
        /\ ~sweep /\ sweep' = sweep
    BY <1>2 DEF PollStep, Direct
  <2>2. sweep' \in BOOLEAN
    BY <2>1 DEF Held, JobInv, JobState
  <2> QED BY <2>1, <2>2, StatusStepKeeps
<1>3. CASE ErrorStep
  <2>1. /\ FaultJob /\ UNCHANGED <<sweep, stop, caching, startAsked>>
        /\ UNCHANGED <<answer, late, deviceVars>> /\ faults' = faults
    BY <1>3 DEF ErrorStep, QuietNet
  <2> QED BY <2>1, JobFaultKeeps
<1> QED BY <1>1, <1>2, <1>3, CacheCompleteKeeps, BeginStartKeeps, DropStartKeeps, QueueStepKeeps,
           RequestStepKeeps, ConfirmStepKeeps, RenewStepKeeps DEF Tick

LEMMA HeldNext == Held /\ [JobNext]_allVars => Held'
<1> SUFFICES ASSUME Held, [JobNext]_allVars PROVE Held'
  OBVIOUS
<1>1. CASE BindingFault
  <2>1. /\ FaultJob /\ UNCHANGED <<sweep, stop, caching, startAsked>>
        /\ UNCHANGED <<answer, late, deviceVars>> /\ faults' = faults + 1
    BY <1>1 DEF BindingFault
  <2> QED BY <2>1, JobFaultKeeps
<1> QED BY <1>1, TickKeeps, RequestStartKeeps, RequestStopKeeps, AnsweredKeeps, FailedKeeps,
           DevicesKeep, StayKeeps DEF JobNext

LEMMA HeldInit == JobInit => Held
<1> SUFFICES ASSUME JobInit PROVE Held
  OBVIOUS
<1>1. BarrierInv /\ OutcomeInv
  BY BarrierInvInit, OutcomeInvInit DEF JobInit
<1>2. JobInv
  <2>1. queue \in Seq(Queued) /\ QueueDecided
    BY EmptySeq DEF JobInit, QueueDecided
  <2> QED BY <2>1 DEF JobInit, Init, JobInv, JobState, NothingBetween
<1> QED BY <1>1, <1>2 DEF Held

-----------------------------------------------------------------------------
(* The theorems.                                                           *)

\* The driver keeps what the coordinator keeps, and its own queue and flags in order.
THEOREM JobInvariant == JobSpec => []Held
BY HeldInit, HeldNext, PTL DEF JobSpec

\* Whatever this program's driver does, the outcome it shows is what the devices do,
\* and no device holds a lease that was not asked for, for any number of devices,
\* losses, stops and faults of the job itself.
THEOREM JobsAreTrue == JobSpec => []JobIsTrue
<1>1. Held => JobIsTrue
  <2> SUFFICES ASSUME Held PROVE JobIsTrue
    OBVIOUS
  <2>1. JobTypeOK
    BY DEF Held, BarrierInv, JobInv, JobState, JobTypeOK
  <2>2. OutcomeIsTrue
    BY OutcomeTrue DEF Held
  <2>3. LeaseWithinAuthority
    BY DEF Held, OutcomeInv, Authority, LeaseWithinAuthority
  <2> QED BY <2>1, <2>2, <2>3 DEF JobIsTrue
<1> QED BY <1>1, JobInvariant, PTL

\* Only the devices move the barrier.
LEMMA JobBarrier == Held /\ [JobNext]_allVars => [Barrier!Next]_BarrierState
<1> SUFFICES ASSUME Held, [JobNext]_allVars PROVE [Barrier!Next]_BarrierState
  OBVIOUS
<1>1. ASSUME NEW p \in Participants, DeviceNext(p) PROVE [Barrier!Next]_BarrierState
  BY <1>1, BarrierStep DEF Held, Next
<1>2. CASE dev' = dev
  BY <1>2 DEF BarrierState
<1>3. CASE Tick
  <2>1. dev' = dev
    BY <1>3 DEF Tick, CacheComplete, BeginPendingStart, DropPendingStart, SweepStep, QueueStep,
       RequestStep, ErrorStep, ConfirmStep, PollStep, RenewStep, QuietNet, vars, deviceVars
  <2> QED BY <1>2, <2>1
<1>4. CASE RequestStart \/ RequestStop \/ BindingFault \/ UNCHANGED allVars
  <2>1. dev' = dev
    BY <1>4 DEF RequestStart, RequestStop, BindingFault, QuietNet, allVars, vars, deviceVars
  <2> QED BY <1>2, <2>1
<1>5. ASSUME NEW p \in Participants, FetchAnswered(p) \/ FetchFailed(p)
      PROVE  [Barrier!Next]_BarrierState
  <2>1. dev' = dev
    BY <1>5 DEF FetchAnswered, AcceptResponse, FetchFailed, deviceVars
  <2> QED BY <1>2, <2>1
<1> QED BY <1>1, <1>3, <1>4, <1>5 DEF JobNext

\* Until everybody was asked again, only status requests leave.
LEMMA SweepFirst ==
    ASSUME Held, [JobNext]_allVars, sweep, NEW p \in Participants, wire'[p] # wire[p]
    PROVE  wire'[p].op \in {"None", "Status"}
<1>0. queue = <<>> /\ wire \in [Participants -> Requests]
  BY DEF Held, JobInv, NothingBetween, BarrierInv, TypeOK
<1>1. CASE SweepStep
  <2>1. SendHead(ToEach("Status", NoLeases))
    BY <1>1 DEF SweepStep, StatusRound, FaultJob
  <2>2. NoLeases \in [Participants -> Nat] /\ "Status" \in Operations
    BY DEF NoLeases, Operations
  <2>3. PICK q : q = ToEach("Status", NoLeases)
    OBVIOUS
  <2>4. /\ q \in Seq(Queued) /\ q # <<>> /\ Len(q) = N
        /\ \A i \in 1 .. N : q[i] = [to |-> i, op |-> "Status", lease |-> NoLeases[i]]
    BY <2>2, <2>3, RoundQueue
  <2>5. Head(q) = q[1] /\ 1 \in 1 .. N
    BY <2>4, QueueHead
  <2>6. Head(q).op = "Status"
    BY <2>4, <2>5
  <2>7. wire' = [wire EXCEPT ![Head(q).to] = Request(Head(q).op, Head(q).lease)]
    BY <2>1, <2>3 DEF SendHead, Send
  <2> QED BY <1>0, <2>6, <2>7 DEF Request
<1>2. CASE Tick /\ ~SweepStep
  <2>1. wire' = wire
    BY <1>0, <1>2 DEF Tick, CacheComplete, BeginPendingStart, DropPendingStart, QueueStep, RequestStep,
       ErrorStep, ConfirmStep, PollStep, RenewStep, Direct, vars, netVars
  <2> QED BY <2>1
<1>3. CASE RequestStart \/ RequestStop \/ BindingFault \/ UNCHANGED allVars
  <2>1. wire' = wire
    BY <1>3 DEF RequestStart, RequestStop, BindingFault, FaultJob, allVars, vars, netVars
  <2> QED BY <2>1
<1>4. ASSUME NEW q \in Participants, FetchAnswered(q)
      PROVE  wire' = wire
  BY <1>4 DEF FetchAnswered, AcceptResponse
<1>5. ASSUME NEW q \in Participants, FetchFailed(q) \/ DeviceNext(q)
      PROVE  wire' = wire \/ wire' = [wire EXCEPT ![q] = NoRequest]
  BY <1>5 DEF FetchFailed, DeviceNext, DeviceExecute, DeviceRefuse, DeviceExecuteLate,
              DeviceProgress, DeviceFault, Elapse, netVars
<1>6. NoRequest.op = "None"
  BY DEF NoRequest, Request
<1> QED BY <1>0, <1>1, <1>2, <1>3, <1>4, <1>5, <1>6 DEF JobNext

\* The program's own driver keeps the start barrier, and after an outage it looks at
\* every device before it changes any, for any number of devices and losses.
THEOREM JobsKeepOrder == JobSpec => JobKeepsOrder
<1>1. JobInit => Barrier!Init
  <2> SUFFICES ASSUME Init PROVE BarrierState = [p \in Participants |-> "Free"]
    BY DEF Barrier!Init, JobInit
  <2>1. \A p \in Participants : dev[p].commit # "Ours"
    BY RetainedAssumption DEF Init, RetainedDevices, Job, EmptyReport
  <2> QED BY <2>1 DEF BarrierState, BarrierOf
<1>2. Held /\ [JobNext]_allVars => [Barrier!Next]_BarrierState
  BY JobBarrier
<1>3. Held /\ [JobNext]_allVars =>
        [sweep => \A p \in Participants :
            wire'[p] # wire[p] => wire'[p].op \in {"None", "Status"}]_allVars
  BY SweepFirst
<1> QED BY <1>1, <1>2, <1>3, JobInvariant, PTL
        DEF JobSpec, JobKeepsOrder, ImplementsBarrier, Barrier!Spec, SweepBeforeMutation
=============================================================================

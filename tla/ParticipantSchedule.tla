------------------------- MODULE ParticipantSchedule -------------------------
(***************************************************************************)
(* ParticipantScheduleMachine: the client's controller of one device's     *)
(* prepared job.  Pure operators on a machine record; who calls them, and  *)
(* in which order, is the business of the modules that use this one.       *)
(*                                                                         *)
(* A status report is abstracted to what the machine tells apart: whose    *)
(* job it is about (the prepare id), the joint state of the service and    *)
(* real-time actors, the schedule's state, whose commit it carries, and    *)
(* the lease.  "Prior" is a commit that an earlier browser session bound.  *)
(***************************************************************************)
EXTENDS Integers

CONSTANT Attended   \* the job's network policy is NetworkAttended

ASSUME PolicyAssumption == Attended \in BOOLEAN

\* The lease a commit carries; renewals grow it.
FirstLease == 1

-----------------------------------------------------------------------------
(* Values.                                                                 *)

ScheduleStates ==
    {"None", "Prepared", "Installed", "Confirmed", "Priming", "Primed",
     "Running", "Aborted", "Expired", "Complete", "Faulted"}

\* "Ready" is a prefetching or complete service next to an admitted, outstanding
\* real-time actor; "Cancelled" both actors cancelled; "Faulted" either faulted;
\* "Loading" everything else that is present.
Reports ==
    [owner : {"None", "This", "Foreign"},
     actor : {"None", "Loading", "Ready", "Cancelled", "Faulted"},
     sched : ScheduleStates,
     commit : {"None", "Ours", "Prior"},
     lease : Nat]

\* JobStatusReport::default()
EmptyReport == [owner |-> "None", actor |-> "None", sched |-> "None",
                commit |-> "None", lease |-> 0]

Operations ==
    {"Prepare", "Status", "Install", "Confirm", "RenewLease", "Abort", "Cancel"}

Machines ==
    [seen : BOOLEAN,            \* report.is_some()
     report : Reports,
     bound : BOOLEAN,           \* commit.is_some()
     authorized : Nat,          \* authorized_lease_expiry_cycle, 0 for none
     pending : Operations \cup {"None"},
     reconcile : BOOLEAN]       \* reconciliation_required

NewMachine == [seen |-> FALSE, report |-> EmptyReport, bound |-> FALSE,
               authorized |-> 0, pending |-> "None", reconcile |-> FALSE]

Mutates(op) == op # "Status"

-----------------------------------------------------------------------------
(* The observed phase.                                                     *)

ScheduledPhase(m) ==
    CASE m.report.sched = "None" -> "Preparing"
      [] m.report.sched = "Prepared" ->
           IF m.report.actor # "Ready" THEN "Preparing"
           ELSE IF m.bound THEN "Installing" ELSE "Ready"
      [] OTHER -> m.report.sched

PhaseOf(m) ==
    IF ~m.seen \/ m.report.owner = "None" THEN "Empty"
    ELSE IF m.report.actor \in {"Faulted", "Cancelled"} THEN m.report.actor
    ELSE ScheduledPhase(m)

-----------------------------------------------------------------------------
(* Emitting a request.                                                     *)

\* ensure_mutation_allowed
MutationAllowed(m) == m.pending = "None" /\ ~m.reconcile

\* Whether begin_<op> succeeds.  begin_lease_renew also has an argument.
CanBegin(m, op) ==
    CASE op = "Status"  -> m.pending = "None"
      [] op = "Prepare" -> /\ MutationAllowed(m) /\ ~m.bound
                           /\ PhaseOf(m) \in {"Empty", "Preparing"}
      [] op = "Install" -> /\ MutationAllowed(m)
                           /\ PhaseOf(m) \in {"Ready", "Installing"}
      [] op = "Confirm" -> /\ MutationAllowed(m) /\ m.bound
                           /\ PhaseOf(m) = "Installed"
      [] op = "Abort"   -> /\ MutationAllowed(m) /\ m.bound
                           /\ PhaseOf(m) \in {"Installing", "Installed", "Confirmed"}
      [] op = "Cancel"  -> /\ MutationAllowed(m) /\ ~m.bound
                           /\ PhaseOf(m) \in {"Preparing", "Ready", "Faulted"}
      [] OTHER -> FALSE

\* begin_install retains the commit, and its lease, before any transport.
Begin(m, op) ==
    IF op = "Install"
      THEN [m EXCEPT !.pending = op, !.bound = TRUE, !.authorized = FirstLease]
      ELSE [m EXCEPT !.pending = op]

CanRenew(m, lease) ==
    /\ MutationAllowed(m)
    /\ m.bound
    /\ PhaseOf(m) \in {"Confirmed", "Priming", "Primed", "Running"}
    /\ lease > m.report.lease
    /\ lease >= m.authorized

\* Mutation: the lease that was asked for is not retained.
BeginRenewForgetful(m, lease) == [m EXCEPT !.pending = "RenewLease"]

BeginRenew(m, lease) == [m EXCEPT !.pending = "RenewLease", !.authorized = lease]

-----------------------------------------------------------------------------
(* Accepting a response.                                                   *)

\* schedule_matches_commit
MatchesCommit(m, r) ==
    /\ r.commit = "Ours"
    /\ IF Attended THEN FirstLease <= r.lease /\ r.lease <= m.authorized
                   ELSE r.lease = FirstLease /\ m.authorized = FirstLease

\* validate_report: another job's actors, or another commit once one is bound,
\* are refused.
ValidReport(m, r) ==
    /\ r.owner # "Foreign"
    /\ m.bound /\ r.sched \notin {"None", "Prepared"} => MatchesCommit(m, r)

\* replaceable_foreign_terminal
ReplaceableForeignTerminal(r) ==
    /\ r.owner = "Foreign"
    /\ IF r.sched = "None" THEN r.actor = "Cancelled"
       ELSE r.sched \in {"Aborted", "Expired", "Complete", "Faulted"}

\* Mutation: a poll that skips a state is refused.
LaterStatesNext(sched) ==
    CASE sched = "Prepared"  -> {"Installed"}
      [] sched = "Installed" -> {"Confirmed", "Aborted", "Expired", "Faulted"}
      [] sched = "Confirmed" -> {"Priming", "Aborted", "Faulted"}
      [] sched = "Priming"   -> {"Primed", "Faulted"}
      [] sched = "Primed"    -> {"Running", "Faulted"}
      [] sched = "Running"   -> {"Complete", "Faulted"}
      [] OTHER -> {}

\* The later states schedule_report_advances admits after each state.
LaterStates(sched) ==
    CASE sched = "Prepared"  -> ScheduleStates \ {"None", "Prepared"}
      [] sched = "Installed" -> ScheduleStates \ {"None", "Prepared", "Installed"}
      [] sched = "Confirmed" -> {"Priming", "Primed", "Running", "Aborted",
                                 "Complete", "Faulted"}
      [] sched = "Priming"   -> {"Primed", "Running", "Complete", "Faulted"}
      [] sched = "Primed"    -> {"Running", "Complete", "Faulted"}
      [] sched = "Running"   -> {"Complete", "Faulted"}
      [] OTHER -> {}

ScheduleAdvances(old, new) ==
    \/ /\ old.sched = new.sched
       /\ old.commit = new.commit
       /\ \/ old.lease = new.lease
          \/ Attended /\ old.commit # "None" /\ old.lease < new.lease
    \/ /\ Attended /\ old.commit # "None" => old.lease <= new.lease
       /\ new.sched \in LaterStates(old.sched)

\* job_report_advances
ReportAdvances(old, new) ==
    \/ old.sched = "None"
    \/ new.sched = "None" /\ new.actor = "Cancelled"
    \/ new.sched # "None" /\ ScheduleAdvances(old, new)

\* A response is a report, or a body that is empty or does not decode.
Taken(m) ==
    [m EXCEPT !.pending = "None", !.reconcile = @ \/ Mutates(m.pending)]
\* Mutation: a good report does not end the ambiguity.
LearnedAmbiguous(m, r) ==
    [m EXCEPT !.pending = "None", !.seen = TRUE, !.report = r]

Learned(m, r) ==
    [m EXCEPT !.pending = "None", !.reconcile = FALSE, !.seen = TRUE, !.report = r]

Accept(m, readable, r) ==
    IF ~readable THEN Taken(m)
    ELSE IF m.pending = "Status" /\ ~m.seen /\ ~m.bound /\ ReplaceableForeignTerminal(r)
      THEN Learned(m, EmptyReport)
    ELSE IF ValidReport(m, r) /\ (m.seen => ReportAdvances(m.report, r))
      THEN Learned(m, r)
    ELSE Taken(m)

Abandon(m) == IF m.pending = "None" THEN m ELSE Taken(m)
=============================================================================

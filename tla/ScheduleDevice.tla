---------------------------- MODULE ScheduleDevice ----------------------------
(***************************************************************************)
(* The device's job and schedule service, external to this repository.  It *)
(* is modelled from the requests the client sends, the reports it accepts  *)
(* and the fixtures its tests answer with.  A device is the report it would *)
(* give; every answer, a refusal included, carries that report.             *)
(***************************************************************************)
EXTENDS ParticipantSchedule

\* Where a device's local clock stands relative to the deadlines of the commit.
Open == 0            \* before the confirmation deadline
ConfirmClosed == 1   \* at or after it
GuardClosed == 2     \* at or after the abort guard
Started == 3         \* at or after the local start
Epochs == 0 .. 3

Job(owner, actor, sched, commit, lease) ==
    [owner |-> owner, actor |-> actor, sched |-> sched, commit |-> commit, lease |-> lease]

Quiescent(d) ==
    \/ d.owner = "None"
    \/ d.actor \in {"Cancelled", "Faulted"}
    \/ d.sched \in {"Aborted", "Expired", "Complete", "Faulted"}

Authorized == {"Confirmed", "Priming", "Primed", "Running"}

\* Each operation has an effect only where the protocol allows it; repeated, it
\* changes nothing.  A prepare for another id replaces a quiescent job.
Execute(d, epoch, op, lease) ==
    CASE op = "Prepare" /\ d.owner # "This" /\ Quiescent(d) ->
           Job("This", "Loading", "None", "None", 0)
      [] op = "Install" /\ d.owner = "This" /\ d.actor = "Ready"
                        /\ d.sched = "Prepared" /\ epoch = Open ->
           [d EXCEPT !.sched = "Installed", !.commit = "Ours", !.lease = FirstLease]
      [] op = "Confirm" /\ d.commit = "Ours" /\ d.sched = "Installed" /\ epoch = Open ->
           [d EXCEPT !.sched = "Confirmed"]
      [] op = "Abort" /\ d.commit = "Ours" /\ d.sched \in {"Installed", "Confirmed"}
                      /\ epoch < GuardClosed ->
           [d EXCEPT !.sched = "Aborted"]
      [] op = "Cancel" /\ d.owner = "This" /\ d.sched \in {"None", "Prepared"}
                       /\ d.actor # "Cancelled" ->
           [d EXCEPT !.actor = "Cancelled", !.sched = "None"]
      [] op = "RenewLease" /\ d.commit = "Ours" /\ d.sched \in Authorized
                           /\ lease > d.lease ->
           [d EXCEPT !.lease = lease]
      [] OTHER -> d

\* What the device does on its own: it loads, and obeys its local clock.  The
\* clock of a prior commit is not modelled; its deadlines pass at any time.
Passed(d, epoch, mark) == d.commit = "Prior" \/ epoch >= mark

Progress(d, epoch) ==
    CASE d.actor = "Loading" -> [d EXCEPT !.actor = "Ready", !.sched = "Prepared"]
      [] d.actor = "Ready" /\ d.sched = "Installed" /\ Passed(d, epoch, ConfirmClosed) ->
           [d EXCEPT !.sched = "Expired"]
      [] d.actor = "Ready" /\ d.sched = "Confirmed" /\ Passed(d, epoch, GuardClosed) ->
           [d EXCEPT !.sched = "Priming"]
      [] d.actor = "Ready" /\ d.sched = "Priming" -> [d EXCEPT !.sched = "Primed"]
      [] d.actor = "Ready" /\ d.sched = "Primed" /\ Passed(d, epoch, Started) ->
           [d EXCEPT !.sched = "Running"]
      [] d.actor = "Ready" /\ d.sched = "Running" -> [d EXCEPT !.sched = "Complete"]
      [] OTHER -> d

\* A safety stop, an underrun, an expired lease, or an actor error.
Fault(d) ==
    [d EXCEPT !.actor = "Faulted",
              !.sched = IF d.commit = "None" THEN @ ELSE "Faulted"]

\* What an earlier session may have left behind.
RetainedDevices ==
    {EmptyReport,
     Job("Foreign", "Loading", "None", "None", 0),
     Job("Foreign", "Cancelled", "None", "None", 0),
     Job("Foreign", "Ready", "Complete", "Prior", FirstLease),
     Job("This", "Ready", "Prepared", "None", 0),
     Job("This", "Ready", "Installed", "Prior", FirstLease),
     Job("This", "Ready", "Confirmed", "Prior", FirstLease),
     Job("This", "Ready", "Complete", "Prior", FirstLease)}
=============================================================================

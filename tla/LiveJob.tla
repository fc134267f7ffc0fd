------------------------------- MODULE LiveJob -------------------------------
(***************************************************************************)
(* LiveCachedJob and the control worker's job step: the caller the         *)
(* coordinator has in this program.  Once all caches are complete the      *)
(* worker advances the job by one operation at a time: a queued status or  *)
(* renewal request, a sweep, the coordinator's next request, confirmation, *)
(* a lease renewal, or a status round.  A command of the operator is       *)
(* admitted only between two operations.                                   *)
(*                                                                         *)
(* take_live_job_task does nothing while a passive probe owns one of the   *)
(* devices, or one is not qualified, so the step that follows a command in  *)
(* the same handler may also come later: it is the same action as the      *)
(* timer's.  That a step is ever taken is therefore no fairness of this     *)
(* module but the hypothesis of its liveness properties.                   *)
(***************************************************************************)
EXTENDS DistributedSchedule, Sequences

CONSTANT Stops   \* the operator may ask the job to stop

ASSUME StopAssumption == Stops \in BOOLEAN

VARIABLES
    queue,       \* status_queue: requests whose participants are already pending
    sweep,       \* schedule_reconciliation_sweep_required
    stop,        \* stop_requested
    override,    \* terminal_override, "None" if absent
    caching,     \* the coordinator does not exist yet
    startAsked   \* pending_start_job_id is this job

jobVars == <<queue, sweep, stop, override, caching, startAsked>>
allVars == <<vars, jobVars>>

Queued == [to : Participants, op : Operations, lease : Nat]

ToEach(op, leases) == [p \in 1 .. N |-> [to |-> p, op |-> op, lease |-> leases[p]]]
NoLeases == [p \in Participants |-> 0]

\* project_distributed_phase only renames outcomes of Complete.
JobPhase ==
    IF override # "None" THEN override
    ELSE IF caching THEN "Caching" ELSE GlobalPhase

JobTerminal == JobPhase \in Terminal

\* JobEntry::Busy: an operation of this job is with a device.
Busy == \E p \in Participants : wire[p] # NoRequest \/ answer[p] # NoAnswer

Idle == ~Busy /\ ~JobTerminal

QuietNet == UNCHANGED <<answer, late, deviceVars, faults>>

-----------------------------------------------------------------------------
(* Commands and the end of caching.                                        *)

CacheComplete ==
    /\ Idle /\ caching
    /\ caching' = FALSE
    /\ UNCHANGED <<vars, queue, sweep, stop, override, startAsked>>

\* start_cached_job
RequestStart ==
    /\ Idle /\ ~startAsked
    /\ JobPhase = "Ready"
    /\ startAsked' = TRUE
    /\ UNCHANGED <<vars, queue, sweep, stop, override, caching>>

\* mark_fault
MarkFault ==
    /\ override' = "Faulted"
    /\ queue' = <<>>

\* begin_pending_job_start: no other step of the job comes in between, but a participant
\* may have been found changed, and the start is dropped.  A bad clock, or an unfinished
\* status round, faults the job.
DropPendingStart ==
    /\ ~Busy /\ startAsked /\ JobPhase # "Ready"
    /\ startAsked' = FALSE
    /\ UNCHANGED <<vars, queue, sweep, stop, override, caching>>

BeginPendingStart ==
    /\ Idle /\ startAsked /\ JobPhase = "Ready"
    /\ startAsked' = FALSE
    /\ \/ /\ queue = <<>>
          /\ target' = TRUE
          /\ intent' = "Install"
          /\ UNCHANGED <<part, cleanup, queue, override, faults>>
       \/ /\ queue = <<>>
          /\ faults < MaxFaults
          /\ faults' = faults + 1
          /\ MarkFault
          /\ UNCHANGED coordinatorVars
       \/ /\ queue # <<>>
          /\ MarkFault
          /\ UNCHANGED <<coordinatorVars, faults>>
    /\ UNCHANGED <<netVars, deviceVars, sweep, stop, caching>>

\* stop_cached_job and request_stop.  The queue is cleared before the
\* coordinator is asked, and stays cleared if it refuses.
RequestStop ==
    /\ Stops
    /\ Idle
    /\ startAsked' = FALSE
    /\ queue' = <<>>
    /\ \/ /\ caching
          /\ override' = "Cancelled"
          /\ UNCHANGED <<intent, stop>>
       \/ /\ ~caching /\ CanAbort
          /\ intent' = "Abort"
          /\ stop' = TRUE
          /\ UNCHANGED override
       \/ /\ ~caching /\ CanCancel
          /\ intent' = "Cancel"
          /\ UNCHANGED <<override, stop>>
       \/ /\ ~caching /\ ~CanAbort /\ ~CanCancel
          /\ UNCHANGED <<intent, override, stop>>
    /\ UNCHANGED <<part, target, cleanup, wire, sweep, caching>>
    /\ QuietNet

-----------------------------------------------------------------------------
(* take_live_job_task: one operation, or a local fault.                    *)

\* A pending start is served first.
MayStep == Idle /\ ~caching /\ ~startAsked

SendHead(q) ==
    /\ Send(Head(q).to, Head(q).op, Head(q).lease)
    /\ queue' = Tail(q)

FaultJob ==
    /\ MarkFault
    /\ UNCHANGED <<coordinatorVars, wire>>

\* A participant restarted, or is of another configuration; also while a start waits for
\* another participant to be idle.
BindingFault ==
    /\ Idle
    /\ faults < MaxFaults
    /\ faults' = faults + 1
    /\ FaultJob
    /\ UNCHANGED <<answer, late, deviceVars, sweep, stop, caching, startAsked>>

\* Coordinator's begin_status_round; its error is a fault of the job.
StatusRound ==
    \/ /\ NonePending
       /\ part' = [p \in Participants |-> Begin(part[p], "Status")]
       /\ SendHead(ToEach("Status", NoLeases))
       /\ UNCHANGED <<intent, target, cleanup, override>>
    \/ /\ ~NonePending
       /\ FaultJob

\* next_operation: a required sweep starts once the queue is empty.
SweepStep ==
    /\ MayStep /\ queue = <<>> /\ sweep
    /\ StatusRound
    /\ sweep' = (sweep /\ ~NonePending)
    /\ QuietNet
    /\ UNCHANGED <<stop, caching, startAsked>>

QueueStep ==
    /\ MayStep /\ queue # <<>>
    /\ SendHead(queue)
    /\ QuietNet
    /\ UNCHANGED <<coordinatorVars, sweep, stop, override, caching, startAsked>>

Direct == MayStep /\ queue = <<>> /\ ~sweep

RequestStep(p) ==
    /\ Direct
    /\ RequestUnder(p, intent)
    /\ QuietNet
    /\ UNCHANGED <<intent, target, cleanup, jobVars>>

\* A participant state that contradicts the intent.
ErrorStep ==
    /\ Direct
    /\ \E p \in Participants : First(p, intent) /\ Operation(p, intent) = "Error"
    /\ FaultJob
    /\ QuietNet
    /\ UNCHANGED <<sweep, stop, caching, startAsked>>

Nothing == \A p \in Participants : Operation(p, intent) = "None"

\* prepare_next_job_operation at Installed: confirmation opens and its first
\* request goes out, or the window may be closed on some device.
ConfirmStep ==
    /\ Direct /\ Nothing /\ JobPhase = "Installed"
    /\ \/ /\ ConfirmationOpen
          /\ intent' = "Confirm"
          /\ \E p \in Participants : RequestUnder(p, "Confirm")
          /\ UNCHANGED <<target, cleanup, queue, override>>
       \/ /\ ~ConfirmationOpen
          /\ FaultJob
    /\ QuietNet
    /\ UNCHANGED <<sweep, stop, caching, startAsked>>

\* Mutation: a job past its guard is left alone.
PollConfirmed ==
    /\ Direct /\ Nothing /\ JobPhase = "Confirmed"
    /\ StatusRound
    /\ QuietNet
    /\ UNCHANGED <<sweep, stop, caching, startAsked>>

\* ... and after confirmation: a status round,
PollStep ==
    /\ Direct /\ Nothing /\ JobPhase \in {"Confirmed", "Irrevocable"}
    /\ StatusRound
    /\ QuietNet
    /\ UNCHANGED <<sweep, stop, caching, startAsked>>

\* attended_lease_target: an unapplied request is repeated while it is worth it;
\* otherwise authority grows.
LeaseTarget(p) ==
    {part[p].authorized + 1}
      \cup (IF part[p].report.lease < part[p].authorized THEN {part[p].authorized} ELSE {})

LeaseTargets ==
    {leases \in Leases : \A p \in Participants : leases[p] \in LeaseTarget(p)}

\* ... or a lease renewal that is due.  Whether it is due is up to the clocks.
RenewStep ==
    /\ Attended
    /\ Direct /\ Nothing /\ JobPhase \in {"Confirmed", "Irrevocable"}
    /\ \E leases \in LeaseTargets :
         \/ /\ ~stop /\ RenewalAdmitted(leases)
            /\ part' = [p \in Participants |-> BeginRenew(part[p], leases[p])]
            /\ SendHead(ToEach("RenewLease", leases))
            /\ UNCHANGED <<intent, target, cleanup, override>>
         \/ /\ stop \/ ~RenewalAdmitted(leases)
            /\ FaultJob
    /\ QuietNet
    /\ UNCHANGED <<sweep, stop, caching, startAsked>>

-----------------------------------------------------------------------------
(* perform_live_job_operation: the fetch ends.                             *)

FetchAnswered(p) ==
    /\ ~caching
    /\ AcceptResponse(p)
    /\ UNCHANGED jobVars

\* The peers whose requests are still queued are abandoned too.
Drained(machines) ==
    [p \in Participants |->
        IF \E i \in 1 .. Len(queue) : queue[i].to = p
          THEN Abandon(machines[p]) ELSE machines[p]]

\* Mutation: the requests queued behind the lost one still go out.
FetchFailedAlone(p) ==
    /\ wire[p] # NoRequest \/ answer[p] # NoAnswer
    /\ faults < MaxFaults
    /\ faults' = faults + 1
    /\ part' = [part EXCEPT ![p] = Abandon(part[p])]
    /\ sweep' = TRUE
    /\ wire' = [wire EXCEPT ![p] = NoRequest]
    /\ answer' = [answer EXCEPT ![p] = NoAnswer]
    /\ UNCHANGED <<intent, target, cleanup, late, deviceVars, queue, stop, override,
                   caching, startAsked>>

FetchFailed(p) ==
    /\ wire[p] # NoRequest \/ answer[p] # NoAnswer
    /\ faults < MaxFaults
    /\ faults' = faults + 1
    /\ part' = Drained([part EXCEPT ![p] = Abandon(part[p])])
    /\ queue' = <<>>
    /\ sweep' = TRUE
    /\ late' = IF wire[p].op \in Operations /\ Mutates(wire[p].op)
                 THEN [late EXCEPT ![p] = @ \cup {wire[p]}] ELSE late
    /\ wire' = [wire EXCEPT ![p] = NoRequest]
    /\ answer' = [answer EXCEPT ![p] = NoAnswer]
    /\ UNCHANGED <<intent, target, cleanup, deviceVars, stop, override,
                   caching, startAsked>>

-----------------------------------------------------------------------------
JobInit ==
    /\ Init
    /\ queue = <<>>
    /\ sweep = FALSE
    /\ stop = FALSE
    /\ override = "None"
    /\ caching = TRUE
    /\ startAsked = FALSE

\* A tick of the worker's timer that finds every participant idle and qualified.
Tick ==
    \/ CacheComplete
    \/ BeginPendingStart
    \/ DropPendingStart
    \/ SweepStep
    \/ QueueStep
    \/ \E p \in Participants : RequestStep(p)
    \/ ErrorStep
    \/ ConfirmStep
    \/ PollStep
    \/ RenewStep

JobNext ==
    \/ Tick
    \/ RequestStart
    \/ RequestStop
    \/ BindingFault
    \/ \E p \in Participants : FetchAnswered(p) \/ FetchFailed(p)
    \/ \E p \in Participants : DeviceNext(p) /\ UNCHANGED jobVars

JobSpec == JobInit /\ [][JobNext]_allVars

\* The browser's fetch goes on; the devices answer, work and keep time.  The operator,
\* faults, and late requests are not obliged, and neither is a tick.
JobFairness ==
    \A p \in Participants :
        /\ WF_allVars(FetchAnswered(p))
        /\ WF_allVars(DeviceExecute(p) /\ UNCHANGED jobVars)
        /\ WF_allVars(DeviceProgress(p) /\ UNCHANGED jobVars)
        /\ WF_allVars(Elapse(p) /\ UNCHANGED jobVars)

\* The hypothesis of what follows: while the job has a step to take, a tick sooner or later
\* finds all its participants idle and qualified.  Heartbeats leave a job of one its turn
\* (ControlWorker's JobOfOneProgresses); of several they can hold one at every tick.
TicksFindAllIdle == WF_allVars(Tick)

FairJobSpec == JobSpec /\ JobFairness

-----------------------------------------------------------------------------
(* Properties.                                                             *)

JobTypeOK ==
    /\ TypeOK
    /\ queue \in Seq(Queued)
    /\ sweep \in BOOLEAN
    /\ stop \in BOOLEAN
    /\ override \in {"None", "Cancelled", "Faulted"}
    /\ caching \in BOOLEAN
    /\ startAsked \in BOOLEAN

\* After a lost exchange no peer's knowledge from before the outage authorizes a
\* mutation: until every participant was asked again, only status requests leave
\* ("no peer's stale pre-outage state can authorize a later mutation").
SweepBeforeMutation ==
    [][sweep => \A p \in Participants :
          wire'[p] # wire[p] => wire'[p].op \in {"None", "Status"}]_allVars

\* If ticks find its participants idle, a job that was not stopped always ends once
\* confirmation has opened.
ConfirmedEnds == TicksFindAllIdle => ((intent = "Confirm") ~> JobTerminal)

\* If they do, a job on fresh devices becomes ready, whatever finite losses it meets.
BecomesReady == TicksFindAllIdle => <>(JobPhase = "Ready" \/ JobTerminal)

\* "Switches all still-reachable installed work to pre-guard abort
\* reconciliation": a stop that was accepted after confirmation opened brings
\* every participant to a terminal state, if ticks find them idle.
StopEnds ==
    TicksFindAllIdle => ((stop /\ \A p \in Participants : dev[p].commit = "Ours") ~> JobTerminal)

\* Refuted (MCLiveJobOutcome.cfg).  "Every precommit participant is absent or fully cancelled."
CancelledIsClean ==
    JobPhase = "Cancelled" /\ ~caching =>
        \A p \in Participants : dev[p].owner # "This" \/ dev[p].actor = "Cancelled"

\* Refuted (MCLiveJobOutcome.cfg).  "A terminal or inconsistent participant state prevented the global job": no
\* device still holds start authority.
FaultedIsPrevented ==
    JobPhase = "Faulted" /\ override = "None" =>
        \A p \in Participants : ~(dev[p].commit = "Ours" /\ dev[p].sched \in Authorized)

\* Refuted (MCLiveJobAttended.cfg).  "Read-only status rounds carry the job through ... exact completion": while
\* every device is healthy and started, the worker does not fault the job.
HealthyJobGoesOn ==
    (\A p \in Participants : dev[p].commit = "Ours" /\ dev[p].sched \in PastGuard)
        => override # "Faulted"
=============================================================================

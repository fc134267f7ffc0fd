------------------------------- MODULE GraphRun -------------------------------
(***************************************************************************)
(* Runs of a deployed graph, driven one request at a time: the start, the  *)
(* polls until both cores run, the stop and the polls until both have      *)
(* stopped.  Every request names the exact run; one whose answer is lost   *)
(* is sent again, and the lost copy may still arrive.                      *)
(*                                                                         *)
(* The firmware's graph coordinator is external.  It admits a run of its   *)
(* boot once, takes a start or a stop of the current run again, and        *)
(* refuses every other.  Its own phase runs ahead of the actors of the two *)
(* cores, and one report carries all three.                                *)
(***************************************************************************)
EXTENDS Integers

CONSTANTS
    MaxRun,     \* bound on runs
    MaxLosses,  \* bound on lost exchanges
    MaxBoots    \* bound on device boots

VARIABLES
    machine,    \* the client's GraphRunMachine
    request,    \* the request on its way, or NoRequest
    response,   \* its answer, or NoResponse
    late,       \* abandoned requests that may still reach the device
    device,     \* the coordinator and the actors of both cores
    boot,       \* the device's boot
    session,    \* the boot the session signs for
    losses      \* lost exchanges so far

vars == <<machine, request, response, late, device, boot, session, losses>>

-----------------------------------------------------------------------------
(* Values.                                                                 *)

Runs == 1..MaxRun
Boots == 1..MaxBoots
Phases == {"Starting", "AwaitingRunning", "Running", "Stopping", "AwaitingStopped", "Complete"}
Actions == {"None", "Start", "PollRunning", "Stop", "PollStopped"}
Machines == [run : Runs, boot : Boots, phase : Phases, pending : Actions, fault : BOOLEAN]
NewMachine(r) ==
    [run |-> r, boot |-> session, phase |-> "Starting", pending |-> "None", fault |-> FALSE]

\* Every request is signed for a boot; a start and a stop carry the exact run.
Operations == {"None", "Start", "Get", "Stop"}
Requests == [op : Operations, run : 0..MaxRun, boot : Boots]
NoRequest == [op |-> "None", run |-> 0, boot |-> 1]

Actors == {"service", "realtime"}
Devices ==
    [phase : {"Active", "Starting", "Running", "Stopping", "ExecutionFaulted"},
     run : 0..MaxRun, ended : 0..MaxRun, running : SUBSET Actors]
FreshDevice == [phase |-> "Active", run |-> 0, ended |-> 0, running |-> {}]

Answer(ok) == [status |-> IF ok THEN "Ok" ELSE "Refused", report |-> device]
NoResponse == [status |-> "None", report |-> FreshDevice]

-----------------------------------------------------------------------------
(* The client.                                                             *)

\* request_stop: refused until the start is acknowledged and while a request is
\* pending.
RequestStop ==
    /\ machine.pending = "None"
    /\ machine.phase \in {"AwaitingRunning", "Running"}
    /\ machine' = [machine EXCEPT !.phase = "Stopping"]
    /\ UNCHANGED <<request, response, late, device, boot, session, losses>>

NextAction ==
    CASE machine.phase = "Starting"        -> "Start"
      [] machine.phase = "AwaitingRunning" -> "PollRunning"
      [] machine.phase = "Stopping"        -> "Stop"
      [] machine.phase = "AwaitingStopped" -> "PollStopped"
      [] machine.phase \in {"Running", "Complete"} -> "None"

\* Mutation: the action is sent as it is named.
RequestOfAction(action) == [op |-> action, run |-> machine.run, boot |-> session]

RequestOf(action) ==
    [op |-> IF action \in {"Start", "Stop"} THEN action ELSE "Get",
     run |-> machine.run, boot |-> session]

\* next_request; nothing is sent while the graph runs or is complete.
NextRequest ==
    /\ machine.pending = "None"
    /\ NextAction # "None"
    /\ machine' = [machine EXCEPT !.pending = NextAction]
    /\ request' = RequestOf(NextAction)
    /\ UNCHANGED <<response, late, device, boot, session, losses>>

RunningMatches(report) == report.running = Actors

\* Mutation: the coordinator's phase is taken for the actors'.
StoppedMatchesByPhase(report) == TRUE

StoppedMatches(report) == report.running = {}

\* The phase an answered action leads to; an unexpected phase changes nothing.
PhaseAfter(report) ==
    CASE report.phase = "Stopping" -> "AwaitingStopped"
      [] report.phase = "Active" /\ StoppedMatches(report) -> "Complete"
      [] /\ report.phase = "Starting"
         /\ machine.pending \in {"Start", "PollRunning"} -> "AwaitingRunning"
      [] /\ report.phase = "Running"
         /\ RunningMatches(report)
         /\ machine.pending \in {"Start", "PollRunning"} -> "Running"
      [] OTHER -> machine.phase

\* Mutation: a faulted graph is taken to need no stop.
AcceptedFaultEnds(report) ==
    IF report.phase = "ExecutionFaulted"
      THEN [machine EXCEPT !.pending = "None", !.fault = TRUE, !.phase = "Complete"]
      ELSE [machine EXCEPT !.pending = "None", !.phase = PhaseAfter(report)]

\* A report of this run; a fault is kept and turns the machine to stopping.
Accepted(report) ==
    IF report.phase = "ExecutionFaulted"
      THEN [machine EXCEPT !.pending = "None", !.fault = TRUE, !.phase = "Stopping"]
      ELSE [machine EXCEPT !.pending = "None", !.phase = PhaseAfter(report)]

\* accept_response: a refusal or the report of another run changes only pending.
AcceptResponse ==
    /\ response # NoResponse
    /\ machine' = IF response.status = "Ok" /\ response.report.run = machine.run
                    THEN Accepted(response.report)
                    ELSE [machine EXCEPT !.pending = "None"]
    /\ request' = NoRequest
    /\ response' = NoResponse
    /\ UNCHANGED <<late, device, boot, session, losses>>

\* Mutation: a lost request is taken for accepted.
AfterAbandonSent ==
    [machine EXCEPT !.pending = "None",
                    !.phase = IF @ = "Stopping" THEN "AwaitingStopped" ELSE @]

AfterAbandon == [machine EXCEPT !.pending = "None"]

\* abandon_pending, after a fetch that failed.  A device of another boot leaves it
\* no choice; the session is then opened again.
AbandonPending ==
    /\ request # NoRequest
    /\ IF request.boot = boot
         THEN losses < MaxLosses /\ losses' = losses + 1
         ELSE UNCHANGED losses
    /\ late' = late \cup {request}
    /\ request' = NoRequest
    /\ response' = NoResponse
    /\ machine' = AfterAbandon
    /\ session' = boot
    /\ UNCHANGED <<device, boot>>

\* The caller begins another run, after the last or when the device has restarted,
\* which a machine on its own does not get over.
BeginRun ==
    /\ machine.pending = "None"
    /\ machine.phase = "Complete" \/ machine.boot # session
    /\ machine.run < MaxRun
    /\ machine' = NewMachine(machine.run + 1)
    /\ UNCHANGED <<request, response, late, device, boot, session, losses>>

-----------------------------------------------------------------------------
(* The device.                                                             *)

Executing == device.phase \in {"Starting", "Running", "ExecutionFaulted"}

CanStart(q) ==
    /\ q.op = "Start" /\ q.boot = boot
    /\ device.phase = "Active" /\ device.running = {}
    /\ q.run > device.run

CanStop(q) ==
    /\ q.op = "Stop" /\ q.boot = boot
    /\ Executing
    /\ q.run \in {device.run, 0}

\* A request takes effect when it arrives, the live one or a late one.
Arrive(q) ==
    /\ \/ /\ CanStart(q)
          /\ device' = [device EXCEPT !.phase = "Starting", !.run = q.run]
       \/ /\ CanStop(q)
          /\ device' = [device EXCEPT !.phase = "Stopping", !.ended = device.run]
    /\ UNCHANGED <<machine, request, response, late, boot, session, losses>>

\* The live request is answered once it has taken effect or can not.
DeviceAnswers ==
    /\ request # NoRequest
    /\ request.boot = boot
    /\ response = NoResponse
    /\ ~ CanStart(request) /\ ~ CanStop(request)
    /\ response' = Answer(request.op = "Get" \/ request.run = device.run)
    /\ UNCHANGED <<machine, request, late, device, boot, session, losses>>

ActorStarts(a) ==
    /\ device.phase \in {"Starting", "Running"}
    /\ a \notin device.running
    /\ device' = [device EXCEPT !.running = @ \cup {a}]
    /\ UNCHANGED <<machine, request, response, late, boot, session, losses>>

\* The coordinator goes on as soon as one of the actors has.
CoordinatorRuns ==
    /\ device.phase = "Starting"
    /\ "service" \in device.running
    /\ device' = [device EXCEPT !.phase = "Running"]
    /\ UNCHANGED <<machine, request, response, late, boot, session, losses>>

ExecutionFaults ==
    /\ device.phase \in {"Starting", "Running"}
    /\ device.running # {}
    /\ device' = [device EXCEPT !.phase = "ExecutionFaulted"]
    /\ UNCHANGED <<machine, request, response, late, boot, session, losses>>

ActorStops(a) ==
    /\ ~ Executing
    /\ a \in device.running
    /\ device' = [device EXCEPT !.running = @ \ {a}]
    /\ UNCHANGED <<machine, request, response, late, boot, session, losses>>

CoordinatorStops ==
    /\ device.phase = "Stopping"
    /\ "service" \notin device.running
    /\ device' = [device EXCEPT !.phase = "Active"]
    /\ UNCHANGED <<machine, request, response, late, boot, session, losses>>

Restart ==
    /\ boot < MaxBoots
    /\ boot' = boot + 1
    /\ device' = FreshDevice
    /\ response' = NoResponse
    /\ UNCHANGED <<machine, request, late, session, losses>>

-----------------------------------------------------------------------------
Init ==
    /\ session = 1
    /\ machine = NewMachine(1)
    /\ request = NoRequest
    /\ response = NoResponse
    /\ late = {}
    /\ device = FreshDevice
    /\ boot = 1
    /\ losses = 0

Next ==
    \/ RequestStop
    \/ NextRequest
    \/ AcceptResponse
    \/ AbandonPending
    \/ BeginRun
    \/ \E q \in late \cup {request} : Arrive(q)
    \/ DeviceAnswers
    \/ \E a \in Actors : ActorStarts(a) \/ ActorStops(a)
    \/ CoordinatorRuns
    \/ ExecutionFaults
    \/ CoordinatorStops
    \/ Restart

Spec == Init /\ [][Next]_vars

\* The caller keeps driving the machine, fetches end, the device works.
FairSpec ==
    /\ Spec
    /\ WF_vars(NextRequest) /\ WF_vars(AcceptResponse) /\ WF_vars(DeviceAnswers)
    /\ WF_vars(Arrive(request))
    /\ WF_vars(request.boot # boot /\ AbandonPending)
    /\ \A a \in Actors : WF_vars(ActorStarts(a)) /\ WF_vars(ActorStops(a))
    /\ WF_vars(CoordinatorRuns) /\ WF_vars(CoordinatorStops)

-----------------------------------------------------------------------------
(* Properties.                                                             *)

TypeOK ==
    /\ machine \in Machines
    /\ request \in Requests
    /\ response \in [status : {"None", "Ok", "Refused"}, report : Devices]
    /\ late \subseteq Requests
    /\ device \in Devices
    /\ boot \in Boots
    /\ session \in Boots
    /\ losses \in 0..MaxLosses

\* A completed run is over on both cores, whatever copies of its start arrive
\* later (stopped_matches).
CompleteIsQuiescent ==
    machine.phase = "Complete" /\ device.run = machine.run =>
        device.running = {} /\ ~ Executing

\* A run ends only by its own stop: no stop of an earlier run, sent late, ends
\* the one that runs now.
StoppedByOwnMachine ==
    device.ended # 0 /\ device.ended = machine.run /\ machine.boot = boot =>
        machine.phase \in {"Stopping", "AwaitingStopped", "Complete"}

\* Once stopping, through a request or a fault, the run completes, unless the
\* device restarts.
StopEnds ==
    machine.phase = "Stopping" ~> machine.phase = "Complete" \/ machine.boot # boot
=============================================================================

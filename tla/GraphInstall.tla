----------------------------- MODULE GraphInstall -----------------------------
(***************************************************************************)
(* Installing a published graph package: the install, the polls until both *)
(* cores have admitted its bytes, the activation and the polls until the   *)
(* package is active and authorized.  One machine drives one transaction;  *)
(* a request whose answer is lost is sent again, and the lost copy may     *)
(* still arrive.                                                           *)
(*                                                                         *)
(* The firmware is external: a service that announces the lifecycle and a  *)
(* realtime core that validates, selects and is authorized behind it, so   *)
(* that one report can show the two at different points, the realtime core *)
(* even at an earlier transaction.  The service keeps the transaction it   *)
(* committed over a restart.                                               *)
(***************************************************************************)
EXTENDS Integers

CONSTANTS
    MaxTxn,     \* bound on transactions
    MaxLosses,  \* bound on lost exchanges
    MaxBoots    \* bound on device boots

VARIABLES
    machine,    \* the client's GraphInstallMachine
    request,    \* the request on its way, or NoRequest
    response,   \* its answer, or NoResponse
    late,       \* abandoned requests that may still reach the device
    device,     \* both sides of the firmware
    boot,       \* the device's boot
    session,    \* the boot the session signs for
    seen,       \* device: transactions that were rejected, active, asked for
    losses      \* lost exchanges so far

vars == <<machine, request, response, late, device, boot, session, seen, losses>>

-----------------------------------------------------------------------------
(* Values.                                                                 *)

Txns == 1..MaxTxn
Boots == 1..MaxBoots
Phases == {"Installing", "AwaitingCandidate", "Activating", "AwaitingActive", "Complete"}
Actions == {"None", "Install", "PollCandidate", "Activate", "PollActive"}
Machines ==
    [txn : Txns, boot : Boots, phase : Phases, pending : Actions, rejected : BOOLEAN]
NewMachine(t) == [txn |-> t, boot |-> session, phase |-> "Installing",
                  pending |-> "None", rejected |-> FALSE]

Requests == [op : {"None", "Install", "Get", "Activate"}, txn : 0..MaxTxn, boot : Boots]
NoRequest == [op |-> "None", txn |-> 0, boot |-> 1]

\* The service's transaction and phase, its committed transaction, and the
\* realtime core's transaction, state, selection and authorization.
Devices ==
    [txn : 0..MaxTxn,
     phase : {"Empty", "Recovering", "Validating", "CandidateValid", "Preparing", "Active",
              "Rejected"},
     committed : 0..MaxTxn,
     rtTxn : 0..MaxTxn, rtState : {"Empty", "Candidate", "Active", "Rejected"},
     rtActive : 0..MaxTxn, authorized : BOOLEAN]
FreshDevice ==
    [txn |-> 0, phase |-> "Empty", committed |-> 0,
     rtTxn |-> 0, rtState |-> "Empty", rtActive |-> 0, authorized |-> FALSE]

Answer(ok) == [status |-> IF ok THEN "Ok" ELSE "Refused", report |-> device]
NoResponse == [status |-> "None", report |-> FreshDevice]

-----------------------------------------------------------------------------
(* The client.                                                             *)

NextAction ==
    CASE machine.phase = "Installing"        -> "Install"
      [] machine.phase = "AwaitingCandidate" -> "PollCandidate"
      [] machine.phase = "Activating"        -> "Activate"
      [] machine.phase = "AwaitingActive"    -> "PollActive"
      [] machine.phase = "Complete"          -> "None"

\* Mutation: the action is sent as it is named.
RequestOfAction(action) == [op |-> action, txn |-> machine.txn, boot |-> session]

RequestOf(action) ==
    [op |-> IF action \in {"Install", "Activate"} THEN action ELSE "Get",
     txn |-> machine.txn, boot |-> session]

NextRequest ==
    /\ machine.pending = "None"
    /\ NextAction # "None"
    /\ ~ machine.rejected
    /\ machine' = [machine EXCEPT !.pending = NextAction]
    /\ request' = RequestOf(NextAction)
    /\ seen' = IF NextAction = "Activate"
                 THEN [seen EXCEPT !.asked = @ \cup {machine.txn}] ELSE seen
    /\ UNCHANGED <<response, late, device, boot, session, losses>>

ActiveMatches(report) ==
    /\ report.rtState = "Active"
    /\ report.rtTxn = machine.txn
    /\ report.rtActive = machine.txn
    /\ report.authorized

\* Mutation: the realtime core's last transaction is taken for this one.
RejectsAnyTransaction(report) ==
    report.phase = "Rejected" \/ report.rtState = "Rejected"

\* A coordinator that names a fault is taken to be in its phase Rejected.
Rejects(report) ==
    \/ report.phase = "Rejected"
    \/ report.rtState = "Rejected" /\ report.rtTxn = machine.txn

\* The phase an answered action leads to; an unexpected phase changes nothing.
PhaseAfter(report) ==
    LET early == machine.pending \in {"Install", "PollCandidate"}
    IN  CASE report.phase = "Active" /\ ActiveMatches(report) -> "Complete"
          [] report.phase = "Preparing"                   -> "AwaitingActive"
          [] early /\ report.phase = "CandidateValid"     -> "Activating"
          [] early /\ report.phase = "Validating"         -> "AwaitingCandidate"
          [] early /\ report.phase = "Recovering"         -> "AwaitingActive"
          [] OTHER                                        -> machine.phase

Accepted(report) ==
    IF Rejects(report)
      THEN [machine EXCEPT !.pending = "None", !.rejected = TRUE]
      ELSE [machine EXCEPT !.pending = "None", !.phase = PhaseAfter(report)]

\* accept_response: a refusal or the report of another transaction changes only
\* pending.  The caller is told of a rejection and drives the machine no more.
AcceptResponse ==
    /\ response # NoResponse
    /\ machine' = IF response.status = "Ok" /\ response.report.txn = machine.txn
                    THEN Accepted(response.report)
                    ELSE [machine EXCEPT !.pending = "None"]
    /\ request' = NoRequest
    /\ response' = NoResponse
    /\ UNCHANGED <<late, device, boot, session, seen, losses>>

AfterAbandon == [machine EXCEPT !.pending = "None"]

\* abandon_pending, after a fetch that failed.  A device of another boot leaves it
\* no choice; the session is then opened again.
AbandonPending ==
    /\ request # NoRequest
    /\ IF request.boot = boot
         THEN losses < MaxLosses /\ losses' = losses + 1
         ELSE UNCHANGED losses
    /\ late' = late \cup {request}
    /\ request' = NoRequest
    /\ response' = NoResponse
    /\ machine' = AfterAbandon
    /\ session' = boot
    /\ UNCHANGED <<device, boot, seen>>

\* The caller installs another package: after the last, after a rejection, or when
\* the device has restarted, which may have forgotten the transaction.
BeginInstall ==
    /\ machine.pending = "None"
    /\ machine.phase = "Complete" \/ machine.rejected \/ machine.boot # session
    /\ machine.txn < MaxTxn
    /\ machine' = NewMachine(machine.txn + 1)
    /\ UNCHANGED <<request, response, late, device, boot, session, seen, losses>>

-----------------------------------------------------------------------------
(* The device.                                                             *)

CanInstall(q) ==
    /\ q.op = "Install" /\ q.boot = boot
    /\ q.txn > device.txn
    /\ device.phase \notin {"Recovering", "Preparing"}

CanActivate(q) ==
    /\ q.op = "Activate" /\ q.boot = boot
    /\ q.txn \in {device.txn, 0}
    /\ device.phase = "CandidateValid"

\* A request takes effect when it arrives, the live one or a late one.
Arrive(q) ==
    /\ \/ /\ CanInstall(q)
          /\ device' = [device EXCEPT !.txn = q.txn, !.phase = "Validating"]
       \/ /\ CanActivate(q)
          /\ device' = [device EXCEPT !.phase = "Preparing"]
    /\ UNCHANGED <<machine, request, response, late, boot, session, seen, losses>>

\* The live request is answered once it has taken effect or can not.
DeviceAnswers ==
    /\ request # NoRequest
    /\ request.boot = boot
    /\ response = NoResponse
    /\ ~ CanInstall(request) /\ ~ CanActivate(request)
    /\ response' = Answer(request.op = "Get" \/ request.txn = device.txn)
    /\ UNCHANGED <<machine, request, late, device, boot, session, seen, losses>>

\* The realtime core validates the candidate, or after a restart replays the
\* committed package.
RealtimeValidates ==
    /\ device.phase \in {"Validating", "Recovering"}
    /\ device.rtTxn # device.txn
    /\ \E ok \in BOOLEAN :
        /\ device.phase = "Recovering" => ok
        /\ device' = [device EXCEPT !.rtTxn = device.txn,
                                    !.rtState = IF ok THEN "Candidate" ELSE "Rejected"]
        /\ seen' = IF ok THEN seen ELSE [seen EXCEPT !.rejected = @ \cup {device.txn}]
    /\ UNCHANGED <<machine, request, response, late, boot, session, losses>>

ServiceFollows ==
    /\ device.phase \in {"Validating", "Recovering"}
    /\ device.rtTxn = device.txn
    /\ device' = [device EXCEPT !.phase = IF @ = "Recovering" THEN "Preparing"
                                          ELSE IF device.rtState = "Rejected" THEN "Rejected"
                                          ELSE "CandidateValid"]
    /\ UNCHANGED <<machine, request, response, late, boot, session, seen, losses>>

RealtimeActivates ==
    /\ device.phase = "Preparing"
    /\ device.rtState = "Candidate"
    /\ device' = [device EXCEPT !.rtState = "Active", !.rtActive = device.txn,
                                !.authorized = FALSE]
    /\ UNCHANGED <<machine, request, response, late, boot, session, seen, losses>>

\* The service commits the selection, and authorizes it a moment later.
ServiceCommits ==
    /\ device.phase = "Preparing"
    /\ device.rtState = "Active"
    /\ device' = [device EXCEPT !.phase = "Active", !.committed = device.txn]
    /\ UNCHANGED <<machine, request, response, late, boot, session, seen, losses>>

ServiceAuthorizes ==
    /\ device.phase = "Active"
    /\ ~ device.authorized
    /\ device' = [device EXCEPT !.authorized = TRUE]
    /\ seen' = [seen EXCEPT !.active = @ \cup {device.txn}]
    /\ UNCHANGED <<machine, request, response, late, boot, session, losses>>

Restart ==
    /\ boot < MaxBoots
    /\ boot' = boot + 1
    /\ device' = [FreshDevice EXCEPT
                    !.txn = device.committed, !.committed = device.committed,
                    !.phase = IF device.committed = 0 THEN "Empty" ELSE "Recovering"]
    /\ response' = NoResponse
    /\ UNCHANGED <<machine, request, late, session, seen, losses>>

-----------------------------------------------------------------------------
Init ==
    /\ session = 1
    /\ machine = NewMachine(1)
    /\ request = NoRequest
    /\ response = NoResponse
    /\ late = {}
    /\ device = FreshDevice
    /\ boot = 1
    /\ seen = [rejected |-> {}, active |-> {}, asked |-> {}]
    /\ losses = 0

Firmware ==
    \/ RealtimeValidates
    \/ ServiceFollows
    \/ RealtimeActivates
    \/ ServiceCommits
    \/ ServiceAuthorizes

Next ==
    \/ NextRequest
    \/ AcceptResponse
    \/ AbandonPending
    \/ BeginInstall
    \/ \E q \in late \cup {request} : Arrive(q)
    \/ DeviceAnswers
    \/ Firmware
    \/ Restart

Spec == Init /\ [][Next]_vars

\* The caller keeps driving the machine, fetches end, both cores work.
FairSpec ==
    /\ Spec
    /\ WF_vars(NextRequest) /\ WF_vars(AcceptResponse) /\ WF_vars(DeviceAnswers)
    /\ WF_vars(Arrive(request))
    /\ WF_vars(request.boot # boot /\ AbandonPending)
    /\ WF_vars(Firmware)

-----------------------------------------------------------------------------
(* Properties.                                                             *)

TypeOK ==
    /\ machine \in Machines
    /\ request \in Requests
    /\ response \in [status : {"None", "Ok", "Refused"}, report : Devices]
    /\ late \subseteq Requests
    /\ device \in Devices
    /\ boot \in Boots
    /\ session \in Boots
    /\ seen \in [rejected : SUBSET Txns, active : SUBSET Txns, asked : SUBSET Txns]
    /\ losses \in 0..MaxLosses

\* A completed installation is of a package that the realtime core selected and the
\* service authorized (active_matches).
CompleteIsActive == machine.phase = "Complete" => machine.txn \in seen.active

\* A rejection told to the caller is of this package, not of the one the realtime
\* core saw before (realtime_matches).
RejectedIsTrue == machine.rejected => machine.txn \in seen.rejected

\* A package becomes active only if its own machine asked for it: a late activation
\* of an earlier package does not activate a later candidate.
ActivatedWhenAsked == seen.active \subseteq seen.asked

\* An installation ends, unless the device restarts.
InstallEnds ==
    [](machine.phase # "Complete" =>
         <>(machine.phase = "Complete" \/ machine.rejected \/ machine.boot # boot))
=============================================================================

------------------------- MODULE DeviceServices_proofs -------------------------
(***************************************************************************)
(* The services of a device for any number of transactions, losses and      *)
(* restarts: what the page is told of a network mutation, an installation   *)
(* or a run is what the device did, and nothing let go of can still happen. *)
(***************************************************************************)
EXTENDS MCDeviceServices, TLAPS

-----------------------------------------------------------------------------
(* Runs.  A request is of the machine's run or an earlier one; what the     *)
(* report of an ended run says stays so.                                    *)

Ending == {"Stopping", "AwaitingStopped", "Complete"}
Quiet == device.phase = "Active" /\ device.running = {}

\* The live request is the machine's, and every request names a run begun before.  A stop
\* of the machine's own run exists only once that run is to end.
RequestsOfRuns ==
    /\ (request # Run!NoRequest) <=> (run.pending # "None")
    /\ run.phase \in {"Running", "Complete"} => run.pending = "None"
    /\ run.phase \in {"Stopping", "AwaitingStopped"} => run.pending \in {"None", "Stop", "PollStopped"}
    /\ \A q \in late \cup {request} :
         q.op # "None" =>
            /\ 0 < q.run /\ q.run <= run.run /\ q.boot <= session
            /\ q.op = "Stop" => q.run < run.run \/ run.phase \in Ending
    /\ session <= boot

\* The device has got no further than the machine.  Once the machine has seen its run
\* over, the device is quiet in it, or has restarted and no start of it can be admitted.
DeviceOfRuns ==
    /\ device.ended <= run.run
    /\ device.run <= run.run
    /\ device.ended # 0 /\ device.ended = run.run => run.phase \in Ending
    /\ run.phase = "Complete" =>
         \/ device.run = run.run /\ Quiet
         \/ /\ device.run < run.run
            /\ \A q \in late \cup {request} :
                 q.op = "Start" /\ q.boot = boot => q.run < run.run

\* A report of both cores stopped in the device's present run holds until it is read: only a
\* start of a later run ends the quiet.
ReportsOfRuns ==
    response # Run!NoResponse =>
        /\ request # Run!NoRequest /\ request.boot = boot
        /\ response.report.run <= device.run
        /\ (/\ response.report.run = device.run /\ device.run # 0
            /\ response.report.phase = "Active" /\ response.report.running = {}) => Quiet

RunParts == Run!TypeOK /\ RequestsOfRuns /\ DeviceOfRuns /\ ReportsOfRuns
RunInv == service = "Run" => RunParts

-----------------------------------------------------------------------------
(* Installations.  What a report tells of a transaction was seen to happen, *)
(* and what was seen stays so: a report may be old and is still right.       *)

\* Authorized is the selection of the realtime core, rejected the transaction named.
Truthful(d) ==
    /\ d.authorized => d.rtActive \in seen.active
    /\ d.phase = "Rejected" => d.txn \in seen.rejected
    /\ d.rtState = "Rejected" => d.rtTxn \in seen.rejected

\* The realtime core follows the service: where the service has moved past it, it is at the
\* same transaction, and a transaction is being activated only after its machine asked.
DeviceOfInstalls ==
    /\ Truthful(device)
    /\ device.rtTxn <= device.txn
    /\ device.phase # "Empty" => device.txn # 0
    /\ device.phase \in {"Validating", "Recovering"} /\ device.rtTxn = device.txn =>
         device.rtState \in {"Candidate", "Rejected"}
    /\ device.phase \in {"Recovering", "CandidateValid"} /\ device.rtTxn = device.txn =>
         device.rtState = "Candidate"
    /\ device.phase \in {"CandidateValid", "Preparing", "Active"} => device.rtTxn = device.txn
    /\ device.phase = "Preparing" => device.rtState \in {"Candidate", "Active"}
    /\ device.phase = "Active" => device.rtState = "Active"
    /\ device.phase \in {"Preparing", "Active"} /\ device.rtState = "Active" =>
         device.rtActive = device.txn
    /\ device.phase \in {"Preparing", "Active", "Recovering"} => device.txn \in seen.asked
    /\ device.committed # 0 => device.committed \in seen.asked

InstallParts ==
    /\ Install!TypeOK
    /\ Install!CompleteIsActive /\ Install!RejectedIsTrue /\ Install!ActivatedWhenAsked
    /\ DeviceOfInstalls
    /\ Truthful(response.report)
    /\ \A q \in late \cup {request} : q.op = "Activate" => q.txn \in seen.asked
InstallInv == service = "Install" => InstallParts

-----------------------------------------------------------------------------
(* Network mutations.                                                      *)

Mutates(intent) == intent.op \in Network!Mutations
Responses ==
    [kind : {"None", "Ok", "Failed", "Garbled", "Refused", "RefusedBody"},
     status : Network!Statuses, txn : Network!Txns \cup {0}]

\* A request is on its way exactly while the machine awaits one, and says what the machine
\* would; nothing is sent for a boot the machine has not been bound to.
RequestOfIntent ==
    /\ (request # Network!NoRequest) <=> (state.phase = "Awaiting")
    /\ request # Network!NoRequest =>
         /\ session
         /\ request = [intent |-> IF state.reconciliation THEN Network!StatusIntent ELSE state.intent,
                       boot |-> bound]
    /\ bound <= boot
    /\ state.reconciliation \/ state.phase = "Reconciling" => Mutates(state.intent)
    /\ \A q \in late : Mutates(q.intent) /\ q.boot <= bound

\* An own transaction is observed once, and a request of it is of one boot.
MayComeFirst(intent) ==
    /\ intent.txn \in Network!Own /\ intent.txn < nextTxn
    /\ intent.gen <= device.gen
    /\ outcome[intent.txn] = "Unseen" \/ intent.txn <= device.last

TransactionsOnce ==
    /\ nextTxn % 2 = 0
    /\ \A t \in Network!Own : t >= nextTxn => outcome[t] = "Unseen"
    /\ Mutates(state.intent) =>
         state.intent.txn \in Network!Own /\ (bound = boot => MayComeFirst(state.intent))
    /\ \A q \in late : q.boot = boot => MayComeFirst(q.intent)
    /\ bound = boot /\ latest # Network!NoStatus => latest.gen <= device.gen

\* What a status says of the last transaction is what became of it.
Tells(status) ==
    status.last # 0 /\ ~ status.failed /\ status.link # "Associating" =>
        outcome[status.last] = "Ok"

StatusesAreTrue ==
    /\ Tells(device)
    /\ device.link = "Associating" => device.last # 0 /\ outcome[device.last] = "Joining"
    /\ response \in Responses
    /\ response.kind # "None" =>
         /\ request # Network!NoRequest /\ request.boot = boot
         /\ response.status.last <= device.last /\ response.status.gen <= device.gen
         /\ response.status.last \in Network!Own => Tells(response.status)
         /\ state.reconciliation /\ response.kind = "Ok" => state.intent.gen <= response.status.gen

\* A late mutation that could still run is the one the page waits for.
LateIsAwaited ==
    \A q \in late :
        q.boot = boot /\ q.intent.txn > device.last /\ q.intent.gen = device.gen =>
            state.phase # "Idle" /\ state.intent = q.intent /\ bound = boot

NetworkParts ==
    /\ Network!TypeOK /\ Network!ReportedIsTrue
    /\ RequestOfIntent /\ TransactionsOnce /\ StatusesAreTrue /\ LateIsAwaited
NetworkInv == service = "Network" => NetworkParts

-----------------------------------------------------------------------------
(* Proof for runs.                                                         *)

\* The fields of the machine, the device and the requests by their types.
LEMMA RunTypes ==
    ASSUME Run!TypeOK
    PROVE  /\ run = [run |-> run.run, boot |-> run.boot, phase |-> run.phase,
                     pending |-> run.pending, fault |-> run.fault]
           /\ run.run \in 1..MaxRun /\ run.boot \in 1..MaxBoots /\ run.phase \in Run!Phases
           /\ run.pending \in Run!Actions /\ run.fault \in BOOLEAN
           /\ device = [phase |-> device.phase, run |-> device.run, ended |-> device.ended,
                        running |-> device.running]
           /\ device.run \in 0..MaxRun /\ device.ended \in 0..MaxRun
           /\ device.running \subseteq Run!Actors
           /\ request.run \in 0..MaxRun /\ request.boot \in 1..MaxBoots
           /\ \A q \in late \cup {request} : q.run \in 0..MaxRun /\ q.boot \in 1..MaxBoots
           /\ boot \in 1..MaxBoots /\ session \in 1..MaxBoots
  BY DEF Run!TypeOK, Run!Machines, Run!Devices, Run!Requests, Run!Runs, Run!Boots

\* No run has begun on the device.
LEMMA RunInit ==
    ASSUME Run!Init
    PROVE  RunParts
  <1>1. /\ session = 1 /\ boot = 1 /\ late = {} /\ losses = 0
        /\ request = Run!NoRequest /\ response = Run!NoResponse /\ device = Run!FreshDevice
        /\ run = [run |-> 1, boot |-> 1, phase |-> "Starting", pending |-> "None", fault |-> FALSE]
    BY DEF Run!Init, Run!NewMachine
  <1>2. Run!TypeOK
    <2>1. run \in Run!Machines /\ boot \in Run!Boots /\ session \in Run!Boots
      BY <1>1, BoundAssumption DEF Run!Machines, Run!Runs, Run!Boots, Run!Phases, Run!Actions
    <2>2. device \in Run!Devices
      BY <1>1, BoundAssumption DEF Run!Devices, Run!FreshDevice
    <2>3. request \in Run!Requests
      BY <1>1, BoundAssumption DEF Run!Requests, Run!NoRequest, Run!Operations, Run!Boots
    <2>4. response \in [status : {"None", "Ok", "Refused"}, report : Run!Devices]
      BY <1>1, <2>2 DEF Run!NoResponse
    <2>5. losses \in 0..MaxLosses
      BY <1>1, BoundAssumption
    <2> QED
      BY <1>1, <2>1, <2>2, <2>3, <2>4, <2>5 DEF Run!TypeOK
  <1>3. RequestsOfRuns
    BY <1>1 DEF RequestsOfRuns, Run!NoRequest
  <1>4. DeviceOfRuns /\ ReportsOfRuns
    BY <1>1 DEF DeviceOfRuns, ReportsOfRuns, Run!FreshDevice
  <1> QED
    BY <1>2, <1>3, <1>4 DEF RunParts

\* request_stop turns the machine to stopping before any stop is sent.
LEMMA RunRequestStop ==
    ASSUME RunParts, Run!RequestStop
    PROVE  RunParts'
  <1>1. /\ run.pending = "None" /\ run.phase \in {"AwaitingRunning", "Running"}
        /\ run' = [run EXCEPT !.phase = "Stopping"]
        /\ UNCHANGED <<request, response, late, device, boot, session, losses>>
    BY DEF Run!RequestStop
  <1>2. Run!TypeOK /\ run \in Run!Machines
    BY DEF RunParts, Run!TypeOK
  <1>3. /\ run' \in Run!Machines /\ run'.run = run.run /\ run'.pending = "None"
        /\ run'.phase = "Stopping"
    BY <1>1, <1>2 DEF Run!Machines, Run!Phases
  <1>4. Run!TypeOK'
    BY <1>1, <1>2, <1>3 DEF Run!TypeOK
  <1>5. RequestsOfRuns'
    BY <1>1, <1>3 DEF RunParts, RequestsOfRuns, Ending
  <1>6. DeviceOfRuns' /\ ReportsOfRuns'
    BY <1>1, <1>3 DEF RunParts, DeviceOfRuns, ReportsOfRuns, Ending, Quiet
  <1> QED
    BY <1>4, <1>5, <1>6 DEF RunParts

\* next_request names the machine's own run; a stop is sent only by one that is stopping.
LEMMA RunNextRequest ==
    ASSUME RunParts, Run!NextRequest
    PROVE  RunParts'
  <1>1. /\ run.pending = "None" /\ Run!NextAction # "None"
        /\ run' = [run EXCEPT !.pending = Run!NextAction]
        /\ request' = Run!RequestOf(Run!NextAction)
        /\ UNCHANGED <<response, late, device, boot, session, losses>>
    BY DEF Run!NextRequest
  <1>2. Run!TypeOK /\ run \in Run!Machines
    BY DEF RunParts, Run!TypeOK
  <1>3. PICK action : action = Run!NextAction
    OBVIOUS
  <1>4. \/ run.phase = "Starting" /\ action = "Start"
        \/ run.phase = "AwaitingRunning" /\ action = "PollRunning"
        \/ run.phase = "Stopping" /\ action = "Stop"
        \/ run.phase = "AwaitingStopped" /\ action = "PollStopped"
    BY <1>1, <1>2, <1>3 DEF Run!NextAction, Run!Machines, Run!Phases
  <1>5. /\ run' \in Run!Machines /\ run'.run = run.run /\ run'.pending = action
        /\ run'.phase = run.phase
    BY <1>1, <1>2, <1>3, <1>4 DEF Run!Machines, Run!Actions
  <1>6. request' = [op |-> IF action \in {"Start", "Stop"} THEN action ELSE "Get",
                    run |-> run.run, boot |-> session]
    BY <1>1, <1>3 DEF Run!RequestOf
  <1>7. request' \in Run!Requests /\ request' # Run!NoRequest
    <2>1. run.run \in 0..MaxRun /\ session \in Run!Boots
      BY <1>2 DEF Run!TypeOK, Run!Machines, Run!Runs
    <2> QED
      BY <1>4, <1>6, <2>1 DEF Run!Requests, Run!Operations, Run!NoRequest
  <1>8. Run!TypeOK'
    BY <1>1, <1>2, <1>5, <1>7 DEF Run!TypeOK
  <1>9. RequestsOfRuns'
    <2>1. 0 < run.run /\ run.run <= run.run /\ session <= session
      BY <1>2, RunTypes
    <2>2. \A q \in late' \cup {request'} :
             q.op # "None" =>
                /\ 0 < q.run /\ q.run <= run'.run /\ q.boot <= session'
                /\ q.op = "Stop" => q.run < run'.run \/ run'.phase \in Ending
      BY <1>1, <1>4, <1>5, <1>6, <2>1 DEF RunParts, RequestsOfRuns, Ending
    <2> QED
      BY <1>1, <1>4, <1>5, <1>7, <2>2 DEF RunParts, RequestsOfRuns
  <1>10. DeviceOfRuns'
    BY <1>1, <1>4, <1>5 DEF RunParts, DeviceOfRuns
  <1>11. ReportsOfRuns'
    BY <1>1 DEF RunParts, RequestsOfRuns, ReportsOfRuns
  <1> QED
    BY <1>8, <1>9, <1>10, <1>11 DEF RunParts

\* accept_response: a machine completes on a report of its own run stopped on both cores, which
\* is then the device's present run.
LEMMA RunAcceptResponse ==
    ASSUME RunParts, Run!AcceptResponse
    PROVE  RunParts'
  <1>1. /\ response # Run!NoResponse
        /\ request' = Run!NoRequest /\ response' = Run!NoResponse
        /\ UNCHANGED <<late, device, boot, session, losses>>
    BY DEF Run!AcceptResponse
  <1>2. /\ Run!TypeOK /\ RequestsOfRuns /\ DeviceOfRuns /\ ReportsOfRuns
    BY DEF RunParts
  <1>3. run.pending # "None" /\ run.phase \notin {"Running", "Complete"}
    BY <1>1, <1>2 DEF RequestsOfRuns, ReportsOfRuns
  <1>4. /\ run' \in Run!Machines /\ run'.run = run.run /\ run'.pending = "None"
        /\ \/ run'.phase = run.phase
           \/ run'.phase \in {"Stopping", "AwaitingStopped"}
           \/ /\ run'.phase = "Complete"
              /\ response.report.run = run.run
              /\ response.report.phase = "Active" /\ response.report.running = {}
           \/ /\ run'.phase \in {"AwaitingRunning", "Running"}
              /\ run.pending \in {"Start", "PollRunning"}
    <2>1. run \in Run!Machines
      BY <1>2 DEF Run!TypeOK
    <2>2. CASE /\ response.status = "Ok" /\ response.report.run = run.run
               /\ response.report.phase = "ExecutionFaulted"
      <3>1. run' = [run EXCEPT !.pending = "None", !.fault = TRUE, !.phase = "Stopping"]
        BY <2>2 DEF Run!AcceptResponse, Run!Accepted
      <3> QED
        BY <2>1, <3>1 DEF Run!Machines, Run!Phases, Run!Actions
    <2>3. CASE /\ response.status = "Ok" /\ response.report.run = run.run
               /\ response.report.phase # "ExecutionFaulted"
      <3>1. run' = [run EXCEPT !.pending = "None", !.phase = Run!PhaseAfter(response.report)]
        BY <2>3 DEF Run!AcceptResponse, Run!Accepted
      <3>2. PICK phase : phase = Run!PhaseAfter(response.report)
        OBVIOUS
      <3>3. \/ phase = run.phase
            \/ phase = "AwaitingStopped"
            \/ /\ phase = "Complete"
               /\ response.report.phase = "Active" /\ response.report.running = {}
            \/ /\ phase \in {"AwaitingRunning", "Running"}
               /\ run.pending \in {"Start", "PollRunning"}
        BY <3>2 DEF Run!PhaseAfter, Run!StoppedMatches
      <3>4. run.phase \in Run!Phases
        BY <2>1 DEF Run!Machines
      <3>5. phase \in Run!Phases
        BY <3>3, <3>4 DEF Run!Phases
      <3>6. /\ run' \in Run!Machines /\ run'.run = run.run /\ run'.pending = "None"
            /\ run'.phase = phase
        BY <2>1, <3>1, <3>2, <3>5 DEF Run!Machines, Run!Actions
      <3> QED
        BY <2>3, <3>3, <3>6
    <2>4. CASE ~ (response.status = "Ok" /\ response.report.run = run.run)
      <3>1. run' = [run EXCEPT !.pending = "None"]
        BY <2>4 DEF Run!AcceptResponse
      <3> QED
        BY <2>1, <3>1 DEF Run!Machines, Run!Actions
    <2> QED
      BY <2>2, <2>3, <2>4
  <1>5. run.phase \in Ending => run'.phase \in Ending
    BY <1>2, <1>4 DEF RequestsOfRuns, Ending
  <1>6. run.pending \in {"Start", "PollRunning"} => run.phase \notin Ending
    BY <1>2, <1>3 DEF RequestsOfRuns, Ending
  <1>7. Run!TypeOK'
    <2>1. request' \in Run!Requests
      BY <1>1, BoundAssumption DEF Run!Requests, Run!NoRequest, Run!Operations, Run!Boots
    <2>2. Run!FreshDevice \in Run!Devices
      BY BoundAssumption DEF Run!Devices, Run!FreshDevice
    <2>3. response' \in [status : {"None", "Ok", "Refused"}, report : Run!Devices]
      BY <1>1, <2>2 DEF Run!NoResponse
    <2> QED
      BY <1>1, <1>2, <1>4, <2>1, <2>3 DEF Run!TypeOK
  <1>8. RequestsOfRuns'
    BY <1>1, <1>2, <1>4, <1>5 DEF RequestsOfRuns, Run!NoRequest
  <1>9. DeviceOfRuns'
    <2>1. run'.phase = "Complete" => device.run = run.run /\ Quiet
      <3>1. response.report.run <= device.run /\ device.run <= run.run
        BY <1>1, <1>2 DEF ReportsOfRuns, DeviceOfRuns
      <3>2. device.run \in 0..MaxRun /\ run.run \in 1..MaxRun
        BY <1>2, RunTypes
      <3>3. response.report.run = run.run => device.run = run.run /\ device.run # 0
        BY <3>1, <3>2
      <3> QED
        BY <1>1, <1>2, <1>3, <1>4, <3>3 DEF ReportsOfRuns
    <2>2. device.ended # 0 /\ device.ended = run.run => run'.phase \in Ending
      BY <1>2, <1>5 DEF DeviceOfRuns
    <2> QED
      BY <1>1, <1>2, <1>4, <2>1, <2>2 DEF DeviceOfRuns, Quiet
  <1>10. ReportsOfRuns'
    BY <1>1 DEF ReportsOfRuns
  <1> QED
    BY <1>7, <1>8, <1>9, <1>10 DEF RunParts

\* abandon_pending: the request joins the late ones; the machine had not completed.
LEMMA RunAbandonPending ==
    ASSUME RunParts, Run!AbandonPending
    PROVE  RunParts'
  <1>1. /\ request # Run!NoRequest
        /\ (losses' = losses + 1 /\ losses < MaxLosses) \/ losses' = losses
        /\ late' = late \cup {request} /\ request' = Run!NoRequest
        /\ response' = Run!NoResponse /\ session' = boot
        /\ run' = [run EXCEPT !.pending = "None"]
        /\ UNCHANGED <<device, boot>>
    BY DEF Run!AbandonPending, Run!AfterAbandon
  <1>2. /\ Run!TypeOK /\ RequestsOfRuns /\ DeviceOfRuns /\ ReportsOfRuns
    BY DEF RunParts
  <1>3. /\ run' \in Run!Machines /\ run'.run = run.run /\ run'.pending = "None"
        /\ run'.phase = run.phase
    BY <1>1, <1>2 DEF Run!TypeOK, Run!Machines, Run!Actions
  <1>4. run.phase # "Complete"
    BY <1>1, <1>2 DEF RequestsOfRuns
  <1>5. Run!TypeOK'
    <2>1. request' \in Run!Requests
      BY <1>1, BoundAssumption DEF Run!Requests, Run!NoRequest, Run!Operations, Run!Boots
    <2>2. Run!FreshDevice \in Run!Devices
      BY BoundAssumption DEF Run!Devices, Run!FreshDevice
    <2>3. response' \in [status : {"None", "Ok", "Refused"}, report : Run!Devices]
      BY <1>1, <2>2 DEF Run!NoResponse
    <2>4. losses' \in 0..MaxLosses
      BY <1>1, <1>2, BoundAssumption DEF Run!TypeOK
    <2> QED
      BY <1>1, <1>2, <1>3, <2>1, <2>3, <2>4 DEF Run!TypeOK
  <1>6. RequestsOfRuns'
    <2>1. session \in 1..MaxBoots /\ boot \in 1..MaxBoots /\ session <= boot
      BY <1>2, RunTypes DEF RequestsOfRuns
    <2>2. \A q \in late' \cup {request'} :
             q.op # "None" =>
                /\ 0 < q.run /\ q.run <= run'.run /\ q.boot <= session'
                /\ q.op = "Stop" => q.run < run'.run \/ run'.phase \in Ending
      <3> SUFFICES ASSUME NEW q \in late' \cup {request'}, q.op # "None"
                   PROVE  /\ 0 < q.run /\ q.run <= run'.run /\ q.boot <= session'
                          /\ q.op = "Stop" => q.run < run'.run \/ run'.phase \in Ending
        OBVIOUS
      <3>1. q \in late \cup {request}
        BY <1>1 DEF Run!NoRequest
      <3>2. q.boot \in 1..MaxBoots
        BY <1>2, <3>1, RunTypes
      <3>3. /\ 0 < q.run /\ q.run <= run.run /\ q.boot <= session
            /\ q.op = "Stop" => q.run < run.run \/ run.phase \in Ending
        BY <1>2, <3>1 DEF RequestsOfRuns
      <3> QED
        BY <1>1, <1>3, <2>1, <3>2, <3>3
    <2> QED
      BY <1>1, <1>2, <1>3, <2>1, <2>2 DEF RequestsOfRuns
  <1>7. DeviceOfRuns'
    BY <1>1, <1>2, <1>3, <1>4 DEF DeviceOfRuns
  <1>8. ReportsOfRuns'
    BY <1>1 DEF ReportsOfRuns
  <1> QED
    BY <1>5, <1>6, <1>7, <1>8 DEF RunParts

\* A new machine's run is later than every request and than the device.
LEMMA RunBeginRun ==
    ASSUME RunParts, Run!BeginRun
    PROVE  RunParts'
  <1>1. /\ run.pending = "None" /\ run.run < MaxRun
        /\ run' = [run |-> run.run + 1, boot |-> session, phase |-> "Starting",
                   pending |-> "None", fault |-> FALSE]
        /\ UNCHANGED <<request, response, late, device, boot, session, losses>>
    BY DEF Run!BeginRun, Run!NewMachine
  <1>2. /\ Run!TypeOK /\ RequestsOfRuns /\ DeviceOfRuns /\ ReportsOfRuns
    BY DEF RunParts
  <1>3. /\ run.run \in 1..MaxRun /\ session \in 1..MaxBoots
        /\ device.run \in 0..MaxRun /\ device.ended \in 0..MaxRun
    BY <1>2, RunTypes
  <1>4. run' \in Run!Machines
    <2>1. run.run + 1 \in 1..MaxRun
      BY <1>1, <1>3, BoundAssumption
    <2> QED
      BY <1>1, <1>3, <2>1 DEF Run!Machines, Run!Runs, Run!Boots, Run!Phases, Run!Actions
  <1>5. Run!TypeOK'
    BY <1>1, <1>2, <1>4 DEF Run!TypeOK
  <1>6. /\ run'.run = run.run + 1 /\ run'.phase = "Starting" /\ run'.pending = "None"
    BY <1>1
  <1>7. RequestsOfRuns'
    <2>1. \A q \in late' \cup {request'} :
             q.op # "None" =>
                /\ 0 < q.run /\ q.run <= run'.run /\ q.boot <= session'
                /\ q.op = "Stop" => q.run < run'.run \/ run'.phase \in Ending
      <3> SUFFICES ASSUME NEW q \in late \cup {request}, q.op # "None"
                   PROVE  /\ 0 < q.run /\ q.run < run.run + 1 /\ q.boot <= session
        BY <1>1, <1>3, <1>6, <1>2, RunTypes
      <3>1. q.run \in 0..MaxRun
        BY <1>2, RunTypes
      <3>2. 0 < q.run /\ q.run <= run.run /\ q.boot <= session
        BY <1>2 DEF RequestsOfRuns
      <3> QED
        BY <1>3, <3>1, <3>2
    <2> QED
      BY <1>1, <1>2, <1>6, <2>1 DEF RequestsOfRuns
  <1>8. DeviceOfRuns'
    <2>1. device.ended < run.run + 1 /\ device.run < run.run + 1
      BY <1>2, <1>3 DEF DeviceOfRuns
    <2>2. device.ended # run'.run /\ device.ended <= run'.run /\ device.run <= run'.run
      BY <1>3, <1>6, <2>1
    <2> QED
      BY <1>1, <1>6, <2>2 DEF DeviceOfRuns
  <1>9. ReportsOfRuns'
    BY <1>1, <1>2 DEF ReportsOfRuns, Quiet
  <1> QED
    BY <1>5, <1>7, <1>8, <1>9 DEF RunParts

\* A start is of a later run than the device's, a stop of exactly the device's.
LEMMA RunArrive ==
    ASSUME RunParts, NEW q \in late \cup {request}, Run!Arrive(q)
    PROVE  RunParts'
  <1>1. UNCHANGED <<run, request, response, late, boot, session, losses>>
    BY DEF Run!Arrive
  <1>2. /\ Run!TypeOK /\ RequestsOfRuns /\ DeviceOfRuns /\ ReportsOfRuns
    BY DEF RunParts
  <1>3. /\ run.run \in 1..MaxRun /\ device \in Run!Devices
        /\ device.run \in 0..MaxRun /\ device.ended \in 0..MaxRun /\ q.run \in 0..MaxRun
    BY <1>2, RunTypes DEF Run!TypeOK
  <1>4. q.op # "None" => /\ 0 < q.run /\ q.run <= run.run
                         /\ q.op = "Stop" => q.run < run.run \/ run.phase \in Ending
    BY <1>2 DEF RequestsOfRuns
  <1>5. RequestsOfRuns'
    BY <1>1, <1>2 DEF RequestsOfRuns
  <1>6. response # Run!NoResponse =>
            request # Run!NoRequest /\ request.boot = boot /\ response.report.run \in 0..MaxRun
    BY <1>2 DEF ReportsOfRuns, Run!TypeOK, Run!Devices
  <1>7. CASE Run!CanStart(q) /\ device' = [device EXCEPT !.phase = "Starting", !.run = q.run]
    <2>1. q.op = "Start" /\ q.boot = boot /\ q.run > device.run
      BY <1>7 DEF Run!CanStart
    <2>2. /\ device' \in Run!Devices /\ device'.run = q.run /\ device'.ended = device.ended
          /\ device'.phase = "Starting"
      BY <1>3, <1>7 DEF Run!Devices
    <2>3. Run!TypeOK'
      BY <1>1, <1>2, <2>2 DEF Run!TypeOK
    <2>4. DeviceOfRuns'
      <3>1. device.run < run.run /\ q.run <= run.run
        BY <1>3, <1>4, <2>1
      <3>2. run.phase = "Complete" =>
               /\ q.run < run.run
               /\ \A p \in late \cup {request} :
                     p.op = "Start" /\ p.boot = boot => p.run < run.run
        BY <1>2, <1>3, <2>1, <3>1 DEF DeviceOfRuns
      <3> QED
        BY <1>1, <1>2, <2>2, <3>1, <3>2 DEF DeviceOfRuns
    <2>5. ReportsOfRuns'
      <3>1. response # Run!NoResponse =>
               response.report.run <= q.run /\ response.report.run # q.run
        BY <1>2, <1>3, <1>6, <2>1 DEF ReportsOfRuns
      <3> QED
        BY <1>1, <1>6, <2>2, <3>1 DEF ReportsOfRuns
    <2> QED
      BY <1>5, <2>3, <2>4, <2>5 DEF RunParts
  <1>8. CASE Run!CanStop(q) /\ device' = [device EXCEPT !.phase = "Stopping", !.ended = device.run]
    <2>1. /\ q.op = "Stop" /\ q.run = device.run /\ ~ Quiet
      BY <1>4, <1>3, <1>8 DEF Run!CanStop, Run!Executing, Quiet
    <2>2. /\ device' \in Run!Devices /\ device'.run = device.run /\ device'.ended = device.run
          /\ device'.phase = "Stopping"
      BY <1>3, <1>8 DEF Run!Devices
    <2>3. Run!TypeOK'
      BY <1>1, <1>2, <2>2 DEF Run!TypeOK
    <2>4. DeviceOfRuns'
      <3>1. device.run = run.run => run.phase \in Ending
        BY <1>3, <1>4, <2>1
      <3> QED
        BY <1>1, <1>2, <2>1, <2>2, <3>1 DEF DeviceOfRuns
    <2>5. ReportsOfRuns'
      BY <1>1, <1>2, <2>1, <2>2 DEF ReportsOfRuns
    <2> QED
      BY <1>5, <2>3, <2>4, <2>5 DEF RunParts
  <1> QED
    BY <1>7, <1>8 DEF Run!Arrive

\* A step of the device alone, to one that is as quiet and tells of the same run.
LEMMA RunDeviceSteps ==
    ASSUME RunParts,
           UNCHANGED <<run, request, response, late, boot, session, losses>>,
           device' \in Run!Devices,
           device'.run = device.run, device'.ended = device.ended, ~ Quiet
    PROVE  RunParts'
  <1>1. /\ Run!TypeOK /\ RequestsOfRuns /\ DeviceOfRuns /\ ReportsOfRuns
    BY DEF RunParts
  <1>2. Run!TypeOK'
    BY <1>1 DEF Run!TypeOK
  <1>3. RequestsOfRuns'
    BY <1>1 DEF RequestsOfRuns
  <1>4. DeviceOfRuns'
    BY <1>1 DEF DeviceOfRuns
  <1>5. ReportsOfRuns'
    BY <1>1 DEF ReportsOfRuns
  <1> QED
    BY <1>2, <1>3, <1>4, <1>5 DEF RunParts

\* The actors and the coordinator move only while the device is not quiet.
LEMMA RunDevice ==
    ASSUME RunParts,
           \/ \E a \in Run!Actors : Run!ActorStarts(a) \/ Run!ActorStops(a)
           \/ Run!CoordinatorRuns \/ Run!ExecutionFaults \/ Run!CoordinatorStops
    PROVE  RunParts'
  <1>1. /\ device \in Run!Devices /\ device.running \subseteq Run!Actors
    BY RunTypes DEF RunParts, Run!TypeOK
  <1>2. CASE \E a \in Run!Actors : Run!ActorStarts(a)
    <2>1. PICK a \in Run!Actors : Run!ActorStarts(a)
      BY <1>2
    <2>2. device' \in Run!Devices /\ device'.run = device.run /\ device'.ended = device.ended
      BY <1>1, <2>1 DEF Run!ActorStarts, Run!Devices
    <2> QED
      BY <2>1, <2>2, RunDeviceSteps DEF Run!ActorStarts, Quiet
  <1>3. CASE \E a \in Run!Actors : Run!ActorStops(a)
    <2>1. PICK a \in Run!Actors : Run!ActorStops(a)
      BY <1>3
    <2>2. device' \in Run!Devices /\ device'.run = device.run /\ device'.ended = device.ended
      BY <1>1, <2>1 DEF Run!ActorStops, Run!Devices
    <2> QED
      BY <2>1, <2>2, RunDeviceSteps DEF Run!ActorStops, Quiet
  <1>4. CASE Run!CoordinatorRuns
    <2>1. device' \in Run!Devices /\ device'.run = device.run /\ device'.ended = device.ended
      BY <1>1, <1>4 DEF Run!CoordinatorRuns, Run!Devices
    <2> QED
      BY <1>4, <2>1, RunDeviceSteps DEF Run!CoordinatorRuns, Quiet
  <1>5. CASE Run!ExecutionFaults
    <2>1. device' \in Run!Devices /\ device'.run = device.run /\ device'.ended = device.ended
      BY <1>1, <1>5 DEF Run!ExecutionFaults, Run!Devices
    <2> QED
      BY <1>5, <2>1, RunDeviceSteps DEF Run!ExecutionFaults, Quiet
  <1>6. CASE Run!CoordinatorStops
    <2>1. device' \in Run!Devices /\ device'.run = device.run /\ device'.ended = device.ended
      BY <1>1, <1>6 DEF Run!CoordinatorStops, Run!Devices
    <2> QED
      BY <1>6, <2>1, RunDeviceSteps DEF Run!CoordinatorStops, Quiet
  <1> QED
    BY <1>2, <1>3, <1>4, <1>5, <1>6

\* A report is what the device is as it answers.
LEMMA RunDeviceAnswers ==
    ASSUME RunParts, Run!DeviceAnswers
    PROVE  RunParts'
  <1>1. /\ request # Run!NoRequest /\ request.boot = boot
        /\ \E ok \in BOOLEAN : response' = [status |-> IF ok THEN "Ok" ELSE "Refused", report |-> device]
        /\ UNCHANGED <<run, request, late, device, boot, session, losses>>
    BY DEF Run!DeviceAnswers, Run!Answer
  <1>2. /\ Run!TypeOK /\ RequestsOfRuns /\ DeviceOfRuns
    BY DEF RunParts
  <1>3. Run!TypeOK'
    BY <1>1, <1>2 DEF Run!TypeOK
  <1>4. RequestsOfRuns' /\ DeviceOfRuns'
    BY <1>1, <1>2 DEF RequestsOfRuns, DeviceOfRuns, Quiet
  <1>5. ReportsOfRuns'
    <2>1. response'.report = device /\ device.run <= device.run
      BY <1>1, <1>2, RunTypes
    <2> QED
      BY <1>1, <2>1 DEF ReportsOfRuns, Quiet
  <1> QED
    BY <1>3, <1>4, <1>5 DEF RunParts

\* No request is signed for the boot that begins.
LEMMA RunRestart ==
    ASSUME RunParts, Run!Restart
    PROVE  RunParts'
  <1>1. /\ boot < MaxBoots /\ boot' = boot + 1
        /\ device' = Run!FreshDevice /\ response' = Run!NoResponse
        /\ UNCHANGED <<run, request, late, session, losses>>
    BY DEF Run!Restart
  <1>2. /\ Run!TypeOK /\ RequestsOfRuns
    BY DEF RunParts
  <1>3. /\ run.run \in 1..MaxRun /\ boot \in 1..MaxBoots /\ session \in 1..MaxBoots
        /\ session <= boot
    BY <1>2, RunTypes DEF RequestsOfRuns
  <1>4. device' \in Run!Devices /\ device'.run = 0 /\ device'.ended = 0
    BY <1>1, BoundAssumption DEF Run!Devices, Run!FreshDevice
  <1>5. Run!TypeOK'
    <2>1. boot' \in Run!Boots
      BY <1>1, <1>3, BoundAssumption DEF Run!Boots
    <2>2. response' \in [status : {"None", "Ok", "Refused"}, report : Run!Devices]
      BY <1>1, <1>4 DEF Run!NoResponse
    <2> QED
      BY <1>1, <1>2, <1>4, <2>1, <2>2 DEF Run!TypeOK
  <1>6. RequestsOfRuns'
    <2>1. session <= boot + 1
      BY <1>3
    <2> QED
      BY <1>1, <1>2, <2>1 DEF RequestsOfRuns
  <1>7. DeviceOfRuns'
    <2>1. \A q \in late \cup {request} : ~ (q.op = "Start" /\ q.boot = boot + 1)
      <3> SUFFICES ASSUME NEW q \in late \cup {request}, q.op = "Start", q.boot = boot + 1
                   PROVE  FALSE
        OBVIOUS
      <3>1. q.boot <= session
        BY <1>2 DEF RequestsOfRuns
      <3> QED
        BY <1>3, <3>1
    <2>2. 0 <= run.run /\ 0 < run.run
      BY <1>3
    <2> QED
      BY <1>1, <1>4, <2>1, <2>2 DEF DeviceOfRuns
  <1>8. ReportsOfRuns'
    BY <1>1 DEF ReportsOfRuns
  <1> QED
    BY <1>5, <1>6, <1>7, <1>8 DEF RunParts

\* Every step of a run keeps the invariant.
LEMMA RunStep ==
    ASSUME RunParts, Run!Next
    PROVE  RunParts'
  <1>1. CASE \E q \in late \cup {request} : Run!Arrive(q)
    BY <1>1, RunArrive
  <1>2. CASE \/ \E a \in Run!Actors : Run!ActorStarts(a) \/ Run!ActorStops(a)
             \/ Run!CoordinatorRuns \/ Run!ExecutionFaults \/ Run!CoordinatorStops
    BY <1>2, RunDevice
  <1> QED
    BY <1>1, <1>2, RunRequestStop, RunNextRequest, RunAcceptResponse, RunAbandonPending,
       RunBeginRun, RunDeviceAnswers, RunRestart DEF Run!Next

\* The invariant says what is promised of runs.
LEMMA RunPromises ==
    ASSUME RunParts
    PROVE  Run!TypeOK /\ Run!CompleteIsQuiescent /\ Run!StoppedByOwnMachine
  <1>1. Run!CompleteIsQuiescent
    <2>1. run.phase = "Complete" /\ device.run = run.run => Quiet
      BY RunTypes DEF RunParts, DeviceOfRuns
    <2> QED
      BY <2>1 DEF Run!CompleteIsQuiescent, Run!Executing, Quiet
  <1>2. Run!StoppedByOwnMachine
    BY DEF RunParts, DeviceOfRuns, Run!StoppedByOwnMachine, Ending
  <1> QED
    BY <1>1, <1>2 DEF RunParts

-----------------------------------------------------------------------------
(* Proof for installations.                                                *)

\* The fields of the machine, the device and what was seen by their types.
LEMMA InstallTypes ==
    ASSUME Install!TypeOK
    PROVE  /\ package \in Install!Machines /\ package.txn \in 1..MaxTxn
           /\ package.phase \in Install!Phases /\ package.pending \in Install!Actions
           /\ device \in Install!Devices /\ device.txn \in 0..MaxTxn
           /\ device.rtTxn \in 0..MaxTxn /\ device.committed \in 0..MaxTxn
           /\ boot \in 1..MaxBoots /\ session \in 1..MaxBoots
           /\ seen = [rejected |-> seen.rejected, active |-> seen.active, asked |-> seen.asked]
           /\ seen.rejected \subseteq 1..MaxTxn /\ seen.active \subseteq 1..MaxTxn
           /\ seen.asked \subseteq 1..MaxTxn
           /\ \A q \in late \cup {request} : q.txn \in 0..MaxTxn
  BY DEF Install!TypeOK, Install!Machines, Install!Devices, Install!Requests, Install!Txns,
         Install!Boots

\* The values the device and the exchange begin with.
LEMMA FreshInstall ==
    /\ Install!FreshDevice \in Install!Devices
    /\ Install!NoRequest \in Install!Requests
    /\ Install!NoResponse \in [status : {"None", "Ok", "Refused"}, report : Install!Devices]
    /\ Truthful(Install!NoResponse.report)
  <1>1. Install!FreshDevice \in Install!Devices
    BY BoundAssumption DEF Install!Devices, Install!FreshDevice
  <1>2. Install!NoRequest \in Install!Requests
    BY BoundAssumption DEF Install!Requests, Install!NoRequest, Install!Boots
  <1>3. Truthful(Install!NoResponse.report)
    BY DEF Truthful, Install!NoResponse, Install!FreshDevice
  <1> QED
    BY <1>1, <1>2, <1>3 DEF Install!NoResponse

\* Nothing has been installed.
LEMMA InstallInit ==
    ASSUME Install!Init
    PROVE  InstallParts
  <1>1. /\ session = 1 /\ boot = 1 /\ late = {} /\ losses = 0
        /\ request = Install!NoRequest /\ response = Install!NoResponse
        /\ device = Install!FreshDevice
        /\ package = [txn |-> 1, boot |-> 1, phase |-> "Installing", pending |-> "None",
                      rejected |-> FALSE]
        /\ seen = [rejected |-> {}, active |-> {}, asked |-> {}]
    BY DEF Install!Init, Install!NewMachine
  <1>2. Install!TypeOK
    <2>1. package \in Install!Machines /\ boot \in Install!Boots /\ session \in Install!Boots
      BY <1>1, BoundAssumption DEF Install!Machines, Install!Txns, Install!Boots, Install!Phases,
         Install!Actions
    <2>2. losses \in 0..MaxLosses
      BY <1>1, BoundAssumption
    <2> QED
      BY <1>1, <2>1, <2>2, FreshInstall DEF Install!TypeOK
  <1>3. Install!CompleteIsActive /\ Install!RejectedIsTrue /\ Install!ActivatedWhenAsked
    BY <1>1 DEF Install!CompleteIsActive, Install!RejectedIsTrue, Install!ActivatedWhenAsked
  <1>4. DeviceOfInstalls
    BY <1>1 DEF DeviceOfInstalls, Truthful, Install!FreshDevice
  <1>5. \A q \in late \cup {request} : q.op = "Activate" => q.txn \in seen.asked
    BY <1>1 DEF Install!NoRequest
  <1> QED
    BY <1>1, <1>2, <1>3, <1>4, <1>5, FreshInstall DEF InstallParts

\* next_request: an activation is noted as asked for when it is sent.
LEMMA InstallNextRequest ==
    ASSUME InstallParts, Install!NextRequest
    PROVE  InstallParts'
  <1>1. /\ package.pending = "None" /\ Install!NextAction # "None"
        /\ package' = [package EXCEPT !.pending = Install!NextAction]
        /\ request' = Install!RequestOf(Install!NextAction)
        /\ seen' = IF Install!NextAction = "Activate"
                     THEN [seen EXCEPT !.asked = @ \cup {package.txn}] ELSE seen
        /\ UNCHANGED <<response, late, device, boot, session, losses>>
    BY DEF Install!NextRequest
  <1>2. Install!TypeOK /\ package \in Install!Machines /\ package.txn \in 1..MaxTxn
    BY InstallTypes DEF InstallParts
  <1>3. PICK action : action = Install!NextAction
    OBVIOUS
  <1>4. action \in {"Install", "PollCandidate", "Activate", "PollActive"}
    BY <1>1, <1>2, <1>3 DEF Install!NextAction, Install!Machines, Install!Phases
  <1>5. /\ package' \in Install!Machines /\ package'.txn = package.txn
        /\ package'.phase = package.phase /\ package'.rejected = package.rejected
    BY <1>1, <1>2, <1>3, <1>4 DEF Install!Machines, Install!Actions
  <1>6. request' = [op |-> IF action \in {"Install", "Activate"} THEN action ELSE "Get",
                    txn |-> package.txn, boot |-> session]
    BY <1>1, <1>3 DEF Install!RequestOf
  <1>7. request' \in Install!Requests
    <2>1. package.txn \in 0..MaxTxn /\ session \in Install!Boots
      BY <1>2 DEF Install!TypeOK
    <2> QED
      BY <1>4, <1>6, <2>1 DEF Install!Requests
  <1>8. /\ seen' \in [rejected : SUBSET Install!Txns, active : SUBSET Install!Txns,
                       asked : SUBSET Install!Txns]
        /\ seen'.rejected = seen.rejected /\ seen'.active = seen.active
        /\ seen.asked \subseteq seen'.asked
        /\ action = "Activate" => package.txn \in seen'.asked
    <2>1. seen \in [rejected : SUBSET Install!Txns, active : SUBSET Install!Txns,
                    asked : SUBSET Install!Txns]
      BY <1>2 DEF Install!TypeOK
    <2>2. package.txn \in Install!Txns
      BY <1>2 DEF Install!Txns
    <2> QED
      BY <1>1, <1>3, <2>1, <2>2
  <1>9. Install!TypeOK'
    BY <1>1, <1>2, <1>5, <1>7, <1>8 DEF Install!TypeOK
  <1>10. (Install!CompleteIsActive /\ Install!RejectedIsTrue /\ Install!ActivatedWhenAsked)'
    BY <1>5, <1>8 DEF InstallParts, Install!CompleteIsActive, Install!RejectedIsTrue,
       Install!ActivatedWhenAsked
  <1>11. DeviceOfInstalls'
    BY <1>1, <1>8 DEF InstallParts, DeviceOfInstalls, Truthful
  <1>12. Truthful(response.report)'
    BY <1>1, <1>8 DEF InstallParts, Truthful
  <1>13. (\A q \in late \cup {request} : q.op = "Activate" => q.txn \in seen.asked)'
    <2>1. request'.op = "Activate" => request'.txn \in seen'.asked
      BY <1>4, <1>6, <1>8
    <2> QED
      BY <1>1, <1>8, <2>1 DEF InstallParts
  <1> QED
    BY <1>9, <1>10, <1>11, <1>12, <1>13 DEF InstallParts

\* accept_response: the machine completes or is rejected on a report of its own transaction.
LEMMA InstallAcceptResponse ==
    ASSUME InstallParts, Install!AcceptResponse
    PROVE  InstallParts'
  <1>1. /\ request' = Install!NoRequest /\ response' = Install!NoResponse
        /\ UNCHANGED <<late, device, boot, session, seen, losses>>
    BY DEF Install!AcceptResponse
  <1>2. /\ Install!TypeOK /\ package \in Install!Machines
        /\ Install!CompleteIsActive /\ Install!RejectedIsTrue
    BY InstallTypes DEF InstallParts
  <1>3. /\ package' \in Install!Machines /\ package'.txn = package.txn
        /\ \/ package'.phase = package.phase /\ package'.rejected = package.rejected
           \/ /\ package'.rejected /\ package'.phase = package.phase
              /\ package.txn \in seen.rejected
           \/ package'.phase # "Complete" /\ package'.rejected = package.rejected
           \/ package.txn \in seen.active /\ package'.rejected = package.rejected
    <2>1. CASE ~ (response.status = "Ok" /\ response.report.txn = package.txn)
      <3>1. package' = [package EXCEPT !.pending = "None"]
        BY <2>1 DEF Install!AcceptResponse
      <3> QED
        BY <1>2, <3>1 DEF Install!Machines, Install!Actions
    <2>2. CASE /\ response.status = "Ok" /\ response.report.txn = package.txn
               /\ Install!Rejects(response.report)
      <3>1. package' = [package EXCEPT !.pending = "None", !.rejected = TRUE]
        BY <2>2 DEF Install!AcceptResponse, Install!Accepted
      <3>2. package.txn \in seen.rejected
        BY <2>2 DEF Install!Rejects, InstallParts, Truthful
      <3>3. /\ package' \in Install!Machines /\ package'.txn = package.txn
            /\ package'.phase = package.phase /\ package'.rejected
        BY <1>2, <3>1 DEF Install!Machines, Install!Actions
      <3> QED
        BY <3>2, <3>3
    <2>3. CASE /\ response.status = "Ok" /\ response.report.txn = package.txn
               /\ ~ Install!Rejects(response.report)
      <3>1. package' = [package EXCEPT !.pending = "None",
                                       !.phase = Install!PhaseAfter(response.report)]
        BY <2>3 DEF Install!AcceptResponse, Install!Accepted
      <3>2. PICK phase : phase = Install!PhaseAfter(response.report)
        OBVIOUS
      <3>3. \/ phase = package.phase
            \/ phase \in {"AwaitingActive", "Activating", "AwaitingCandidate"}
            \/ phase = "Complete" /\ Install!ActiveMatches(response.report)
        BY <3>2 DEF Install!PhaseAfter
      <3>4. phase = "Complete" /\ Install!ActiveMatches(response.report) =>
              package.txn \in seen.active
        BY DEF Install!ActiveMatches, InstallParts, Truthful
      <3>5. package.phase \in Install!Phases
        BY <1>2 DEF Install!Machines
      <3>6. phase \in Install!Phases
        BY <3>3, <3>5 DEF Install!Phases
      <3>7. /\ package' \in Install!Machines /\ package'.txn = package.txn
            /\ package'.phase = phase /\ package'.rejected = package.rejected
        BY <1>2, <3>1, <3>2, <3>6 DEF Install!Machines, Install!Actions
      <3> QED
        BY <3>3, <3>4, <3>7
    <2> QED
      BY <2>1, <2>2, <2>3
  <1>4. Install!TypeOK'
    BY <1>1, <1>2, <1>3, FreshInstall DEF Install!TypeOK
  <1>5. Install!CompleteIsActive' /\ Install!RejectedIsTrue'
    BY <1>1, <1>2, <1>3 DEF Install!CompleteIsActive, Install!RejectedIsTrue
  <1>6. Install!ActivatedWhenAsked' /\ DeviceOfInstalls'
    BY <1>1 DEF InstallParts, Install!ActivatedWhenAsked, DeviceOfInstalls, Truthful
  <1>7. Truthful(response.report)'
    BY <1>1 DEF Truthful, Install!NoResponse, Install!FreshDevice
  <1>8. (\A q \in late \cup {request} : q.op = "Activate" => q.txn \in seen.asked)'
    BY <1>1 DEF InstallParts, Install!NoRequest
  <1> QED
    BY <1>4, <1>5, <1>6, <1>7, <1>8 DEF InstallParts

\* abandon_pending: the request joins the late ones.
LEMMA InstallAbandonPending ==
    ASSUME InstallParts, Install!AbandonPending
    PROVE  InstallParts'
  <1>1. /\ (losses' = losses + 1 /\ losses < MaxLosses) \/ losses' = losses
        /\ late' = late \cup {request} /\ request' = Install!NoRequest
        /\ response' = Install!NoResponse /\ session' = boot
        /\ package' = [package EXCEPT !.pending = "None"]
        /\ UNCHANGED <<device, boot, seen>>
    BY DEF Install!AbandonPending, Install!AfterAbandon
  <1>2. Install!TypeOK /\ package \in Install!Machines
    BY InstallTypes DEF InstallParts
  <1>3. /\ package' \in Install!Machines /\ package'.txn = package.txn
        /\ package'.phase = package.phase /\ package'.rejected = package.rejected
    BY <1>1, <1>2 DEF Install!Machines, Install!Actions
  <1>4. Install!TypeOK'
    <2>1. losses' \in 0..MaxLosses
      BY <1>1, <1>2, BoundAssumption DEF Install!TypeOK
    <2> QED
      BY <1>1, <1>2, <1>3, <2>1, FreshInstall DEF Install!TypeOK
  <1>5. (Install!CompleteIsActive /\ Install!RejectedIsTrue /\ Install!ActivatedWhenAsked)'
    BY <1>1, <1>3 DEF InstallParts, Install!CompleteIsActive, Install!RejectedIsTrue,
       Install!ActivatedWhenAsked
  <1>6. DeviceOfInstalls'
    BY <1>1 DEF InstallParts, DeviceOfInstalls, Truthful
  <1>7. Truthful(response.report)'
    BY <1>1 DEF Truthful, Install!NoResponse, Install!FreshDevice
  <1>8. (\A q \in late \cup {request} : q.op = "Activate" => q.txn \in seen.asked)'
    BY <1>1 DEF InstallParts, Install!NoRequest
  <1> QED
    BY <1>4, <1>5, <1>6, <1>7, <1>8 DEF InstallParts

\* A new machine has completed nothing and was not rejected.
LEMMA InstallBeginInstall ==
    ASSUME InstallParts, Install!BeginInstall
    PROVE  InstallParts'
  <1>1. /\ package.txn < MaxTxn
        /\ package' = [txn |-> package.txn + 1, boot |-> session, phase |-> "Installing",
                       pending |-> "None", rejected |-> FALSE]
        /\ UNCHANGED <<request, response, late, device, boot, session, seen, losses>>
    BY DEF Install!BeginInstall, Install!NewMachine
  <1>2. /\ Install!TypeOK /\ package.txn \in 1..MaxTxn /\ session \in 1..MaxBoots
    BY InstallTypes DEF InstallParts
  <1>3. package' \in Install!Machines
    <2>1. package.txn + 1 \in 1..MaxTxn
      BY <1>1, <1>2, BoundAssumption
    <2> QED
      BY <1>1, <1>2, <2>1 DEF Install!Machines, Install!Txns, Install!Boots, Install!Phases,
         Install!Actions
  <1>4. Install!TypeOK'
    BY <1>1, <1>2, <1>3 DEF Install!TypeOK
  <1>5. (Install!CompleteIsActive /\ Install!RejectedIsTrue /\ Install!ActivatedWhenAsked)'
    BY <1>1 DEF InstallParts, Install!CompleteIsActive, Install!RejectedIsTrue,
       Install!ActivatedWhenAsked
  <1>6. DeviceOfInstalls' /\ Truthful(response.report)'
    BY <1>1 DEF InstallParts, DeviceOfInstalls, Truthful
  <1>7. (\A q \in late \cup {request} : q.op = "Activate" => q.txn \in seen.asked)'
    BY <1>1 DEF InstallParts
  <1> QED
    BY <1>4, <1>5, <1>6, <1>7 DEF InstallParts

\* A report is what the device is as it answers.
LEMMA InstallDeviceAnswers ==
    ASSUME InstallParts, Install!DeviceAnswers
    PROVE  InstallParts'
  <1>1. /\ \E ok \in BOOLEAN :
              response' = [status |-> IF ok THEN "Ok" ELSE "Refused", report |-> device]
        /\ UNCHANGED <<package, request, late, device, boot, session, seen, losses>>
    BY DEF Install!DeviceAnswers, Install!Answer
  <1>2. Install!TypeOK /\ device \in Install!Devices
    BY InstallTypes DEF InstallParts
  <1>3. Install!TypeOK'
    BY <1>1, <1>2 DEF Install!TypeOK
  <1>4. (Install!CompleteIsActive /\ Install!RejectedIsTrue /\ Install!ActivatedWhenAsked)'
    BY <1>1 DEF InstallParts, Install!CompleteIsActive, Install!RejectedIsTrue,
       Install!ActivatedWhenAsked
  <1>5. DeviceOfInstalls' /\ Truthful(response.report)'
    BY <1>1 DEF InstallParts, DeviceOfInstalls, Truthful
  <1>6. (\A q \in late \cup {request} : q.op = "Activate" => q.txn \in seen.asked)'
    BY <1>1 DEF InstallParts
  <1> QED
    BY <1>3, <1>4, <1>5, <1>6 DEF InstallParts

\* A step of the device alone.
LEMMA InstallDeviceSteps ==
    ASSUME InstallParts,
           UNCHANGED <<package, request, response, late, boot, session, losses>>,
           device' \in Install!Devices, DeviceOfInstalls',
           seen' \in [rejected : SUBSET Install!Txns, active : SUBSET Install!Txns,
                      asked : SUBSET Install!Txns],
           seen.rejected \subseteq seen'.rejected, seen.active \subseteq seen'.active,
           seen'.asked = seen.asked, seen'.active \subseteq seen.asked
    PROVE  InstallParts'
  <1>1. Install!TypeOK'
    BY DEF InstallParts, Install!TypeOK
  <1>2. (Install!CompleteIsActive /\ Install!RejectedIsTrue /\ Install!ActivatedWhenAsked)'
    BY DEF InstallParts, Install!CompleteIsActive, Install!RejectedIsTrue,
       Install!ActivatedWhenAsked
  <1>3. Truthful(response.report)'
    BY DEF InstallParts, Truthful
  <1>4. (\A q \in late \cup {request} : q.op = "Activate" => q.txn \in seen.asked)'
    BY DEF InstallParts
  <1> QED
    BY <1>1, <1>2, <1>3, <1>4 DEF InstallParts

\* The same, when nothing is seen by it.
LEMMA InstallDeviceOnly ==
    ASSUME InstallParts,
           UNCHANGED <<package, request, response, late, boot, session, seen, losses>>,
           device' \in Install!Devices, DeviceOfInstalls'
    PROVE  InstallParts'
  <1>1. /\ seen' \in [rejected : SUBSET Install!Txns, active : SUBSET Install!Txns,
                       asked : SUBSET Install!Txns]
        /\ seen'.active \subseteq seen.asked
    BY DEF InstallParts, Install!TypeOK, Install!ActivatedWhenAsked
  <1> QED
    BY <1>1, InstallDeviceSteps

\* A candidate is of a later transaction than the realtime core's; an activation was asked for.
LEMMA InstallArrive ==
    ASSUME InstallParts, NEW q \in late \cup {request}, Install!Arrive(q)
    PROVE  InstallParts'
  <1>1. UNCHANGED <<package, request, response, late, boot, session, seen, losses>>
    BY DEF Install!Arrive
  <1>2. /\ device \in Install!Devices /\ DeviceOfInstalls
        /\ device.txn \in 0..MaxTxn /\ device.rtTxn \in 0..MaxTxn /\ q.txn \in 0..MaxTxn
        /\ seen.asked \subseteq 1..MaxTxn
    BY InstallTypes DEF InstallParts
  <1>3. CASE Install!CanInstall(q) /\ device' = [device EXCEPT !.txn = q.txn, !.phase = "Validating"]
    <2>1. q.txn > device.txn
      BY <1>3 DEF Install!CanInstall
    <2>2. device.rtTxn <= device.txn
      BY <1>2 DEF DeviceOfInstalls
    <2>3. device.rtTxn <= q.txn /\ device.rtTxn # q.txn /\ q.txn # 0
      BY <1>2, <2>1, <2>2
    <2>4. /\ device' \in Install!Devices /\ device'.txn = q.txn /\ device'.phase = "Validating"
          /\ device'.committed = device.committed /\ device'.rtTxn = device.rtTxn
          /\ device'.rtState = device.rtState /\ device'.rtActive = device.rtActive
          /\ device'.authorized = device.authorized
      BY <1>2, <1>3 DEF Install!Devices
    <2>5. DeviceOfInstalls'
      BY <1>1, <1>2, <2>3, <2>4 DEF DeviceOfInstalls, Truthful
    <2> QED
      BY <1>1, <2>4, <2>5, InstallDeviceOnly
  <1>4. CASE Install!CanActivate(q) /\ device' = [device EXCEPT !.phase = "Preparing"]
    <2>1. q.op = "Activate" /\ q.txn \in {device.txn, 0} /\ device.phase = "CandidateValid"
      BY <1>4 DEF Install!CanActivate
    <2>2. q.txn \in seen.asked
      BY <2>1 DEF InstallParts
    <2>3. device.txn \in seen.asked
      BY <1>2, <2>1, <2>2
    <2>4. /\ device' \in Install!Devices /\ device'.txn = device.txn /\ device'.phase = "Preparing"
          /\ device'.committed = device.committed /\ device'.rtTxn = device.rtTxn
          /\ device'.rtState = device.rtState /\ device'.rtActive = device.rtActive
          /\ device'.authorized = device.authorized
      BY <1>2, <1>4 DEF Install!Devices
    <2>5. device.rtState = "Candidate"
      BY <1>2, <2>1 DEF DeviceOfInstalls
    <2>6. DeviceOfInstalls'
      BY <1>1, <1>2, <2>1, <2>3, <2>4, <2>5 DEF DeviceOfInstalls, Truthful
    <2> QED
      BY <1>1, <2>4, <2>6, InstallDeviceOnly
  <1> QED
    BY <1>3, <1>4 DEF Install!Arrive

\* The realtime core reaches the service's transaction, and a rejection is seen.
LEMMA InstallRealtimeValidates ==
    ASSUME InstallParts, Install!RealtimeValidates
    PROVE  InstallParts'
  <1>1. /\ device.phase \in {"Validating", "Recovering"}
        /\ UNCHANGED <<package, request, response, late, boot, session, losses>>
    BY DEF Install!RealtimeValidates
  <1>2. /\ device \in Install!Devices /\ DeviceOfInstalls
        /\ device.txn \in 0..MaxTxn /\ seen.rejected \subseteq 1..MaxTxn
    BY InstallTypes DEF InstallParts
  <1>3. PICK ok \in BOOLEAN :
          /\ device.phase = "Recovering" => ok
          /\ device' = [device EXCEPT !.rtTxn = device.txn,
                                      !.rtState = IF ok THEN "Candidate" ELSE "Rejected"]
          /\ seen' = IF ok THEN seen ELSE [seen EXCEPT !.rejected = @ \cup {device.txn}]
    BY DEF Install!RealtimeValidates
  <1>4. /\ device' \in Install!Devices /\ device'.txn = device.txn /\ device'.phase = device.phase
        /\ device'.committed = device.committed /\ device'.rtTxn = device.txn
        /\ device'.rtState = (IF ok THEN "Candidate" ELSE "Rejected")
        /\ device'.rtActive = device.rtActive /\ device'.authorized = device.authorized
    BY <1>2, <1>3 DEF Install!Devices
  <1>5. device.txn # 0
    BY <1>1, <1>2 DEF DeviceOfInstalls
  <1>6. seen \in [rejected : SUBSET Install!Txns, active : SUBSET Install!Txns,
                  asked : SUBSET Install!Txns]
    BY DEF InstallParts, Install!TypeOK
  <1>7. /\ seen' \in [rejected : SUBSET Install!Txns, active : SUBSET Install!Txns,
                       asked : SUBSET Install!Txns]
        /\ seen.rejected \subseteq seen'.rejected /\ seen'.active = seen.active
        /\ seen'.asked = seen.asked
        /\ ~ ok => device.txn \in seen'.rejected
    <2>1. device.txn \in Install!Txns
      BY <1>2, <1>5 DEF Install!Txns
    <2> QED
      BY <1>3, <1>6, <2>1
  <1>8. DeviceOfInstalls'
    <2>1. device.txn <= device.txn
      BY <1>2
    <2>2. Truthful(device)'
      BY <1>2, <1>4, <1>7 DEF DeviceOfInstalls, Truthful
    <2> QED
      BY <1>1, <1>2, <1>3, <1>4, <1>7, <2>1, <2>2 DEF DeviceOfInstalls
  <1>9. seen'.active \subseteq seen.asked
    BY <1>7 DEF InstallParts, Install!ActivatedWhenAsked
  <1> QED
    BY <1>1, <1>4, <1>7, <1>8, <1>9, InstallDeviceSteps

\* The service announces what the realtime core has decided.
LEMMA InstallServiceFollows ==
    ASSUME InstallParts, Install!ServiceFollows
    PROVE  InstallParts'
  <1>1. /\ device.phase \in {"Validating", "Recovering"} /\ device.rtTxn = device.txn
        /\ device' = [device EXCEPT !.phase = IF @ = "Recovering" THEN "Preparing"
                                              ELSE IF device.rtState = "Rejected" THEN "Rejected"
                                              ELSE "CandidateValid"]
        /\ UNCHANGED <<package, request, response, late, boot, session, seen, losses>>
    BY DEF Install!ServiceFollows
  <1>2. device \in Install!Devices /\ DeviceOfInstalls
    BY InstallTypes DEF InstallParts
  <1>3. /\ device' \in Install!Devices /\ device'.txn = device.txn
        /\ device'.phase = (IF device.phase = "Recovering" THEN "Preparing"
                            ELSE IF device.rtState = "Rejected" THEN "Rejected"
                            ELSE "CandidateValid")
        /\ device'.committed = device.committed /\ device'.rtTxn = device.rtTxn
        /\ device'.rtState = device.rtState /\ device'.rtActive = device.rtActive
        /\ device'.authorized = device.authorized
    BY <1>1, <1>2 DEF Install!Devices
  <1>4. DeviceOfInstalls'
    <2>1. Truthful(device)'
      BY <1>1, <1>2, <1>3 DEF DeviceOfInstalls, Truthful
    <2>2. CASE device.phase = "Recovering"
      BY <1>1, <1>2, <1>3, <2>1, <2>2 DEF DeviceOfInstalls
    <2>3. CASE device.phase = "Validating"
      BY <1>1, <1>2, <1>3, <2>1, <2>3 DEF DeviceOfInstalls
    <2> QED
      BY <1>1, <2>2, <2>3
  <1> QED
    BY <1>1, <1>3, <1>4, InstallDeviceOnly

\* A selection is not yet authorized.
LEMMA InstallRealtimeActivates ==
    ASSUME InstallParts, Install!RealtimeActivates
    PROVE  InstallParts'
  <1>1. /\ device.phase = "Preparing" /\ device.rtState = "Candidate"
        /\ device' = [device EXCEPT !.rtState = "Active", !.rtActive = device.txn,
                                    !.authorized = FALSE]
        /\ UNCHANGED <<package, request, response, late, boot, session, seen, losses>>
    BY DEF Install!RealtimeActivates
  <1>2. device \in Install!Devices /\ DeviceOfInstalls
    BY InstallTypes DEF InstallParts
  <1>3. /\ device' \in Install!Devices /\ device'.txn = device.txn /\ device'.phase = "Preparing"
        /\ device'.committed = device.committed /\ device'.rtTxn = device.rtTxn
        /\ device'.rtState = "Active" /\ device'.rtActive = device.txn
        /\ device'.authorized = FALSE
    BY <1>1, <1>2 DEF Install!Devices
  <1>4. DeviceOfInstalls'
    BY <1>1, <1>2, <1>3 DEF DeviceOfInstalls, Truthful
  <1> QED
    BY <1>1, <1>3, <1>4, InstallDeviceOnly

\* The transaction committed was asked for.
LEMMA InstallServiceCommits ==
    ASSUME InstallParts, Install!ServiceCommits
    PROVE  InstallParts'
  <1>1. /\ device.phase = "Preparing" /\ device.rtState = "Active"
        /\ device' = [device EXCEPT !.phase = "Active", !.committed = device.txn]
        /\ UNCHANGED <<package, request, response, late, boot, session, seen, losses>>
    BY DEF Install!ServiceCommits
  <1>2. device \in Install!Devices /\ DeviceOfInstalls
    BY InstallTypes DEF InstallParts
  <1>3. /\ device' \in Install!Devices /\ device'.txn = device.txn /\ device'.phase = "Active"
        /\ device'.committed = device.txn /\ device'.rtTxn = device.rtTxn
        /\ device'.rtState = device.rtState /\ device'.rtActive = device.rtActive
        /\ device'.authorized = device.authorized
    BY <1>1, <1>2 DEF Install!Devices
  <1>4. DeviceOfInstalls'
    BY <1>1, <1>2, <1>3 DEF DeviceOfInstalls, Truthful
  <1> QED
    BY <1>1, <1>3, <1>4, InstallDeviceOnly

\* The selection authorized is that of a transaction asked for.
LEMMA InstallServiceAuthorizes ==
    ASSUME InstallParts, Install!ServiceAuthorizes
    PROVE  InstallParts'
  <1>1. /\ device.phase = "Active"
        /\ device' = [device EXCEPT !.authorized = TRUE]
        /\ seen' = [seen EXCEPT !.active = @ \cup {device.txn}]
        /\ UNCHANGED <<package, request, response, late, boot, session, losses>>
    BY DEF Install!ServiceAuthorizes
  <1>2. device \in Install!Devices /\ DeviceOfInstalls
    BY InstallTypes DEF InstallParts
  <1>3. /\ device' \in Install!Devices /\ device'.txn = device.txn /\ device'.phase = "Active"
        /\ device'.committed = device.committed /\ device'.rtTxn = device.rtTxn
        /\ device'.rtState = device.rtState /\ device'.rtActive = device.rtActive
        /\ device'.authorized = TRUE
    BY <1>1, <1>2 DEF Install!Devices
  <1>4. device.txn \in seen.asked /\ device.rtActive = device.txn
    BY <1>1, <1>2 DEF DeviceOfInstalls
  <1>5. seen \in [rejected : SUBSET Install!Txns, active : SUBSET Install!Txns,
                  asked : SUBSET Install!Txns]
    BY DEF InstallParts, Install!TypeOK
  <1>6. /\ seen' \in [rejected : SUBSET Install!Txns, active : SUBSET Install!Txns,
                       asked : SUBSET Install!Txns]
        /\ seen'.rejected = seen.rejected /\ seen'.active = seen.active \cup {device.txn}
        /\ seen'.asked = seen.asked
    BY <1>1, <1>4, <1>5
  <1>7. seen'.active \subseteq seen.asked
    BY <1>4, <1>6 DEF InstallParts, Install!ActivatedWhenAsked
  <1>8. DeviceOfInstalls'
    BY <1>1, <1>2, <1>3, <1>4, <1>6 DEF DeviceOfInstalls, Truthful
  <1> QED
    BY <1>1, <1>3, <1>6, <1>7, <1>8, InstallDeviceSteps

\* Only the committed transaction is left, to be recovered.
LEMMA InstallRestart ==
    ASSUME InstallParts, Install!Restart
    PROVE  InstallParts'
  <1>1. /\ boot < MaxBoots /\ boot' = boot + 1 /\ response' = Install!NoResponse
        /\ device' = [Install!FreshDevice EXCEPT
                        !.txn = device.committed, !.committed = device.committed,
                        !.phase = IF device.committed = 0 THEN "Empty" ELSE "Recovering"]
        /\ UNCHANGED <<package, request, late, session, seen, losses>>
    BY DEF Install!Restart
  <1>2. /\ Install!TypeOK /\ DeviceOfInstalls /\ boot \in 1..MaxBoots
        /\ device.committed \in 0..MaxTxn
    BY InstallTypes DEF InstallParts
  <1>3. /\ device'.txn = device.committed /\ device'.committed = device.committed
        /\ device'.phase = (IF device.committed = 0 THEN "Empty" ELSE "Recovering")
        /\ device'.rtTxn = 0 /\ device'.rtState = "Empty" /\ device'.rtActive = 0
        /\ device'.authorized = FALSE
        /\ device' \in Install!Devices
    <2>1. device' = [txn |-> device.committed,
                     phase |-> IF device.committed = 0 THEN "Empty" ELSE "Recovering",
                     committed |-> device.committed, rtTxn |-> 0, rtState |-> "Empty",
                     rtActive |-> 0, authorized |-> FALSE]
      BY <1>1 DEF Install!FreshDevice
    <2>2. 0 \in 0..MaxTxn
      BY BoundAssumption
    <2> QED
      BY <1>2, <2>1, <2>2 DEF Install!Devices
  <1>4. Install!TypeOK'
    <2>1. boot' \in Install!Boots
      BY <1>1, <1>2, BoundAssumption DEF Install!Boots
    <2> QED
      BY <1>1, <1>2, <1>3, <2>1, FreshInstall DEF Install!TypeOK
  <1>5. (Install!CompleteIsActive /\ Install!RejectedIsTrue /\ Install!ActivatedWhenAsked)'
    BY <1>1 DEF InstallParts, Install!CompleteIsActive, Install!RejectedIsTrue,
       Install!ActivatedWhenAsked
  <1>6. DeviceOfInstalls'
    <2>1. 0 <= device.committed
      BY <1>2
    <2> QED
      BY <1>1, <1>2, <1>3, <2>1 DEF DeviceOfInstalls, Truthful
  <1>7. Truthful(response.report)'
    BY <1>1 DEF Truthful, Install!NoResponse, Install!FreshDevice
  <1>8. (\A q \in late \cup {request} : q.op = "Activate" => q.txn \in seen.asked)'
    BY <1>1 DEF InstallParts
  <1> QED
    BY <1>4, <1>5, <1>6, <1>7, <1>8 DEF InstallParts

\* Every step of an installation keeps the invariant.
LEMMA InstallStep ==
    ASSUME InstallParts, Install!Next
    PROVE  InstallParts'
  <1>1. CASE \E q \in late \cup {request} : Install!Arrive(q)
    BY <1>1, InstallArrive
  <1> QED
    BY <1>1, InstallNextRequest, InstallAcceptResponse, InstallAbandonPending,
       InstallBeginInstall, InstallDeviceAnswers, InstallRealtimeValidates,
       InstallServiceFollows, InstallRealtimeActivates, InstallServiceCommits,
       InstallServiceAuthorizes, InstallRestart DEF Install!Next, Install!Firmware

-----------------------------------------------------------------------------
(* Proof for network mutations.                                            *)

\* The fields of the machine, the device and the requests by their types.
LEMMA NetworkTypes ==
    ASSUME Network!TypeOK
    PROVE  /\ state.phase \in {"Idle", "Ready", "Awaiting", "Reconciling"}
           /\ state.intent \in Network!Intents /\ state.reconciliation \in BOOLEAN
           /\ state = [phase |-> state.phase, intent |-> state.intent,
                       reconciliation |-> state.reconciliation]
           /\ nextTxn \in Nat /\ latest \in Network!Statuses /\ latest.gen \in Nat
           /\ bound \in 1..MaxBoots /\ boot \in 1..MaxBoots
           /\ state.intent.txn \in 0..MaxNetworkTxn /\ state.intent.gen \in Nat
           /\ device \in Network!Statuses
           /\ device.gen \in Nat /\ device.last \in 0..MaxNetworkTxn
           /\ \A q \in late : /\ q.intent \in Network!Intents
                              /\ q.intent.txn \in 0..MaxNetworkTxn
                              /\ q.intent.gen \in Nat /\ q.boot \in 1..MaxBoots
           /\ request.intent \in Network!Intents
           /\ Network!Own \subseteq 1..MaxNetworkTxn
  <1>1. Network!Txns \cup {0} = 0..MaxNetworkTxn
    BY BoundAssumption DEF Network!Txns
  <1>2. \A i \in Network!Intents : i.txn \in 0..MaxNetworkTxn /\ i.gen \in Nat
    BY <1>1 DEF Network!Intents
  <1>3. \A s \in Network!Statuses : s.last \in 0..MaxNetworkTxn /\ s.gen \in Nat
    BY <1>1 DEF Network!Statuses
  <1>4. Network!Own \subseteq 1..MaxNetworkTxn
    BY DEF Network!Own, Network!Txns
  <1>5. \A q \in late : q.intent \in Network!Intents /\ q.boot \in 1..MaxBoots
    BY DEF Network!TypeOK
  <1> QED
    BY <1>2, <1>3, <1>4, <1>5 DEF Network!TypeOK, Network!States

\* The values the machine and the device begin with.
LEMMA FreshNetwork ==
    /\ Network!StatusIntent \in Network!Intents
    /\ Network!NoRequest.intent \in Network!Intents
    /\ Network!NoStatus \in Network!Statuses
    /\ Network!FreshDevice \in Network!Statuses
    /\ Network!NoResponse \in Responses /\ Network!NoResponse.kind = "None"
    /\ ~ Mutates(Network!StatusIntent)
  <1>1. Network!NoStatus \in Network!Statuses /\ Network!FreshDevice \in Network!Statuses
    BY DEF Network!NoStatus, Network!FreshDevice, Network!Statuses
  <1>2. Network!NoResponse \in Responses /\ Network!NoResponse.kind = "None"
    BY <1>1 DEF Network!NoResponse, Network!Response, Responses
  <1> QED
    BY <1>1, <1>2 DEF Network!StatusIntent, Network!Intents, Network!NoRequest, Mutates,
       Network!Mutations

\* No transaction has been seen.
LEMMA NetworkInit ==
    ASSUME Network!Init
    PROVE  NetworkParts
  <1>1. /\ state = [phase |-> "Ready", intent |-> Network!StatusIntent, reconciliation |-> FALSE]
        /\ nextTxn = 2 /\ latest = Network!NoStatus /\ bound = 1 /\ session = TRUE
        /\ request = Network!NoRequest /\ response = Network!NoResponse /\ late = {}
        /\ device = Network!FreshDevice /\ boot = 1 /\ events = 0
        /\ outcome = [t \in Network!Txns |-> "Unseen"]
        /\ reported = [t \in Network!Txns |-> "None"]
    BY DEF Network!Init, Network!Ready
  <1>2. state \in Network!States
    BY <1>1, FreshNetwork DEF Network!States
  <1>3. Network!TypeOK
    <2>1. 1 \in 1..MaxBoots /\ 0 \in 0..MaxEvents
      BY BoundAssumption
    <2> QED
      BY <1>1, <1>2, <2>1, FreshNetwork DEF Network!TypeOK
  <1>4. Network!ReportedIsTrue
    BY <1>1 DEF Network!ReportedIsTrue, Network!Own
  <1>5. RequestOfIntent
    BY <1>1, FreshNetwork DEF RequestOfIntent
  <1>6. TransactionsOnce
    <2>1. nextTxn % 2 = 0
      BY <1>1
    <2> QED
      BY <1>1, <2>1, FreshNetwork DEF TransactionsOnce, Network!Own
  <1>7. StatusesAreTrue
    BY <1>1, FreshNetwork DEF StatusesAreTrue, Tells, Network!FreshDevice
  <1>8. LateIsAwaited
    BY <1>1 DEF LateIsAwaited
  <1> QED
    BY <1>3, <1>4, <1>5, <1>6, <1>7, <1>8 DEF NetworkParts

\* Nothing can still run when the machine rests or asks for something else.
LEMMA NothingAwaited ==
    ASSUME NetworkParts, state.phase = "Idle" \/ ~ Mutates(state.intent)
    PROVE  \A q \in late :
             ~ (q.boot = boot /\ q.intent.txn > device.last /\ q.intent.gen = device.gen)
  BY DEF NetworkParts, LateIsAwaited, RequestOfIntent

\* request_status takes an idle machine, which awaits nothing late.
LEMMA NetworkRequestStatus ==
    ASSUME NetworkParts, Network!RequestStatus
    PROVE  NetworkParts'
  <1>1. /\ state = Network!Idle
        /\ state' = [phase |-> "Ready", intent |-> Network!StatusIntent, reconciliation |-> FALSE]
        /\ UNCHANGED <<nextTxn, latest, bound, session, reported, request, response, late,
                       device, boot, outcome, events>>
    BY DEF Network!RequestStatus, Network!Ready, Network!wireVars, Network!deviceVars
  <1>2. state.phase = "Idle"
    BY <1>1 DEF Network!Idle
  <1>3. state' \in Network!States
    BY <1>1, FreshNetwork DEF Network!States
  <1>4. Network!TypeOK' /\ Network!ReportedIsTrue'
    BY <1>1, <1>3 DEF NetworkParts, Network!TypeOK, Network!ReportedIsTrue
  <1>5. RequestOfIntent'
    BY <1>1, <1>2 DEF NetworkParts, RequestOfIntent
  <1>6. TransactionsOnce'
    BY <1>1, FreshNetwork DEF NetworkParts, TransactionsOnce, MayComeFirst
  <1>7. StatusesAreTrue'
    BY <1>1, <1>2 DEF NetworkParts, StatusesAreTrue, Tells, RequestOfIntent
  <1>8. LateIsAwaited'
    BY <1>1, <1>2, NothingAwaited DEF LateIsAwaited
  <1> QED
    BY <1>4, <1>5, <1>6, <1>7, <1>8 DEF NetworkParts

\* The next transaction, even as the last.
LEMMA NextTransaction ==
    ASSUME NetworkParts, nextTxn \in Network!Txns
    PROVE  /\ nextTxn \in Network!Own /\ nextTxn + 2 \in Nat /\ (nextTxn + 2) % 2 = 0
           /\ outcome[nextTxn] = "Unseen"
           /\ \A t \in Network!Own : t >= nextTxn + 2 => outcome[t] = "Unseen"
  <1>1. nextTxn \in Nat /\ nextTxn % 2 = 0
    BY DEF NetworkParts, Network!TypeOK, TransactionsOnce
  <1>2. nextTxn \in Network!Own
    BY <1>1 DEF Network!Own
  <1>3. nextTxn + 2 \in Nat /\ (nextTxn + 2) % 2 = 0
    BY <1>1
  <1>4. \A t \in Network!Own : t >= nextTxn => outcome[t] = "Unseen"
    BY DEF NetworkParts, TransactionsOnce
  <1>5. \A t \in Network!Own : t >= nextTxn + 2 => t >= nextTxn
    BY <1>1 DEF Network!Own, Network!Txns
  <1>6. nextTxn >= nextTxn
    BY <1>1
  <1> QED
    BY <1>2, <1>3, <1>4, <1>5, <1>6

\* request_scan takes a transaction and mutates nothing.
LEMMA NetworkRequestScan ==
    ASSUME NetworkParts, Network!RequestScan
    PROVE  NetworkParts'
  <1>1. /\ state = Network!Idle /\ nextTxn \in Network!Txns /\ nextTxn' = nextTxn + 2
        /\ state' = [phase |-> "Ready", intent |-> [op |-> "Scan", txn |-> nextTxn, gen |-> 0],
                     reconciliation |-> FALSE]
        /\ UNCHANGED <<latest, bound, session, reported, request, response, late,
                       device, boot, outcome, events>>
    BY DEF Network!RequestScan, Network!Ready, Network!wireVars, Network!deviceVars
  <1>2. state.phase = "Idle"
    BY <1>1 DEF Network!Idle
  <1>3. state' \in Network!States
    BY <1>1 DEF Network!States, Network!Intents
  <1>4. Network!TypeOK' /\ Network!ReportedIsTrue'
    BY <1>1, <1>3, NextTransaction DEF NetworkParts, Network!TypeOK, Network!ReportedIsTrue
  <1>5. RequestOfIntent'
    BY <1>1, <1>2 DEF NetworkParts, RequestOfIntent
  <1>6. TransactionsOnce'
    <2>1. ~ Mutates(state'.intent)
      BY <1>1 DEF Mutates, Network!Mutations
    <2>2. nextTxn \in Nat /\ \A t \in Network!Own : t \in Nat
      BY NetworkTypes DEF NetworkParts
    <2>3. \A q \in late : q.boot = boot => MayComeFirst(q.intent)'
      BY <1>1, <2>2 DEF NetworkParts, TransactionsOnce, MayComeFirst
    <2> QED
      BY <1>1, <2>1, <2>3, NextTransaction DEF NetworkParts, TransactionsOnce
  <1>7. StatusesAreTrue'
    BY <1>1, <1>2 DEF NetworkParts, StatusesAreTrue, Tells, RequestOfIntent
  <1>8. LateIsAwaited'
    BY <1>1, <1>2, NothingAwaited DEF LateIsAwaited
  <1> QED
    BY <1>4, <1>5, <1>6, <1>7, <1>8 DEF NetworkParts

\* A mutation takes a transaction the device has not seen and the generation of the latest status.
LEMMA NetworkRequestMutation ==
    ASSUME NetworkParts, NEW op \in Network!Mutations, Network!RequestMutation(op)
    PROVE  NetworkParts'
  <1>1. /\ state = Network!Idle /\ nextTxn \in Network!Txns /\ nextTxn' = nextTxn + 2
        /\ latest # Network!NoStatus
        /\ state' = [phase |-> "Ready", intent |-> [op |-> op, txn |-> nextTxn, gen |-> latest.gen],
                     reconciliation |-> FALSE]
        /\ UNCHANGED <<latest, bound, session, reported, request, response, late,
                       device, boot, outcome, events>>
    BY DEF Network!RequestMutation, Network!Ready, Network!wireVars, Network!deviceVars
  <1>2. state.phase = "Idle"
    BY <1>1 DEF Network!Idle
  <1>3. state' \in Network!States
    <2>1. latest.gen \in Nat
      BY NetworkTypes DEF NetworkParts
    <2> QED
      BY <1>1, <2>1 DEF Network!States, Network!Intents
  <1>4. Network!TypeOK' /\ Network!ReportedIsTrue'
    BY <1>1, <1>3, NextTransaction DEF NetworkParts, Network!TypeOK, Network!ReportedIsTrue
  <1>5. RequestOfIntent'
    BY <1>1, <1>2 DEF NetworkParts, RequestOfIntent
  <1>6. TransactionsOnce'
    <2>1. nextTxn \in Nat /\ nextTxn < nextTxn + 2
      BY NetworkTypes DEF NetworkParts
    <2>2. \A q \in late : q.boot = boot => MayComeFirst(q.intent)'
      <3>1. \A t \in Network!Own : t \in Nat
        BY NetworkTypes DEF NetworkParts
      <3> QED
        BY <1>1, <2>1, <3>1 DEF NetworkParts, TransactionsOnce, MayComeFirst
    <2>3. bound = boot => latest.gen <= device.gen
      BY <1>1 DEF NetworkParts, TransactionsOnce
    <2>4. bound = boot => MayComeFirst(state.intent)'
      BY <1>1, <2>1, <2>3, NextTransaction DEF MayComeFirst
    <2>5. state'.intent.txn \in Network!Own
      BY <1>1, NextTransaction
    <2> QED
      BY <1>1, <2>2, <2>3, <2>4, <2>5, NextTransaction DEF NetworkParts, TransactionsOnce
  <1>7. StatusesAreTrue'
    BY <1>1, <1>2 DEF NetworkParts, StatusesAreTrue, Tells, RequestOfIntent
  <1>8. LateIsAwaited'
    BY <1>1, <1>2, NothingAwaited DEF LateIsAwaited
  <1> QED
    BY <1>4, <1>5, <1>6, <1>7, <1>8 DEF NetworkParts

\* next_request sends the intent, or a status request in its place, for the boot of the binding.
LEMMA NetworkNextRequest ==
    ASSUME NetworkParts, Network!NextRequest
    PROVE  NetworkParts'
  <1>1. /\ session /\ request = Network!NoRequest
        /\ UNCHANGED <<nextTxn, latest, bound, session, reported, response, late,
                       device, boot, outcome, events>>
    BY DEF Network!NextRequest, Network!deviceVars
  <1>2. /\ state' = [phase |-> "Awaiting", intent |-> state.intent,
                     reconciliation |-> state'.reconciliation]
        /\ state'.reconciliation \in BOOLEAN
        /\ state'.reconciliation => state.phase = "Reconciling"
        /\ request' = [intent |-> IF state'.reconciliation THEN Network!StatusIntent
                                  ELSE state.intent, boot |-> bound]
    <2>1. CASE /\ state' = Network!Awaiting(state.intent, FALSE)
               /\ request' = Network!Request(state.intent)
      <3>1. state' = [phase |-> "Awaiting", intent |-> state.intent, reconciliation |-> FALSE]
        BY <2>1 DEF Network!Awaiting
      <3>2. request' = [intent |-> state.intent, boot |-> bound]
        BY <2>1 DEF Network!Request
      <3>3. state'.reconciliation = FALSE
        BY <3>1
      <3> QED
        BY <3>1, <3>2, <3>3
    <2>2. CASE /\ state.phase = "Reconciling" /\ state' = Network!Awaiting(state.intent, TRUE)
               /\ request' = Network!Request(Network!StatusIntent)
      <3>1. state' = [phase |-> "Awaiting", intent |-> state.intent, reconciliation |-> TRUE]
        BY <2>2 DEF Network!Awaiting
      <3>2. request' = [intent |-> Network!StatusIntent, boot |-> bound]
        BY <2>2 DEF Network!Request
      <3>3. state'.reconciliation = TRUE
        BY <3>1
      <3> QED
        BY <2>2, <3>1, <3>2, <3>3
    <2> QED
      BY <2>1, <2>2 DEF Network!NextRequest
  <1>3. state.intent \in Network!Intents /\ bound \in 1..MaxBoots
    BY NetworkTypes DEF NetworkParts
  <1>4. state' \in Network!States
    BY <1>2, <1>3 DEF Network!States
  <1>5. request'.intent \in Network!Intents /\ request' # Network!NoRequest
    BY <1>2, <1>3, FreshNetwork DEF Network!NoRequest
  <1>6. Network!TypeOK' /\ Network!ReportedIsTrue'
    BY <1>1, <1>4, <1>5 DEF NetworkParts, Network!TypeOK, Network!ReportedIsTrue
  <1>7. state'.phase = "Awaiting" /\ state'.intent = state.intent
    BY <1>2
  <1>8. RequestOfIntent'
    BY <1>1, <1>2, <1>5, <1>7 DEF NetworkParts, RequestOfIntent
  <1>9. TransactionsOnce'
    BY <1>1, <1>7 DEF NetworkParts, TransactionsOnce, MayComeFirst
  <1>10. StatusesAreTrue'
    BY <1>1 DEF NetworkParts, StatusesAreTrue, Tells
  <1>11. LateIsAwaited'
    BY <1>1, <1>7 DEF NetworkParts, LateIsAwaited
  <1> QED
    BY <1>6, <1>8, <1>9, <1>10, <1>11 DEF NetworkParts

\* What an answer does: the machine goes on with its mutation, or rests with what it was
\* told true and no copy of the mutation that can still run.
LEMMA AnswerTaken ==
    ASSUME NetworkParts, response.kind # "None",
           NEW step, step = Network!Accepted(response)
    PROVE  /\ step.state \in Network!States /\ step.state.phase # "Awaiting"
           /\ step.state.phase = "Reconciling" => Mutates(step.state.intent)
           /\ ~ step.state.reconciliation
           /\ step.latest = latest \/ step.latest = response.status
           /\ step.state.intent = state.intent \/ ~ Mutates(step.state.intent)
           /\ step.result \in {"None", "Ok", "Failed"}
           /\ step.result # "None" => Mutates(state.intent)
           /\ step.result = "Ok" => outcome[state.intent.txn] = "Ok"
           /\ Mutates(state.intent) =>
                \/ step.state.phase # "Idle" /\ step.state.intent = state.intent
                \/ device.last >= state.intent.txn
                \/ device.gen # state.intent.gen
  <1>1. /\ state.intent \in Network!Intents /\ state.reconciliation \in BOOLEAN
        /\ state.intent.txn \in 0..MaxNetworkTxn /\ state.intent.gen \in Nat
        /\ device.gen \in Nat /\ device.last \in 0..MaxNetworkTxn
        /\ Network!Own \subseteq 1..MaxNetworkTxn
    BY NetworkTypes DEF NetworkParts
  <1>2. /\ response.status \in Network!Statuses
        /\ response.status.last <= device.last /\ response.status.gen <= device.gen
        /\ response.status.last \in Network!Own => Tells(response.status)
        /\ state.reconciliation /\ response.kind = "Ok" => state.intent.gen <= response.status.gen
    BY DEF NetworkParts, StatusesAreTrue, Responses
  <1>3. response.status.last \in 0..MaxNetworkTxn /\ response.status.gen \in Nat
    BY <1>2, BoundAssumption DEF Network!Statuses, Network!Txns
  <1>4. /\ Mutates(state.intent) => state.intent.txn \in Network!Own
        /\ state.reconciliation => Mutates(state.intent)
    BY DEF NetworkParts, TransactionsOnce, RequestOfIntent
  <1>5. ASSUME Mutates(state.intent), response.status.last = state.intent.txn,
               Network!TerminalOutcome(state.intent, response.status)
        PROVE  /\ device.last >= state.intent.txn
               /\ Network!Result(response.status) = "Ok" => outcome[state.intent.txn] = "Ok"
    <2>1. device.last >= state.intent.txn
      BY <1>1, <1>2, <1>3, <1>5
    <2>2. ~ response.status.failed => response.status.link # "Associating"
      BY <1>5 DEF Network!TerminalOutcome
    <2>3. response.status.last # 0 /\ Tells(response.status)
      BY <1>1, <1>2, <1>4, <1>5
    <2> QED
      BY <1>5, <2>1, <2>2, <2>3 DEF Tells, Network!Result
  <1>6. \A i \in Network!Intents : \A p \in {"Idle", "Ready", "Reconciling"} :
          [phase |-> p, intent |-> i, reconciliation |-> FALSE] \in Network!States
    BY DEF Network!States
  <1>7. Network!StatusIntent \in Network!Intents /\ ~ Mutates(Network!StatusIntent)
    BY FreshNetwork
  <1>8. /\ Network!Idle = [phase |-> "Idle", intent |-> Network!StatusIntent, reconciliation |-> FALSE]
        /\ Network!Idle \in Network!States
    BY <1>6, <1>7 DEF Network!Idle
  <1>9. Network!Result(response.status) \in {"Ok", "Failed"}
    BY DEF Network!Result
  <1>10. /\ Network!Ready(state.intent) \in Network!States
         /\ Network!Ready(Network!StatusIntent) \in Network!States
         /\ Network!Reconciling(state.intent) \in Network!States
    BY <1>1, <1>6, <1>7 DEF Network!Ready, Network!Reconciling
  <1>11. CASE state.reconciliation
    <2>1. Mutates(state.intent)
      BY <1>4, <1>11
    <2>2. step = Network!AcceptReconciliation(state.intent, response)
      BY <1>11 DEF Network!Accepted
    <2>3. CASE response.kind # "Ok"
      <3>1. step = [state |-> Network!Reconciling(state.intent), latest |-> latest, result |-> "None"]
        BY <2>2, <2>3 DEF Network!AcceptReconciliation, Network!Keep, Network!Step
      <3> QED
        BY <2>1, <3>1, <1>10 DEF Network!Reconciling
    <2>4. CASE /\ response.kind = "Ok" /\ response.status.last = state.intent.txn
               /\ Network!TerminalOutcome(state.intent, response.status)
      <3>1. step = [state |-> Network!Idle, latest |-> response.status,
                    result |-> Network!Result(response.status)]
        BY <2>2, <2>4 DEF Network!AcceptReconciliation, Network!Step
      <3>2. /\ device.last >= state.intent.txn
            /\ Network!Result(response.status) = "Ok" => outcome[state.intent.txn] = "Ok"
        BY <1>5, <2>1, <2>4
      <3> QED
        BY <2>1, <3>1, <3>2, <1>7, <1>8, <1>9
    <2>5. CASE /\ response.kind = "Ok" /\ response.status.last = state.intent.txn
               /\ ~ Network!TerminalOutcome(state.intent, response.status)
      <3>1. step = [state |-> Network!Reconciling(state.intent), latest |-> response.status,
                    result |-> "None"]
        BY <2>2, <2>5 DEF Network!AcceptReconciliation, Network!Step
      <3> QED
        BY <2>1, <3>1, <1>10 DEF Network!Reconciling
    <2>6. CASE /\ response.kind = "Ok" /\ response.status.last # state.intent.txn
               /\ Network!Unobserved(state.intent, response.status)
      <3>1. step = [state |-> Network!Ready(state.intent), latest |-> response.status,
                    result |-> "None"]
        BY <2>2, <2>6 DEF Network!AcceptReconciliation, Network!Step
      <3> QED
        BY <2>1, <3>1, <1>10 DEF Network!Ready
    <2>7. CASE /\ response.kind = "Ok" /\ response.status.last # state.intent.txn
               /\ ~ Network!Unobserved(state.intent, response.status)
      <3>1. step = [state |-> Network!Idle, latest |-> response.status, result |-> "None"]
        BY <2>2, <2>7 DEF Network!AcceptReconciliation, Network!Step
      <3>2. response.status.last >= state.intent.txn \/ state.intent.gen # response.status.gen
        BY <1>1, <1>3, <2>7 DEF Network!Unobserved
      <3>3. state.intent.gen <= response.status.gen
        BY <1>2, <1>11, <2>7
      <3>4. device.last >= state.intent.txn \/ device.gen # state.intent.gen
        BY <1>1, <1>2, <1>3, <3>2, <3>3
      <3> QED
        BY <2>1, <3>1, <3>4, <1>7, <1>8
    <2> QED
      BY <2>3, <2>4, <2>5, <2>6, <2>7
  <1>12. CASE ~ state.reconciliation /\ state.intent.op = "Status"
    <2>1. step = Network!AcceptStatus(response) /\ ~ Mutates(state.intent)
      BY <1>12 DEF Network!Accepted, Mutates, Network!Mutations
    <2>2. /\ step.state = Network!Idle \/ step.state = Network!Ready(Network!StatusIntent)
          /\ step.latest = latest \/ step.latest = response.status
          /\ step.result = "None"
      BY <2>1 DEF Network!AcceptStatus, Network!Keep, Network!Step
    <2> QED
      BY <2>1, <2>2, <1>7, <1>8, <1>10 DEF Network!Ready
  <1>13. CASE ~ state.reconciliation /\ state.intent.op = "Scan"
    <2>1. step = Network!AcceptScan(state.intent, response) /\ ~ Mutates(state.intent)
      BY <1>13 DEF Network!Accepted, Mutates, Network!Mutations
    <2>2. /\ step.state = Network!Idle \/ step.state = Network!Ready(state.intent)
          /\ step.latest = latest /\ step.result = "None"
      BY <2>1 DEF Network!AcceptScan, Network!Keep, Network!Step
    <2> QED
      BY <2>1, <2>2, <1>7, <1>8, <1>10 DEF Network!Ready
  <1>14. CASE ~ state.reconciliation /\ state.intent.op \notin {"Status", "Scan"}
    <2>1. step = Network!AcceptMutation(state.intent, response)
      BY <1>14 DEF Network!Accepted
    <2>2. Mutates(state.intent)
      BY <1>1, <1>14 DEF Mutates, Network!Intents
    <2>3. CASE /\ response.status.last = state.intent.txn
               /\ response.kind = Network!Result(response.status)
               /\ Network!TerminalOutcome(state.intent, response.status)
               /\ response.kind \in {"Ok", "Failed"}
      <3>1. step = [state |-> Network!Idle, latest |-> response.status, result |-> response.kind]
        BY <2>1, <2>3 DEF Network!AcceptMutation, Network!Step
      <3>2. /\ device.last >= state.intent.txn
            /\ response.kind = "Ok" => outcome[state.intent.txn] = "Ok"
        BY <1>5, <2>2, <2>3
      <3> QED
        BY <2>2, <2>3, <3>1, <3>2, <1>7, <1>8
    <2>4. CASE ~ (/\ response.status.last = state.intent.txn
                  /\ response.kind = Network!Result(response.status)
                  /\ Network!TerminalOutcome(state.intent, response.status)
                  /\ response.kind \in {"Ok", "Failed"})
      <3>1. step = [state |-> Network!Reconciling(state.intent), latest |-> latest, result |-> "None"]
        BY <2>1, <2>4 DEF Network!AcceptMutation, Network!Keep, Network!Step
      <3> QED
        BY <2>2, <3>1, <1>10 DEF Network!Reconciling
    <2> QED
      BY <2>3, <2>4
  <1> QED
    BY <1>1, <1>11, <1>12, <1>13, <1>14

\* accept_response takes one of those steps.
LEMMA NetworkAcceptResponse ==
    ASSUME NetworkParts, Network!AcceptResponse
    PROVE  NetworkParts'
  <1>1. /\ response.kind # "None"
        /\ request' = Network!NoRequest /\ response' = Network!NoResponse
        /\ UNCHANGED <<nextTxn, bound, session, late, device, boot, outcome, events>>
    BY DEF Network!AcceptResponse, Network!deviceVars
  <1>2. PICK step : step = Network!Accepted(response)
    OBVIOUS
  <1>3. /\ state' = step.state /\ latest' = step.latest
        /\ reported' = IF step.result = "None" THEN reported
                       ELSE [reported EXCEPT ![state.intent.txn] = step.result]
    BY <1>2 DEF Network!AcceptResponse
  <1>4. /\ state' \in Network!States /\ state'.phase # "Awaiting" /\ ~ state'.reconciliation
        /\ state'.phase = "Reconciling" => Mutates(state'.intent)
        /\ latest' = latest \/ latest' = response.status
        /\ state'.intent = state.intent \/ ~ Mutates(state'.intent)
        /\ step.result \in {"None", "Ok", "Failed"}
        /\ step.result # "None" => Mutates(state.intent)
        /\ step.result = "Ok" => outcome[state.intent.txn] = "Ok"
        /\ Mutates(state.intent) =>
             \/ state'.phase # "Idle" /\ state'.intent = state.intent
             \/ device.last >= state.intent.txn
             \/ device.gen # state.intent.gen
    BY <1>1, <1>2, <1>3, AnswerTaken
  <1>5. /\ response.status \in Network!Statuses /\ response.status.gen <= device.gen
        /\ request.boot = boot /\ request # Network!NoRequest
    BY <1>1 DEF NetworkParts, StatusesAreTrue, Responses
  <1>6. bound = boot
    BY <1>5 DEF NetworkParts, RequestOfIntent
  <1>7. /\ reported' \in [Network!Txns -> {"None", "Ok", "Failed"}]
        /\ \A t \in Network!Txns :
              reported'[t] = reported[t] \/ (t = state.intent.txn /\ reported'[t] = step.result)
    <2>1. reported \in [Network!Txns -> {"None", "Ok", "Failed"}]
      BY DEF NetworkParts, Network!TypeOK
    <2> QED
      BY <1>3, <1>4, <2>1
  <1>8. Network!TypeOK'
    <2>1. latest' \in Network!Statuses
      BY <1>4, <1>5 DEF NetworkParts, Network!TypeOK
    <2> QED
      BY <1>1, <1>4, <1>7, <2>1, FreshNetwork DEF NetworkParts, Network!TypeOK
  <1>9. Network!ReportedIsTrue'
    BY <1>1, <1>4, <1>7 DEF NetworkParts, Network!ReportedIsTrue, Network!Own
  <1>10. RequestOfIntent'
    BY <1>1, <1>4 DEF NetworkParts, RequestOfIntent
  <1>11. TransactionsOnce'
    <2>1. Mutates(state'.intent) => state'.intent = state.intent
      BY <1>4
    <2>2. Mutates(state'.intent) =>
            /\ state'.intent.txn \in Network!Own
            /\ bound = boot => MayComeFirst(state.intent)'
      BY <1>1, <2>1 DEF NetworkParts, TransactionsOnce, MayComeFirst
    <2>3. \A q \in late : q.boot = boot => MayComeFirst(q.intent)'
      BY <1>1 DEF NetworkParts, TransactionsOnce, MayComeFirst
    <2>4. latest' # Network!NoStatus => latest'.gen <= device.gen
      BY <1>4, <1>5, <1>6 DEF NetworkParts, TransactionsOnce
    <2> QED
      BY <1>1, <2>2, <2>3, <2>4 DEF NetworkParts, TransactionsOnce
  <1>12. StatusesAreTrue'
    BY <1>1, FreshNetwork DEF NetworkParts, StatusesAreTrue, Tells
  <1>13. LateIsAwaited'
    <2> SUFFICES ASSUME NEW q \in late, q.boot = boot, q.intent.txn > device.last,
                        q.intent.gen = device.gen
                 PROVE  state'.phase # "Idle" /\ state'.intent = q.intent
      BY <1>1, <1>6 DEF LateIsAwaited
    <2>1. state.intent = q.intent
      BY DEF NetworkParts, LateIsAwaited
    <2>2. Mutates(state.intent)
      BY <2>1 DEF NetworkParts, RequestOfIntent
    <2>3. ~ (device.last >= state.intent.txn)
      BY <2>1, NetworkTypes DEF NetworkParts
    <2> QED
      BY <1>4, <2>1, <2>2, <2>3
  <1> QED
    BY <1>8, <1>9, <1>10, <1>11, <1>12, <1>13 DEF NetworkParts

\* abandon_pending: a mutation that may still arrive is the one the machine reconciles.
LEMMA NetworkAbandonPending ==
    ASSUME NetworkParts, Network!AbandonPending
    PROVE  NetworkParts'
  <1>1. /\ request # Network!NoRequest
        /\ (events' = events + 1 /\ events < MaxEvents) \/ events' = events
        /\ session' \in BOOLEAN
        /\ state' = IF Mutates(state.intent) THEN Network!Reconciling(state.intent)
                    ELSE Network!Ready(state.intent)
        /\ late' = IF request.intent.op \in Network!Mutations THEN late \cup {request} ELSE late
        /\ request' = Network!NoRequest /\ response' = Network!NoResponse
        /\ UNCHANGED <<nextTxn, latest, bound, reported, device, boot, outcome>>
    BY DEF Network!AbandonPending, Network!AfterAbandon, Network!deviceVars, Mutates
  <1>2. /\ state.intent \in Network!Intents /\ bound \in 1..MaxBoots
    BY NetworkTypes DEF NetworkParts
  <1>3. /\ state' \in Network!States /\ state'.phase \in {"Reconciling", "Ready"}
        /\ state'.phase = "Reconciling" => Mutates(state.intent)
        /\ ~ state'.reconciliation /\ state'.intent = state.intent
    BY <1>1, <1>2 DEF Network!States, Network!Reconciling, Network!Ready
  <1>4. /\ request = [intent |-> IF state.reconciliation THEN Network!StatusIntent ELSE state.intent,
                       boot |-> bound]
    BY <1>1 DEF NetworkParts, RequestOfIntent
  <1>5. request.intent.op \in Network!Mutations =>
            request.intent = state.intent /\ request.boot = bound /\ Mutates(state.intent)
    BY <1>4, FreshNetwork DEF Mutates
  <1>6. \A q \in late' : \/ q \in late
                        \/ /\ q = request /\ q.intent = state.intent /\ q.boot = bound
                           /\ Mutates(state.intent)
    BY <1>1, <1>5
  <1>7. Network!TypeOK'
    <2>1. events' \in 0..MaxEvents
      BY <1>1, BoundAssumption DEF NetworkParts, Network!TypeOK
    <2>2. late' \subseteq [intent : Network!Intents, boot : 1..MaxBoots]
      <3>1. request \in [intent : Network!Intents, boot : 1..MaxBoots]
        BY <1>2, <1>4, FreshNetwork
      <3> QED
        BY <1>1, <3>1 DEF NetworkParts, Network!TypeOK
    <2> QED
      BY <1>1, <1>3, <2>1, <2>2, FreshNetwork DEF NetworkParts, Network!TypeOK
  <1>8. Network!ReportedIsTrue'
    BY <1>1 DEF NetworkParts, Network!ReportedIsTrue
  <1>9. RequestOfIntent'
    <2>1. \A q \in late' : Mutates(q.intent) /\ q.boot <= bound
      BY <1>2, <1>6 DEF NetworkParts, RequestOfIntent
    <2> QED
      BY <1>1, <1>3, <2>1 DEF NetworkParts, RequestOfIntent
  <1>10. TransactionsOnce'
    <2>1. Mutates(state.intent) =>
            state.intent.txn \in Network!Own /\ (bound = boot => MayComeFirst(state.intent))
      BY DEF NetworkParts, TransactionsOnce
    <2>2. Mutates(state.intent) /\ bound = boot => MayComeFirst(state.intent)'
      BY <1>1, <1>3, <2>1 DEF MayComeFirst
    <2>3. \A q \in late' : q.boot = boot => MayComeFirst(q.intent)'
      <3>1. \A q \in late' : q.boot = boot => MayComeFirst(q.intent)
        BY <1>6, <2>1 DEF NetworkParts, TransactionsOnce
      <3> QED
        BY <1>1, <3>1 DEF MayComeFirst
    <2> QED
      BY <1>1, <1>3, <2>1, <2>2, <2>3 DEF NetworkParts, TransactionsOnce
  <1>11. StatusesAreTrue'
    BY <1>1, FreshNetwork DEF NetworkParts, StatusesAreTrue, Tells
  <1>12. LateIsAwaited'
    <2> SUFFICES ASSUME NEW q \in late', q.boot = boot, q.intent.txn > device.last,
                        q.intent.gen = device.gen
                 PROVE  state.intent = q.intent /\ bound = boot
      BY <1>1, <1>3 DEF LateIsAwaited
    <2> QED
      BY <1>6 DEF NetworkParts, LateIsAwaited
  <1> QED
    BY <1>7, <1>8, <1>9, <1>10, <1>11, <1>12 DEF NetworkParts

\* bind_network_boot: with another boot every late request is stale.
LEMMA NetworkBindBoot ==
    ASSUME NetworkParts, Network!BindNetworkBoot
    PROVE  NetworkParts'
  <1>1. /\ ~ session /\ session' = TRUE /\ bound' = boot
        /\ IF bound # boot
             THEN latest' = Network!NoStatus /\ state' = Network!Ready(Network!StatusIntent)
             ELSE /\ latest' = latest
                  /\ \/ state' = state
                     \/ state.phase = "Idle" /\ state' = Network!Ready(Network!StatusIntent)
        /\ UNCHANGED <<nextTxn, reported, request, response, late, device, boot, outcome, events>>
    BY DEF Network!BindNetworkBoot, Network!wireVars, Network!deviceVars, Network!Idle
  <1>2. bound \in 1..MaxBoots /\ boot \in 1..MaxBoots /\ bound <= boot
    BY NetworkTypes DEF NetworkParts, RequestOfIntent
  <1>3. request = Network!NoRequest /\ state.phase # "Awaiting"
    BY <1>1 DEF NetworkParts, RequestOfIntent
  <1>4. /\ Network!Ready(Network!StatusIntent) \in Network!States
        /\ Network!Ready(Network!StatusIntent).phase = "Ready"
        /\ ~ Network!Ready(Network!StatusIntent).reconciliation
        /\ ~ Mutates(Network!Ready(Network!StatusIntent).intent)
    BY FreshNetwork DEF Network!Ready, Network!States
  <1>5. Network!TypeOK' /\ Network!ReportedIsTrue'
    BY <1>1, <1>4, FreshNetwork DEF NetworkParts, Network!TypeOK, Network!ReportedIsTrue
  <1>6. RequestOfIntent'
    <2>1. \A q \in late : q.boot <= boot
      BY <1>2, NetworkTypes DEF NetworkParts, RequestOfIntent
    <2>2. boot <= boot
      BY <1>2
    <2>3. /\ state'.phase # "Awaiting"
          /\ state'.reconciliation \/ state'.phase = "Reconciling" => Mutates(state'.intent)
      BY <1>1, <1>3, <1>4 DEF NetworkParts, RequestOfIntent
    <2> QED
      BY <1>1, <1>3, <2>1, <2>2, <2>3 DEF NetworkParts, RequestOfIntent
  <1>7. TransactionsOnce'
    <2>1. Mutates(state'.intent) => state' = state /\ bound = boot
      BY <1>1, <1>4
    <2>2. \A q \in late : q.boot = boot => MayComeFirst(q.intent)'
      BY <1>1 DEF NetworkParts, TransactionsOnce, MayComeFirst
    <2>3. Mutates(state'.intent) => state'.intent.txn \in Network!Own /\ MayComeFirst(state.intent)'
      BY <1>1, <2>1 DEF NetworkParts, TransactionsOnce, MayComeFirst
    <2>4. latest' # Network!NoStatus => latest'.gen <= device.gen
      BY <1>1 DEF NetworkParts, TransactionsOnce
    <2> QED
      BY <1>1, <2>1, <2>2, <2>3, <2>4 DEF NetworkParts, TransactionsOnce
  <1>8. StatusesAreTrue'
    BY <1>1, <1>3 DEF NetworkParts, StatusesAreTrue, Tells
  <1>9. LateIsAwaited'
    <2>1. CASE bound # boot
      <3>1. \A q \in late : q.boot # boot
        BY <1>2, <2>1, NetworkTypes DEF NetworkParts, RequestOfIntent
      <3> QED
        BY <1>1, <3>1 DEF LateIsAwaited
    <2>2. CASE bound = boot /\ state' = state
      BY <1>1, <2>2 DEF NetworkParts, LateIsAwaited
    <2>3. CASE state.phase = "Idle"
      BY <1>1, <2>3, NothingAwaited DEF LateIsAwaited
    <2> QED
      BY <1>1, <2>1, <2>2, <2>3
  <1> QED
    BY <1>5, <1>6, <1>7, <1>8, <1>9 DEF NetworkParts

\* A step of the device alone, by which its generation grows and at most its last
\* transaction, not yet decided before, becomes something else.
LEMMA NetworkDeviceSteps ==
    ASSUME NetworkParts,
           UNCHANGED <<state, nextTxn, latest, bound, session, reported, request, response, late,
                       boot>>,
           events' \in 0..MaxEvents,
           device' \in Network!Statuses, device'.gen = device.gen + 1,
           device.last <= device'.last,
           outcome' \in [Network!Txns -> {"Unseen", "Joining", "Ok", "Failed"}],
           \A t \in Network!Own :
              \/ outcome'[t] = outcome[t]
              \/ t = device'.last /\ outcome[t] # "Ok" /\ t < nextTxn,
           Tells(device)',
           device'.link = "Associating" => device'.last # 0 /\ outcome'[device'.last] = "Joining"
    PROVE  NetworkParts'
  <1>1. /\ device.gen \in Nat /\ device.last \in 0..MaxNetworkTxn
        /\ device'.last \in 0..MaxNetworkTxn /\ nextTxn \in Nat
        /\ \A t \in Network!Own : t \in 1..MaxNetworkTxn
    BY NetworkTypes, BoundAssumption DEF NetworkParts, Network!Statuses, Network!Txns
  <1>2. Network!TypeOK'
    BY DEF NetworkParts, Network!TypeOK
  <1>3. Network!ReportedIsTrue'
    BY DEF NetworkParts, Network!ReportedIsTrue
  <1>4. RequestOfIntent'
    BY DEF NetworkParts, RequestOfIntent
  <1>5. TransactionsOnce'
    <2>1. ASSUME NEW i \in Network!Intents, MayComeFirst(i)
          PROVE  MayComeFirst(i)'
      <3>1. i.txn \in Network!Own /\ i.txn < nextTxn /\ i.gen <= device.gen
        BY <2>1 DEF MayComeFirst
      <3>2. i.gen \in Nat /\ i.txn \in 1..MaxNetworkTxn
        BY <1>1, <3>1 DEF Network!Intents
      <3>3. i.gen <= device'.gen
        BY <1>1, <3>1, <3>2
      <3>4. outcome[i.txn] = "Unseen" \/ i.txn <= device.last
        BY <2>1 DEF MayComeFirst
      <3>5. i.txn <= device.last => i.txn <= device'.last
        BY <1>1, <3>2
      <3>6. i.txn = device'.last => i.txn <= device'.last
        BY <1>1
      <3>7. outcome'[i.txn] = "Unseen" \/ i.txn <= device'.last
        BY <3>1, <3>4, <3>5, <3>6
      <3> QED
        BY <3>1, <3>3, <3>7 DEF MayComeFirst
    <2>2. \A t \in Network!Own : t >= nextTxn => outcome'[t] = "Unseen"
      <3>1. \A t \in Network!Own : t >= nextTxn => outcome'[t] = outcome[t]
        BY <1>1
      <3> QED
        BY <3>1 DEF NetworkParts, TransactionsOnce
    <2>3. bound = boot /\ latest # Network!NoStatus => latest.gen <= device'.gen
      BY <1>1, NetworkTypes DEF NetworkParts, TransactionsOnce
    <2>4. state.intent \in Network!Intents /\ \A q \in late : q.intent \in Network!Intents
      BY NetworkTypes DEF NetworkParts
    <2>5. \A q \in late : q.boot = boot => MayComeFirst(q.intent)'
      BY <2>1, <2>4 DEF NetworkParts, TransactionsOnce
    <2>6. Mutates(state.intent) =>
            state.intent.txn \in Network!Own /\ (bound = boot => MayComeFirst(state.intent)')
      BY <2>1, <2>4 DEF NetworkParts, TransactionsOnce
    <2> QED
      BY <2>2, <2>3, <2>5, <2>6 DEF NetworkParts, TransactionsOnce, MayComeFirst
  <1>6. StatusesAreTrue'
    <2>1. CASE response.kind = "None"
      BY <2>1 DEF NetworkParts, StatusesAreTrue
    <2>2. CASE response.kind # "None"
      <3>1. /\ response.status.last \in 0..MaxNetworkTxn /\ response.status.gen \in Nat
        BY BoundAssumption DEF NetworkParts, StatusesAreTrue, Responses, Network!Statuses,
           Network!Txns
      <3>2. response.status.last <= device'.last /\ response.status.gen <= device'.gen
        BY <1>1, <2>2, <3>1 DEF NetworkParts, StatusesAreTrue
      <3>3. response.status.last \in Network!Own => Tells(response.status)'
        BY <2>2 DEF NetworkParts, StatusesAreTrue, Tells
      <3> QED
        BY <2>2, <3>2, <3>3 DEF NetworkParts, StatusesAreTrue
    <2> QED
      BY <2>1, <2>2
  <1>7. LateIsAwaited'
    <2>1. \A q \in late : q.boot = boot => q.intent.gen # device'.gen
      <3> SUFFICES ASSUME NEW q \in late, q.boot = boot
                   PROVE  q.intent.gen # device'.gen
        OBVIOUS
      <3>1. q.intent.gen <= device.gen /\ q.intent.gen \in Nat
        BY NetworkTypes DEF NetworkParts, TransactionsOnce, MayComeFirst
      <3> QED
        BY <1>1, <3>1
    <2> QED
      BY <2>1 DEF LateIsAwaited
  <1> QED
    BY <1>2, <1>3, <1>4, <1>5, <1>6, <1>7 DEF NetworkParts

\* A mutation that runs was not observed before, so nothing was reported of it.
LEMMA NetworkObserve ==
    ASSUME NetworkParts, NEW q \in late \cup {request}, Network!Observe(q)
    PROVE  NetworkParts'
  <1>1. /\ Mutates(q.intent)
        /\ q.boot = boot /\ q.intent.txn > device.last /\ q.intent.gen = device.gen
        /\ device' = [gen |-> device.gen + 1, last |-> q.intent.txn, failed |-> FALSE,
                      link |-> IF q.intent.op = "Join" THEN "Associating" ELSE "Disconnected",
                      configured |-> FALSE]
        /\ outcome' = [outcome EXCEPT ![q.intent.txn] =
                         IF q.intent.op = "Join" THEN "Joining" ELSE "Ok"]
        /\ UNCHANGED <<state, nextTxn, latest, bound, session, reported, request, response, late,
                       boot, events>>
    BY DEF Network!Observe, Network!Runs, Network!Run, Network!machineVars, Network!wireVars, Mutates
  <1>2. MayComeFirst(q.intent)
    <2>1. CASE q \in late
      BY <1>1, <2>1 DEF NetworkParts, TransactionsOnce
    <2>2. CASE q = request
      <3>1. request # Network!NoRequest
        BY <1>1, <2>2, FreshNetwork DEF Network!NoRequest
      <3>2. request = [intent |-> IF state.reconciliation THEN Network!StatusIntent
                                  ELSE state.intent, boot |-> bound]
        BY <3>1 DEF NetworkParts, RequestOfIntent
      <3>3. q.intent = state.intent /\ q.boot = bound
        BY <1>1, <2>2, <3>2, FreshNetwork
      <3> QED
        BY <1>1, <3>3 DEF NetworkParts, TransactionsOnce
    <2> QED
      BY <2>1, <2>2
  <1>3. /\ q.intent \in Network!Intents /\ q.intent.txn \in 1..MaxNetworkTxn
        /\ q.intent.txn \in Network!Own /\ q.intent.txn < nextTxn
        /\ device.gen \in Nat /\ device.last \in 0..MaxNetworkTxn
    BY <1>2, NetworkTypes DEF NetworkParts, MayComeFirst
  <1>4. outcome[q.intent.txn] = "Unseen"
    BY <1>1, <1>2, <1>3 DEF MayComeFirst
  <1>5. device.last <= q.intent.txn /\ device.gen + 1 \in Nat /\ q.intent.txn # 0
    BY <1>1, <1>3
  <1>6. device' \in Network!Statuses
    BY <1>1, <1>3, <1>5 DEF Network!Statuses, Network!Txns
  <1>7. outcome \in [Network!Txns -> {"Unseen", "Joining", "Ok", "Failed"}]
    BY DEF NetworkParts, Network!TypeOK
  <1>8. /\ outcome' \in [Network!Txns -> {"Unseen", "Joining", "Ok", "Failed"}]
        /\ outcome'[q.intent.txn] = (IF q.intent.op = "Join" THEN "Joining" ELSE "Ok")
        /\ \A t \in Network!Txns : outcome'[t] = outcome[t] \/ t = q.intent.txn
    BY <1>1, <1>3, <1>7 DEF Network!Txns
  <1>9. /\ device'.gen = device.gen + 1 /\ device'.last = q.intent.txn
        /\ device'.link = (IF q.intent.op = "Join" THEN "Associating" ELSE "Disconnected")
    BY <1>1
  <1>10. Tells(device)'
    BY <1>8, <1>9 DEF Tells
  <1>11. device'.link = "Associating" => device'.last # 0 /\ outcome'[device'.last] = "Joining"
    BY <1>5, <1>8, <1>9
  <1>12. \A t \in Network!Own :
           \/ outcome'[t] = outcome[t]
           \/ t = device'.last /\ outcome[t] # "Ok" /\ t < nextTxn
    BY <1>3, <1>4, <1>8, <1>9 DEF Network!Own
  <1>13. events' \in 0..MaxEvents /\ device.last <= device'.last
    BY <1>1, <1>5, <1>9 DEF NetworkParts, Network!TypeOK
  <1> QED
    BY <1>1, <1>6, <1>8, <1>9, <1>10, <1>11, <1>12, <1>13, NetworkDeviceSteps

\* A join that ends was still joining, so nothing was reported of it.
LEMMA NetworkJoinEnds ==
    ASSUME NetworkParts, Network!JoinEnds
    PROVE  NetworkParts'
  <1>1. PICK ok \in BOOLEAN :
          /\ device' = [device EXCEPT !.gen = device.gen + 1, !.failed = ~ ok,
                                      !.link = IF ok THEN "Addressed" ELSE "Disconnected",
                                      !.configured = ok]
          /\ outcome' = [outcome EXCEPT ![device.last] = IF ok THEN "Ok" ELSE "Failed"]
    BY DEF Network!JoinEnds
  <1>2. /\ device.link = "Associating"
        /\ UNCHANGED <<state, nextTxn, latest, bound, session, reported, request, response, late,
                       boot, events>>
    BY DEF Network!JoinEnds, Network!machineVars, Network!wireVars
  <1>3. /\ device \in Network!Statuses /\ device.gen \in Nat /\ device.last \in 0..MaxNetworkTxn
        /\ nextTxn \in Nat /\ Network!Own \subseteq 1..MaxNetworkTxn
    BY NetworkTypes DEF NetworkParts
  <1>4. device.last # 0 /\ outcome[device.last] = "Joining"
    BY <1>2 DEF NetworkParts, StatusesAreTrue
  <1>5. device.last \in Network!Txns /\ device.gen + 1 \in Nat /\ device.last <= device.last
    BY <1>3, <1>4 DEF Network!Txns
  <1>6. /\ device' \in Network!Statuses /\ device'.gen = device.gen + 1
        /\ device'.last = device.last /\ device'.failed = ~ ok
        /\ device'.link = (IF ok THEN "Addressed" ELSE "Disconnected")
    BY <1>1, <1>3, <1>5 DEF Network!Statuses
  <1>7. outcome \in [Network!Txns -> {"Unseen", "Joining", "Ok", "Failed"}]
    BY DEF NetworkParts, Network!TypeOK
  <1>8. /\ outcome' \in [Network!Txns -> {"Unseen", "Joining", "Ok", "Failed"}]
        /\ outcome'[device.last] = (IF ok THEN "Ok" ELSE "Failed")
        /\ \A t \in Network!Txns : outcome'[t] = outcome[t] \/ t = device.last
    BY <1>1, <1>5, <1>7
  <1>9. Tells(device)'
    BY <1>6, <1>8 DEF Tells
  <1>10. \A t \in Network!Own :
           \/ outcome'[t] = outcome[t]
           \/ t = device'.last /\ outcome[t] # "Ok" /\ t < nextTxn
    <2>1. \A t \in Network!Own : t >= nextTxn => outcome[t] = "Unseen"
      BY DEF NetworkParts, TransactionsOnce
    <2>2. \A t \in Network!Own : t >= nextTxn \/ t < nextTxn
      BY <1>3
    <2> QED
      BY <1>4, <1>6, <1>8, <2>1, <2>2 DEF Network!Own
  <1>11. device'.link # "Associating"
    BY <1>6
  <1>12. events' \in 0..MaxEvents
    BY <1>2 DEF NetworkParts, Network!TypeOK
  <1> QED
    BY <1>2, <1>5, <1>6, <1>8, <1>9, <1>10, <1>11, <1>12, NetworkDeviceSteps

\* Another page's transaction is never this page's, and makes every late request stale.
LEMMA NetworkDisturbed ==
    ASSUME NetworkParts, Network!Disturbed
    PROVE  NetworkParts'
  <1>1. /\ events < MaxEvents /\ events' = events + 1
        /\ UNCHANGED <<state, nextTxn, latest, bound, session, reported, request, response, late,
                       boot>>
    BY DEF Network!Disturbed, Network!machineVars, Network!wireVars
  <1>2. /\ device \in Network!Statuses /\ device.gen \in Nat /\ device.last \in 0..MaxNetworkTxn
    BY NetworkTypes DEF NetworkParts
  <1>3. /\ outcome \in [Network!Txns -> {"Unseen", "Joining", "Ok", "Failed"}]
        /\ events' \in 0..MaxEvents /\ device.gen + 1 \in Nat /\ device.last <= device.last
    BY <1>1, <1>2, BoundAssumption DEF NetworkParts, Network!TypeOK
  <1>4. CASE /\ device' = [device EXCEPT !.gen = device.gen + 1, !.failed = TRUE,
                                         !.link = "Disconnected"]
             /\ outcome' = outcome
    <2>1. /\ device' \in Network!Statuses /\ device'.gen = device.gen + 1
          /\ device'.last = device.last /\ device'.failed /\ device'.link = "Disconnected"
      BY <1>2, <1>3, <1>4 DEF Network!Statuses
    <2>2. Tells(device)'
      BY <2>1 DEF Tells
    <2> QED
      BY <1>1, <1>3, <1>4, <2>1, <2>2, NetworkDeviceSteps
  <1>5. CASE \E t \in Network!Txns \ Network!Own :
               t > device.last /\ Network!Run([op |-> "Leave", txn |-> t])
    <2>1. PICK t \in Network!Txns \ Network!Own :
               t > device.last /\ Network!Run([op |-> "Leave", txn |-> t])
      BY <1>5
    <2>2. /\ device' = [gen |-> device.gen + 1, last |-> t, failed |-> FALSE,
                        link |-> "Disconnected", configured |-> FALSE]
          /\ outcome' = [outcome EXCEPT ![t] = "Ok"]
      BY <2>1 DEF Network!Run
    <2>3. t \in Network!Txns /\ t \notin Network!Own /\ device.last <= t
      BY <1>2, <2>1 DEF Network!Txns
    <2>4. /\ device' \in Network!Statuses /\ device'.gen = device.gen + 1
          /\ device'.last = t /\ device'.link = "Disconnected"
      BY <1>3, <2>2, <2>3 DEF Network!Statuses
    <2>5. /\ outcome' \in [Network!Txns -> {"Unseen", "Joining", "Ok", "Failed"}]
          /\ outcome'[t] = "Ok"
          /\ \A u \in Network!Own : outcome'[u] = outcome[u]
      BY <1>3, <2>2, <2>3 DEF Network!Own
    <2>6. Tells(device)'
      BY <2>4, <2>5 DEF Tells
    <2> QED
      BY <1>1, <1>3, <2>3, <2>4, <2>5, <2>6, NetworkDeviceSteps
  <1> QED
    BY <1>4, <1>5 DEF Network!Disturbed

\* A status is the device's as it answers, and at least as new as the mutation it is to settle.
LEMMA NetworkDeviceAnswers ==
    ASSUME NetworkParts, Network!DeviceAnswers
    PROVE  NetworkParts'
  <1>1. /\ request # Network!NoRequest /\ request.boot = boot
        /\ \/ response' \in Network!Answers /\ events' = events
           \/ /\ events < MaxEvents /\ events' = events + 1
              /\ \E kind \in {"Garbled", "Refused", "RefusedBody"} :
                    response' = Network!Response(kind, Network!NoStatus, 0)
        /\ UNCHANGED <<state, nextTxn, latest, bound, session, reported, request, late,
                       device, boot, outcome>>
    BY DEF Network!DeviceAnswers, Network!machineVars, Network!deviceVars
  <1>2. /\ device \in Network!Statuses /\ device.gen \in Nat /\ device.last \in 0..MaxNetworkTxn
        /\ request.intent \in Network!Intents /\ request.intent.txn \in Network!Txns \cup {0}
    BY NetworkTypes DEF NetworkParts, Network!Intents
  <1>3. request = [intent |-> IF state.reconciliation THEN Network!StatusIntent ELSE state.intent,
                   boot |-> bound]
    BY <1>1 DEF NetworkParts, RequestOfIntent
  <1>4. /\ response'.kind \in {"Ok", "Failed", "Garbled", "Refused", "RefusedBody"}
        /\ response'.status = device \/ response'.status = Network!NoStatus
        /\ response'.kind = "Ok" /\ request.intent.op = "Status" => response'.status = device
        /\ response' \in Responses
    <2>1. CASE response' \in Network!Answers
      <3>1. CASE request.intent.op = "Status"
        BY <1>2, <2>1, <3>1 DEF Network!Answers, Network!Response, Responses
      <3>2. CASE request.intent.op = "Scan"
        BY <1>2, <2>1, <3>2, FreshNetwork DEF Network!Answers, Network!Response, Responses
      <3>3. CASE request.intent.op \notin {"Status", "Scan"}
        <4>1. Network!Result(device) \in {"Ok", "Failed"}
          BY DEF Network!Result
        <4>2. \/ response' = [kind |-> Network!Result(device), status |-> device, txn |-> 0]
              \/ response' = [kind |-> "Refused", status |-> Network!NoStatus, txn |-> 0]
          BY <2>1, <3>3 DEF Network!Answers, Network!Response
        <4> QED
          BY <1>2, <3>3, <4>1, <4>2, FreshNetwork DEF Responses
      <3> QED
        BY <3>1, <3>2, <3>3
    <2>2. CASE \E kind \in {"Garbled", "Refused", "RefusedBody"} :
                 response' = Network!Response(kind, Network!NoStatus, 0)
      BY <2>2, FreshNetwork DEF Network!Response, Responses
    <2> QED
      BY <1>1, <2>1, <2>2
  <1>5. Network!TypeOK'
    <2>1. events' \in 0..MaxEvents
      BY <1>1, BoundAssumption DEF NetworkParts, Network!TypeOK
    <2> QED
      BY <1>1, <2>1 DEF NetworkParts, Network!TypeOK
  <1>6. Network!ReportedIsTrue' /\ RequestOfIntent'
    BY <1>1 DEF NetworkParts, Network!ReportedIsTrue, RequestOfIntent
  <1>7. TransactionsOnce' /\ LateIsAwaited'
    BY <1>1 DEF NetworkParts, TransactionsOnce, MayComeFirst, LateIsAwaited
  <1>8. StatusesAreTrue'
    <2>1. /\ Tells(device)
          /\ device.link = "Associating" => device.last # 0 /\ outcome[device.last] = "Joining"
      BY DEF NetworkParts, StatusesAreTrue
    <2>2. Network!NoStatus.last = 0 /\ Network!NoStatus.gen = 0
      BY DEF Network!NoStatus
    <2>3. response'.status.last <= device.last /\ response'.status.gen <= device.gen
      BY <1>2, <1>4, <2>2
    <2>4. Tells(response'.status)
      BY <1>4, <2>1, <2>2 DEF Tells
    <2>5. state.reconciliation /\ response'.kind = "Ok" => state.intent.gen <= response'.status.gen
      <3>1. state.reconciliation => Mutates(state.intent) /\ request.intent.op = "Status"
        BY <1>3 DEF NetworkParts, RequestOfIntent, Network!StatusIntent
      <3>2. Mutates(state.intent) => state.intent.gen <= device.gen
        BY <1>1, <1>3 DEF NetworkParts, TransactionsOnce, MayComeFirst
      <3> QED
        BY <1>4, <3>1, <3>2
    <2> QED
      BY <1>1, <1>4, <2>1, <2>3, <2>4, <2>5 DEF StatusesAreTrue, Tells
  <1> QED
    BY <1>5, <1>6, <1>7, <1>8 DEF NetworkParts

\* No request is signed for the boot that begins.
LEMMA NetworkRestart ==
    ASSUME NetworkParts, Network!Restart
    PROVE  NetworkParts'
  <1>1. /\ boot < MaxBoots /\ boot' = boot + 1
        /\ device' = Network!FreshDevice /\ response' = Network!NoResponse
        /\ UNCHANGED <<state, nextTxn, latest, bound, session, reported, request, late,
                       outcome, events>>
    BY DEF Network!Restart, Network!machineVars
  <1>2. boot \in 1..MaxBoots /\ bound \in 1..MaxBoots /\ bound <= boot
    BY NetworkTypes DEF NetworkParts, RequestOfIntent
  <1>3. boot' \in 1..MaxBoots /\ bound <= boot' /\ bound # boot'
    BY <1>1, <1>2, BoundAssumption
  <1>4. \A q \in late : q.boot # boot'
    BY <1>1, <1>2, NetworkTypes DEF NetworkParts, RequestOfIntent
  <1>5. Network!TypeOK' /\ Network!ReportedIsTrue'
    BY <1>1, <1>3, FreshNetwork DEF NetworkParts, Network!TypeOK, Network!ReportedIsTrue
  <1>6. RequestOfIntent'
    BY <1>1, <1>3 DEF NetworkParts, RequestOfIntent
  <1>7. TransactionsOnce' /\ LateIsAwaited'
    BY <1>1, <1>3, <1>4 DEF NetworkParts, TransactionsOnce, LateIsAwaited
  <1>8. StatusesAreTrue'
    BY <1>1, FreshNetwork DEF StatusesAreTrue, Tells, Network!FreshDevice
  <1> QED
    BY <1>5, <1>6, <1>7, <1>8 DEF NetworkParts

\* Every step of the network service keeps the invariant.
LEMMA NetworkStep ==
    ASSUME NetworkParts, Network!Next
    PROVE  NetworkParts'
  <1>1. CASE \E op \in Network!Mutations : Network!RequestMutation(op)
    BY <1>1, NetworkRequestMutation
  <1>2. CASE Network!Observe(request) \/ \E q \in late : Network!Observe(q)
    BY <1>2, NetworkObserve
  <1> QED
    BY <1>1, <1>2, NetworkRequestStatus, NetworkRequestScan, NetworkNextRequest,
       NetworkAcceptResponse, NetworkDeviceAnswers, NetworkAbandonPending, NetworkBindBoot,
       NetworkJoinEnds, NetworkDisturbed, NetworkRestart DEF Network!Next, Network!Exchange

\* The invariant says what is promised of network mutations.
LEMMA NetworkPromises ==
    ASSUME NetworkParts
    PROVE  Network!TypeOK /\ Network!ReportedIsTrue /\ Network!NothingLingers
  BY DEF NetworkParts, LateIsAwaited, Network!NothingLingers, Network!Runs

-----------------------------------------------------------------------------
(* The theorems.                                                           *)

\* A network mutation reported successful was carried out, and no copy of one the page has
\* let go of can still be: the answer, the reconciliation or a new boot has made it stale
\* (ProvisioningMachine::accept_response, abandon_pending).
THEOREM NetworksAreTrue == Spec => []NetworkIsTrue
  <1>1. Init => NetworkInv
    BY NetworkInit DEF Init, NetworkInv
  <1>2. NetworkInv /\ [Next]_vars => NetworkInv'
    <2> SUFFICES ASSUME NetworkInv, [Next]_vars, service' = "Network"
                 PROVE  NetworkParts'
      BY DEF NetworkInv
    <2>1. service = "Network" /\ NetworkParts
      BY DEF NetworkInv, Next, vars, Network_, Install_, Run_
    <2>2. CASE Network!Next
      BY <2>1, <2>2, NetworkStep
    <2>3. CASE UNCHANGED vars
      BY <2>1, <2>3 DEF vars, network, NetworkParts, Network!TypeOK, Network!ReportedIsTrue,
         RequestOfIntent, TransactionsOnce, MayComeFirst, StatusesAreTrue, Tells, LateIsAwaited
    <2> QED
      BY <2>1, <2>2, <2>3 DEF Next, Network_, Install_, Run_
  <1>3. NetworkInv => NetworkIsTrue
    BY NetworkPromises DEF NetworkInv, NetworkIsTrue
  <1> QED
    BY <1>1, <1>2, <1>3, PTL DEF Spec

\* An installation completes or is rejected as the device did with its own package, whatever
\* the report shows of another, and no package is activated unasked
\* (GraphInstallMachine::accept_response, active_matches, realtime_matches).
THEOREM InstallsAreTrue == Spec => []InstallIsTrue
  <1>1. Init => InstallInv
    BY InstallInit DEF Init, InstallInv
  <1>2. InstallInv /\ [Next]_vars => InstallInv'
    <2> SUFFICES ASSUME InstallInv, [Next]_vars, service' = "Install"
                 PROVE  InstallParts'
      BY DEF InstallInv
    <2>1. service = "Install" /\ InstallParts
      BY DEF InstallInv, Next, vars, Network_, Install_, Run_
    <2>2. CASE Install!Next
      BY <2>1, <2>2, InstallStep
    <2>3. CASE UNCHANGED vars
      BY <2>1, <2>3 DEF vars, install, InstallParts, Install!TypeOK, Install!CompleteIsActive,
         Install!RejectedIsTrue, Install!ActivatedWhenAsked, DeviceOfInstalls, Truthful
    <2> QED
      BY <2>1, <2>2, <2>3 DEF Next, Network_, Install_, Run_
  <1>3. InstallInv => InstallIsTrue
    BY DEF InstallInv, InstallParts, InstallIsTrue
  <1> QED
    BY <1>1, <1>2, <1>3, PTL DEF Spec

\* A completed run is over on both cores whatever arrives later, and no run is ended by the
\* stop of another (GraphRunMachine::accept_response, stopped_matches).
THEOREM RunsAreTrue == Spec => []RunIsTrue
  <1>1. Init => RunInv
    BY RunInit DEF Init, RunInv
  <1>2. RunInv /\ [Next]_vars => RunInv'
    <2> SUFFICES ASSUME RunInv, [Next]_vars, service' = "Run"
                 PROVE  RunParts'
      BY DEF RunInv
    <2>1. service = "Run" /\ RunParts
      BY DEF RunInv, Next, vars, Network_, Install_, Run_
    <2>2. CASE Run!Next
      BY <2>1, <2>2, RunStep
    <2>3. CASE UNCHANGED vars
      BY <2>1, <2>3 DEF vars, RunParts, Run!TypeOK, RequestsOfRuns, DeviceOfRuns, ReportsOfRuns,
         Quiet
    <2> QED
      BY <2>1, <2>2, <2>3 DEF Next, Network_, Install_, Run_
  <1>3. RunInv => RunIsTrue
    BY RunPromises DEF RunInv, RunIsTrue
  <1> QED
    BY <1>1, <1>2, <1>3, PTL DEF Spec
=============================================================================

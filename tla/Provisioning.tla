----------------------------- MODULE Provisioning -----------------------------
(***************************************************************************)
(* The network provisioning machine of one connection: status polls and    *)
(* scans, and the mutations join, leave and recover, each bound to a       *)
(* transaction and to the network generation the page last saw.  A         *)
(* mutation whose answer is lost, often because it changes the network the *)
(* answer travels on, is reconciled by status before it is repeated.       *)
(*                                                                         *)
(* The device's network supervisor is external: it observes a mutation     *)
(* once, if its transaction is newer than the last one and its generation  *)
(* is current, answers a repetition with its present status, and refuses   *)
(* everything else.  Another page may mutate the same device, the link may *)
(* fail, the device may restart.                                           *)
(***************************************************************************)
EXTENDS Integers

CONSTANTS
    MaxTxn,     \* bound on transactions
    MaxEvents,  \* bound on losses, garbled answers, link failures, other pages
    MaxBoots    \* bound on device boots

VARIABLES
    state,      \* the machine's State
    nextTxn,    \* next transaction of this page
    latest,     \* latest status accepted, or NoStatus
    bound,      \* boot the machine is bound to
    session,    \* whether the connection has an authenticated session
    request,    \* the live request, or NoRequest
    response,   \* the answer to the live request, or NoResponse
    late,       \* abandoned mutations that may still reach the device
    device,     \* device: its network status
    boot,       \* device: boot
    outcome,    \* device: what became of each transaction
    reported,   \* results this page was told, by transaction
    events      \* losses and other disturbances so far

machineVars == <<state, nextTxn, latest, bound, session, reported>>
wireVars == <<request, response, late>>
deviceVars == <<device, boot, outcome>>
vars == <<machineVars, wireVars, deviceVars, events>>

-----------------------------------------------------------------------------
(* Values.                                                                 *)

Mutations == {"Join", "Leave", "Recover"}
Txns == 1..MaxTxn

\* This page's transactions are even, the other page's odd: two namespaces.
Own == {t \in Txns : t % 2 = 0}

Statuses ==
    [gen : Nat, last : Txns \cup {0}, failed : BOOLEAN,
     link : {"Disconnected", "Associating", "Addressed"}, configured : BOOLEAN]
NoStatus == [gen |-> 0, last |-> 0, failed |-> TRUE,
             link |-> "Addressed", configured |-> FALSE]

\* An intent: only scans and mutations have a transaction, only mutations a
\* generation.
Intents == [op : {"Status", "Scan"} \cup Mutations, txn : Txns \cup {0}, gen : Nat]
StatusIntent == [op |-> "Status", txn |-> 0, gen |-> 0]

States ==
    [phase : {"Idle", "Ready", "Awaiting", "Reconciling"}, intent : Intents,
     reconciliation : BOOLEAN]
Idle == [phase |-> "Idle", intent |-> StatusIntent, reconciliation |-> FALSE]
Ready(intent) == [phase |-> "Ready", intent |-> intent, reconciliation |-> FALSE]
Awaiting(intent, reconciliation) ==
    [phase |-> "Awaiting", intent |-> intent, reconciliation |-> reconciliation]
Reconciling(intent) ==
    [phase |-> "Reconciling", intent |-> intent, reconciliation |-> FALSE]

\* A request carries its intent and the boot it is signed for.
NoRequest == [intent |-> StatusIntent, boot |-> 0]
Request(intent) == [intent |-> intent, boot |-> bound]

\* An answer has an application status and, unless it is a refusal or garbled, a
\* network status; the answer to a scan carries the scanned transaction.
Response(kind, status, txn) == [kind |-> kind, status |-> status, txn |-> txn]
NoResponse == Response("None", NoStatus, 0)

-----------------------------------------------------------------------------
(* Selecting an operation.                                                 *)

\* request_status, by the worker's poll or by a new binding
RequestStatus ==
    /\ state = Idle
    /\ state' = Ready(StatusIntent)
    /\ UNCHANGED <<nextTxn, latest, bound, session, reported, wireVars, deviceVars, events>>

RequestScan ==
    /\ state = Idle
    /\ session
    /\ nextTxn \in Txns
    /\ nextTxn' = nextTxn + 2
    /\ state' = Ready([op |-> "Scan", txn |-> nextTxn, gen |-> 0])
    /\ UNCHANGED <<latest, bound, session, reported, wireVars, deviceVars, events>>

\* request_join, request_leave, request_recover_ap: a status must be known, its
\* generation becomes the expected one.
RequestMutation(op) ==
    /\ state = Idle
    /\ session
    /\ latest # NoStatus
    /\ nextTxn \in Txns
    /\ nextTxn' = nextTxn + 2
    /\ state' = Ready([op |-> op, txn |-> nextTxn, gen |-> latest.gen])
    /\ UNCHANGED <<latest, bound, session, reported, wireVars, deviceVars, events>>

-----------------------------------------------------------------------------
(* The exchange.                                                           *)

\* next_request: a ready intent is sent as it is, an ambiguous one is inspected.
NextRequest ==
    /\ session
    /\ request = NoRequest
    /\ \/ /\ state.phase = "Ready"
          /\ state' = Awaiting(state.intent, FALSE)
          /\ request' = Request(state.intent)
       \/ /\ state.phase = "Reconciling"
          /\ state' = Awaiting(state.intent, TRUE)
          /\ request' = Request(StatusIntent)
    /\ UNCHANGED <<nextTxn, latest, bound, session, reported, response, late, deviceVars,
                   events>>

\* network_failure_status: the result a status tells of the last transaction
Result(status) == IF status.failed THEN "Failed" ELSE "Ok"

\* validate_terminal_outcome; the devices here always expect their access point
\* (AP_EXPECTED), so that test of a success is left out.
TerminalOutcome(intent, status) ==
    \/ status.failed
    \/ intent.op = "Join" /\ status.link = "Addressed" /\ status.configured
    \/ /\ intent.op \in {"Leave", "Recover"}
       /\ status.link = "Disconnected"
       /\ ~ status.configured

\* The state, the latest status and the report that follow an answer.
Step(s, status, result) == [state |-> s, latest |-> status, result |-> result]
Keep(s) == Step(s, latest, "None")

AcceptStatus(r) ==
    CASE r.kind = "Ok"            -> Step(Idle, r.status, "None")
      [] r.kind = "RefusedBody"   -> Keep(Ready(StatusIntent))
      [] OTHER                    -> Keep(Idle)

AcceptScan(intent, r) ==
    IF r.kind = "Refused" \/ (r.kind = "Ok" /\ r.txn = intent.txn)
      THEN Keep(Idle)
      ELSE Keep(Ready(intent))

\* accept_mutation_response
AcceptMutation(intent, r) ==
    IF /\ r.kind \in {"Ok", "Failed"}
       /\ r.status.last = intent.txn
       /\ r.kind = Result(r.status)
       /\ TerminalOutcome(intent, r.status)
      THEN Step(Idle, r.status, r.kind)
      ELSE Keep(Reconciling(intent))

\* Mutation: a status that does not name the transaction supersedes it.
UnobservedNever(intent, status) == FALSE

\* The status proves that the device has not observed the mutation and still
\* would: the exact request may be sent again.
Unobserved(intent, status) ==
    status.last < intent.txn /\ intent.gen = status.gen

AcceptReconciliation(intent, r) ==
    CASE r.kind # "Ok" -> Keep(Reconciling(intent))
      [] r.kind = "Ok" /\ r.status.last = intent.txn ->
           IF TerminalOutcome(intent, r.status)
             THEN Step(Idle, r.status, Result(r.status))
             ELSE Step(Reconciling(intent), r.status, "None")
      [] r.kind = "Ok" /\ r.status.last # intent.txn ->
           IF Unobserved(intent, r.status)
             THEN Step(Ready(intent), r.status, "None")
             ELSE Step(Idle, r.status, "None")          \* Superseded

Accepted(r) ==
    LET intent == state.intent
    IN  CASE state.reconciliation      -> AcceptReconciliation(intent, r)
          [] ~ state.reconciliation /\ intent.op = "Status" -> AcceptStatus(r)
          [] ~ state.reconciliation /\ intent.op = "Scan" -> AcceptScan(intent, r)
          [] OTHER -> AcceptMutation(intent, r)

AcceptResponse ==
    /\ response.kind # "None"
    /\ LET step == Accepted(response)
       IN  /\ state' = step.state
           /\ latest' = step.latest
           /\ reported' = IF step.result = "None" THEN reported
                          ELSE [reported EXCEPT ![state.intent.txn] = step.result]
    /\ request' = NoRequest
    /\ response' = NoResponse
    /\ UNCHANGED <<nextTxn, bound, session, late, deviceVars, events>>

AfterAbandon(intent) ==
    IF intent.op \in Mutations THEN Reconciling(intent) ELSE Ready(intent)

\* abandon_pending: the fetch failed.  The device may have seen the request, or
\* see it later.  A device of another boot refuses it unsigned, which closes the
\* session; a loss may leave it open (network_session_must_reopen).
AbandonPending ==
    /\ request # NoRequest
    /\ IF request.boot = boot
         THEN events < MaxEvents /\ events' = events + 1 /\ session' \in BOOLEAN
         ELSE session' = FALSE /\ UNCHANGED events
    /\ state' = AfterAbandon(state.intent)
    /\ late' = IF request.intent.op \in Mutations THEN late \cup {request} ELSE late
    /\ request' = NoRequest
    /\ response' = NoResponse
    /\ UNCHANGED <<nextTxn, latest, bound, reported, deviceVars>>

\* The connection is authenticated again (bind_network_boot): if the boot is
\* another one, everything bound to the old boot is forgotten.
BindNetworkBoot ==
    /\ ~ session
    /\ session' = TRUE
    /\ bound' = boot
    /\ IF bound # boot
         THEN latest' = NoStatus /\ state' = Ready(StatusIntent)
         ELSE /\ UNCHANGED latest
              /\ state' = IF state = Idle /\ latest = NoStatus
                           THEN Ready(StatusIntent) ELSE state
    /\ UNCHANGED <<nextTxn, reported, wireVars, deviceVars, events>>

-----------------------------------------------------------------------------
(* The device.                                                             *)

\* The device would run this mutation.
Runs(q) ==
    /\ q.boot = boot
    /\ q.intent.txn > device.last
    /\ q.intent.gen = device.gen
    /\ device.link # "Associating"

\* A join runs until the link is up or has failed; the others are over at once.
Run(intent) ==
    /\ device' = [gen |-> device.gen + 1, last |-> intent.txn, failed |-> FALSE,
                  link |-> IF intent.op = "Join" THEN "Associating" ELSE "Disconnected",
                  configured |-> FALSE]
    /\ outcome' = [outcome EXCEPT ![intent.txn] =
                     IF intent.op = "Join" THEN "Joining" ELSE "Ok"]

\* A mutation arrives: the live one or an abandoned one.
Observe(q) ==
    /\ q.intent.op \in Mutations
    /\ Runs(q)
    /\ Run(q.intent)
    /\ UNCHANGED <<machineVars, wireVars, boot, events>>

JoinEnds ==
    /\ device.link = "Associating"
    /\ \E ok \in BOOLEAN :
        /\ device' = [device EXCEPT !.gen = device.gen + 1, !.failed = ~ ok,
                                    !.link = IF ok THEN "Addressed" ELSE "Disconnected",
                                    !.configured = ok]
        /\ outcome' = [outcome EXCEPT ![device.last] = IF ok THEN "Ok" ELSE "Failed"]
    /\ UNCHANGED <<machineVars, wireVars, boot, events>>

\* The live request is answered, a mutation only once it can no longer run.
Answers ==
    LET intent == request.intent
    IN  CASE intent.op = "Status" -> {Response("Ok", device, 0)}
          [] intent.op = "Scan" -> {Response("Ok", NoStatus, intent.txn),
                                    Response("Refused", NoStatus, 0)}
          [] OTHER -> IF intent.txn = device.last
                        THEN {Response(Result(device), device, 0)}
                        ELSE {Response("Refused", NoStatus, 0)}

DeviceAnswers ==
    /\ request # NoRequest
    /\ request.boot = boot
    /\ response = NoResponse
    /\ request.intent.op \in Mutations => ~ Runs(request)
    /\ \/ response' \in Answers /\ UNCHANGED events
       \/ /\ events < MaxEvents
          /\ events' = events + 1
          /\ \E kind \in {"Garbled", "Refused", "RefusedBody"} :
                response' = Response(kind, NoStatus, 0)
    /\ UNCHANGED <<machineVars, request, late, deviceVars>>

\* The station link drops, or another page mutates the network.
Disturbed ==
    /\ events < MaxEvents
    /\ events' = events + 1
    /\ device.link # "Associating"
    /\ \/ /\ device.link = "Addressed"
          /\ device' = [device EXCEPT !.gen = device.gen + 1, !.failed = TRUE,
                                      !.link = "Disconnected"]
          /\ UNCHANGED outcome
       \/ \E t \in Txns \ Own : /\ t > device.last
                                /\ Run([op |-> "Leave", txn |-> t])
    /\ UNCHANGED <<machineVars, wireVars, boot>>

FreshDevice == [gen |-> 1, last |-> 0, failed |-> FALSE,
                link |-> "Disconnected", configured |-> FALSE]

Restart ==
    /\ boot < MaxBoots
    /\ boot' = boot + 1
    /\ device' = FreshDevice
    /\ response' = NoResponse
    /\ UNCHANGED <<machineVars, request, late, outcome, events>>

-----------------------------------------------------------------------------
Init ==
    /\ state = Ready(StatusIntent)
    /\ nextTxn = 2
    /\ latest = NoStatus
    /\ bound = 1
    /\ session = TRUE
    /\ request = NoRequest
    /\ response = NoResponse
    /\ late = {}
    /\ device = FreshDevice
    /\ boot = 1
    /\ outcome = [t \in Txns |-> "Unseen"]
    /\ reported = [t \in Txns |-> "None"]
    /\ events = 0

Exchange == NextRequest \/ AcceptResponse \/ DeviceAnswers

Next ==
    \/ RequestStatus
    \/ RequestScan
    \/ \E op \in Mutations : RequestMutation(op)
    \/ Exchange
    \/ AbandonPending
    \/ BindNetworkBoot
    \/ Observe(request)
    \/ \E q \in late : Observe(q)
    \/ JoinEnds
    \/ Disturbed
    \/ Restart

Spec == Init /\ [][Next]_vars

\* The worker drives a machine that is not idle at every network interval, a
\* fetch ends, and the device goes on with what it has observed.
FairSpec ==
    /\ Spec
    /\ WF_vars(NextRequest) /\ WF_vars(AcceptResponse) /\ WF_vars(DeviceAnswers)
    /\ WF_vars(Observe(request)) /\ WF_vars(JoinEnds)
    /\ WF_vars(request.boot # boot /\ AbandonPending)
    /\ WF_vars(BindNetworkBoot)

-----------------------------------------------------------------------------
(* Properties.                                                             *)

TypeOK ==
    /\ state \in States
    /\ nextTxn \in Nat
    /\ latest \in Statuses
    /\ bound \in 1..MaxBoots
    /\ boot \in 1..MaxBoots
    /\ session \in BOOLEAN
    /\ request.intent \in Intents
    /\ late \subseteq [intent : Intents, boot : 1..MaxBoots]
    /\ device \in Statuses
    /\ outcome \in [Txns -> {"Unseen", "Joining", "Ok", "Failed"}]
    /\ reported \in [Txns -> {"None", "Ok", "Failed"}]
    /\ events \in 0..MaxEvents

\* A mutation reported successful was carried out by the device, to its end
\* (validate_terminal_outcome, directly and after reconciliation).
ReportedIsTrue ==
    \A t \in Own : reported[t] = "Ok" => outcome[t] = "Ok"

\* Once the page has let go of a mutation, reported, superseded or forgotten with
\* its boot, no late copy of its request can still be carried out.
NothingLingers ==
    \A q \in late : Runs(q) => state.phase # "Idle" /\ state.intent = q.intent

\* An operation ends: the answer, the reconciliation or a new boot settles it.
Settles == state.phase # "Idle" ~> state.phase = "Idle"
=============================================================================

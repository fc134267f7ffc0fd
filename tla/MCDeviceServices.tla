--------------------------- MODULE MCDeviceServices ---------------------------
(* The three services of a device that change it by transactions: its network, *)
(* the graph packages it installs and the graph it runs.  Their machines have   *)
(* the same shape, share nothing, and meet the same losses and restarts; a       *)
(* behaviour is one service's, chosen at the start.                             *)
EXTENDS Integers, Sequences, FiniteSets

CONSTANTS
    MaxNetworkTxn, MaxEvents,   \* bounds of Provisioning
    MaxTxn,                     \* bound of GraphInstall
    MaxRun,                     \* bound of GraphRun
    MaxLosses, MaxBoots         \* bounds of all

ASSUME BoundAssumption ==
    /\ MaxNetworkTxn \in Nat /\ MaxEvents \in Nat /\ MaxLosses \in Nat
    /\ MaxTxn \in Nat \ {0} /\ MaxRun \in Nat \ {0} /\ MaxBoots \in Nat \ {0}

VARIABLES
    service,    \* the service of this behaviour
    request, response, late, device, boot, session, losses,
    package, seen,
    run,
    state, nextTxn, latest, bound, reported, outcome, events

Network == INSTANCE Provisioning WITH MaxTxn <- MaxNetworkTxn
Install == INSTANCE GraphInstall WITH machine <- package
Run == INSTANCE GraphRun WITH machine <- run

network == <<state, nextTxn, latest, bound, reported, outcome, events>>
install == <<package, seen>>
vars == <<service, request, response, late, device, boot, session, losses, install, run, network>>

\* What the variables of a service hold in a behaviour of another.
NoNetwork ==
    /\ state = [phase |-> "Idle"] /\ latest = "None" /\ reported = "None" /\ outcome = "None"
    /\ nextTxn = 0 /\ bound = 0 /\ events = 0
NoInstall == package = [phase |-> "Complete"] /\ seen = {}
NoRun == run = [phase |-> "Complete"]

Init ==
    \/ service = "Network" /\ Network!Init /\ losses = 0 /\ NoInstall /\ NoRun
    \/ service = "Install" /\ Install!Init /\ NoNetwork /\ NoRun
    \/ service = "Run" /\ Run!Init /\ NoNetwork /\ NoInstall

Network_(A) == service = "Network" /\ A /\ UNCHANGED <<service, losses, install, run>>
Install_(A) == service = "Install" /\ A /\ UNCHANGED <<service, network, run>>
Run_(A) == service = "Run" /\ A /\ UNCHANGED <<service, network, install>>

Next == Network_(Network!Next) \/ Install_(Install!Next) \/ Run_(Run!Next)

\* The fairness of the three modules, each while its service is the one chosen.
Spec ==
    /\ Init /\ [][Next]_vars
    /\ WF_vars(Network_(Network!NextRequest)) /\ WF_vars(Network_(Network!AcceptResponse))
    /\ WF_vars(Network_(Network!DeviceAnswers)) /\ WF_vars(Network_(Network!Observe(request)))
    /\ WF_vars(Network_(Network!JoinEnds)) /\ WF_vars(Network_(Network!BindNetworkBoot))
    /\ WF_vars(Network_(request.boot # boot /\ Network!AbandonPending))
    /\ WF_vars(Install_(Install!NextRequest)) /\ WF_vars(Install_(Install!AcceptResponse))
    /\ WF_vars(Install_(Install!DeviceAnswers)) /\ WF_vars(Install_(Install!Arrive(request)))
    /\ WF_vars(Install_(Install!Firmware))
    /\ WF_vars(Install_(request.boot # boot /\ Install!AbandonPending))
    /\ WF_vars(Run_(Run!NextRequest)) /\ WF_vars(Run_(Run!AcceptResponse))
    /\ WF_vars(Run_(Run!DeviceAnswers)) /\ WF_vars(Run_(Run!Arrive(request)))
    /\ WF_vars(Run_(request.boot # boot /\ Run!AbandonPending))
    /\ \A a \in Run!Actors : WF_vars(Run_(Run!ActorStarts(a))) /\ WF_vars(Run_(Run!ActorStops(a)))
    /\ WF_vars(Run_(Run!CoordinatorRuns)) /\ WF_vars(Run_(Run!CoordinatorStops))

\* A network mutation reported successful was carried out, and none that the page has let
\* go of can still be.
NetworkIsTrue ==
    service = "Network" => Network!TypeOK /\ Network!ReportedIsTrue /\ Network!NothingLingers

\* An installation ends as the report of its own package says, and a package becomes active
\* only if its own machine asked for it.
InstallIsTrue ==
    service = "Install" =>
        /\ Install!TypeOK /\ Install!CompleteIsActive
        /\ Install!RejectedIsTrue /\ Install!ActivatedWhenAsked

\* A completed run is over on both cores, and no run is ended by the stop of another.
RunIsTrue ==
    service = "Run" => Run!TypeOK /\ Run!CompleteIsQuiescent /\ Run!StoppedByOwnMachine

\* A network operation, an installation and a stop of a run end, unless the device restarts.
TransactionsEnd == Network!Settles /\ Install!InstallEnds /\ Run!StopEnds

\* Refuted (MCGraphRunFault.cfg).  The documentation of drive_graph_run_step: execution
\* faults select the stop automatically.
RunFaultSelectsStop ==
    (service = "Run" /\ device.phase = "ExecutionFaulted" /\ device.run = run.run)
        ~> run.phase \in {"Stopping", "AwaitingStopped", "Complete"} \/ run.boot # boot
=============================================================================

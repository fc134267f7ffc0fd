--------------------------- MODULE MCDeviceDocuments ---------------------------
(* The three kinds of documents the worker reads from a device and the page     *)
(* shows: its capability with visual assets, waveform captures and telemetry.   *)
(* They share nothing but the messages to the page and meet the same losses and *)
(* restarts; a behaviour is one service's, chosen at the start.                 *)
EXTENDS Integers, Sequences

CONSTANTS
    MaxShown, MaxEvents, MaxReloads,                        \* TelemetrySubscription
    Chunks, BurstOps, MaxCapture, MaxFaults, MaxLost,       \* WaveformCapture
    Firmwares, CapabilityRanges, Visuals, AssetRanges,      \* DocumentDownload
    RangesPerHeartbeat, MaxAsset, MaxTotal, MaxTransfers,
    MaxLosses, MaxGlitches, MaxBoots, MaxQueue              \* several

ASSUME BoundAssumption ==
    /\ MaxShown \in Nat \ {0} /\ MaxEvents \in Nat /\ MaxReloads \in Nat
    /\ Chunks \in Nat \ {0} /\ BurstOps \in Nat \ {0} /\ MaxCapture \in Nat
    /\ MaxFaults \in Nat /\ MaxLost \in Nat /\ MaxLosses \in Nat /\ MaxGlitches \in Nat
    /\ MaxBoots \in Nat \ {0} /\ MaxQueue \in Nat

\* A capability and an asset have a range at least, and a capability declares assets there
\* are; 0 stands for none.
ASSUME DocumentAssumption ==
    /\ Firmwares \subseteq Nat \ {0}
    /\ \A f \in Firmwares :
         CapabilityRanges[f] \in Nat \ {0} /\ Visuals[f] \in Seq(DOMAIN AssetRanges \ {0})
    /\ \A a \in DOMAIN AssetRanges : AssetRanges[a] \in Nat \ {0}
    /\ RangesPerHeartbeat \in Nat \ {0} /\ MaxTransfers \in Nat
    /\ MaxAsset \in Nat /\ MaxTotal \in Nat

VARIABLES
    service,    \* the service of this behaviour
    request, response, late, session, posted, boot, losses, glitches,
    machine, event, step, page, device, reloads,
    capture, want, published, captures, burst, record, acquisition, faults,
    state, exchange, documents, firmware

\* Two firmware builds.  The first declares an asset twice and fills the bound on all
\* assets exactly; the last asset of the second no longer fits.
BuildCapabilityRanges == <<2, 1>>
BuildVisuals == <<<<1, 2, 1, 3>>, <<3, 2, 1>>>>
BuildAssetRanges == <<2, 1, 1>>

\* MCVisualLast.cfg: the asset that is declared last has two ranges.
LongLastRanges == <<1, 1, 2>>

Telemetry == INSTANCE TelemetrySubscription
Waveform == INSTANCE WaveformCapture
    WITH machine <- capture, page <- record, device <- acquisition, MaxLosses <- MaxLost
Document == INSTANCE DocumentDownload
    WITH Ranges <- AssetRanges, BurstOps <- RangesPerHeartbeat, MaxQueue <- MaxTransfers,
         step <- exchange, page <- documents

wire == <<request, response, late, session>>
telemetry == <<machine, event, step, page, device, reloads>>
waveform == <<capture, want, published, captures, burst, record, acquisition, faults>>
document == <<state, exchange, documents, firmware>>
vars == <<service, wire, posted, boot, losses, glitches, telemetry, waveform, document>>

\* What the variables of a service hold in a behaviour of another.
NoTelemetry ==
    /\ machine = [phase |-> "Active"] /\ device = [sub |-> TRUE, retained |-> 0, next |-> 0]
    /\ page = [shown |-> <<>>] /\ event = 0 /\ step = "None" /\ reloads = -1
NoWaveform ==
    /\ capture = [capture |-> 0, phase |-> "None"] /\ acquisition = [phase |-> "None"]
    /\ want = FALSE /\ published = FALSE /\ captures = 0 /\ burst = 0 /\ record = 0 /\ faults = 0
NoDocuments ==
    /\ state = [capability |-> [right |-> FALSE]] /\ documents = [capability |-> 0, visuals |-> {}]
    /\ exchange = 0 /\ firmware = 1
NoWire == request = 0 /\ response = 0 /\ late = {} /\ session = 0

Init ==
    \/ service = "Telemetry" /\ Telemetry!Init /\ glitches = 0 /\ NoWaveform /\ NoDocuments
    \/ service = "Waveform" /\ Waveform!Init /\ NoTelemetry /\ NoDocuments
    \/ service = "Document" /\ Document!Init /\ NoWire /\ NoTelemetry /\ NoWaveform

Telemetry_(A) == service = "Telemetry" /\ A /\ UNCHANGED <<service, glitches, waveform, document>>
Waveform_(A) == service = "Waveform" /\ A /\ UNCHANGED <<service, telemetry, document>>
Document_(A) == service = "Document" /\ A /\ UNCHANGED <<service, wire, telemetry, waveform>>

Next == Telemetry_(Telemetry!Next) \/ Waveform_(Waveform!Next) \/ Document_(Document!Next)

\* The fairness of the three modules, each while its service is the one chosen.
Spec ==
    /\ Init /\ [][Next]_vars
    /\ WF_vars(Telemetry_(Telemetry!Drive)) /\ WF_vars(Telemetry_(Telemetry!AcceptResponse))
    /\ WF_vars(Telemetry_(Telemetry!FinishStep)) /\ WF_vars(Telemetry_(Telemetry!BootChanged))
    /\ WF_vars(Telemetry_(Telemetry!AbandonPending /\ request.boot # boot))
    /\ WF_vars(Telemetry_(Telemetry!PageReceives)) /\ WF_vars(Telemetry_(Telemetry!ArriveLive))
    /\ WF_vars(Telemetry_(Telemetry!DeviceAnswers))
    /\ WF_vars(Waveform_(Waveform!BeginBurst)) /\ WF_vars(Waveform_(Waveform!BootChanged))
    /\ WF_vars(Waveform_(Waveform!Drive)) /\ WF_vars(Waveform_(Waveform!AcceptResponse))
    /\ WF_vars(Waveform_(Waveform!FinishStep)) /\ WF_vars(Waveform_(Waveform!PageReceives))
    /\ WF_vars(Waveform_(request.boot # boot /\ Waveform!AbandonPending))
    /\ WF_vars(Waveform_(Waveform!Arrive(request))) /\ WF_vars(Waveform_(Waveform!DeviceAnswers))
    /\ WF_vars(Waveform_(Waveform!AcquisitionEnds))
    /\ WF_vars(Document_(Document!Connect)) /\ WF_vars(Document_(Document!Probe))
    /\ WF_vars(Document_(Document!Answered)) /\ WF_vars(Document_(Document!FinishStep))
    /\ WF_vars(Document_(Document!PageReceives))

\* No event is lost without the device's loss count saying so, and what the worker
\* acknowledges the page shows.
TelemetryIsTrue ==
    service = "Telemetry" =>
        Telemetry!TypeOK /\ Telemetry!NoSilentLoss /\ Telemetry!AcknowledgedIsShown

\* A record shown is exact and posted once, and a capture gives way to the next only when
\* the device has released it.
WaveformIsTrue ==
    service = "Waveform" =>
        /\ Waveform!TypeOK /\ Waveform!ShownIsExact
        /\ Waveform!PostedOnce /\ Waveform!ReleasedFirst

\* What the page shows is of one capability, whole and right, and at rest all that is
\* complete; an honest device's snapshots are never rejected.
DocumentIsTrue ==
    service = "Document" =>
        /\ Document!TypeOK /\ Document!ShownBelongs /\ Document!CompleteIsRight
        /\ Document!EverySnapshotIsValid /\ Document!ShownAtRest

\* After the last restart the page catches up with telemetry, a capture completes, and the
\* capability and every visual that fits, but perhaps the last, are shown.
DocumentsArrive ==
    /\ Telemetry!Subscribes /\ Telemetry!LatestShown
    /\ Waveform!CaptureEnds /\ Document!AllShown

\* Refuted (MCVisualLast.cfg).
EachVisualShown == Document!EachShown

\* Refuted (MCWaveformRelease.cfg).
WaveformStopEnds == Waveform!StopEnds

\* Refuted (MCWaveformRepeat.cfg).
WaveformPostedIsShown == Waveform!PostedIsShown
=============================================================================

---------------------------- MODULE WaveformCapture ----------------------------
(***************************************************************************)
(* A waveform capture from the request of a page to the display of its     *)
(* record: the machine that configures, arms, polls, downloads and releases *)
(* one capture, the worker that drives it in bursts after a heartbeat and  *)
(* replaces a completed capture by the next, the messages it posts to the  *)
(* page, and the page's check of a record against its last snapshot.       *)
(*                                                                         *)
(* The firmware is external: it keeps one capture until it is stopped, then *)
(* remembers its identity until another is configured.  A capture's record  *)
(* is a sequence of Chunks ranges; a device may answer a range wrongly.     *)
(***************************************************************************)
EXTENDS Integers, Sequences

CONSTANTS
    Chunks,      \* ranges of a record
    BurstOps,    \* operations driven after one heartbeat
    MaxCapture,  \* bound on captures
    MaxLosses,   \* bound on lost exchanges
    MaxGlitches, \* bound on wrong ranges
    MaxFaults,   \* bound on acquisitions that fault
    MaxBoots,    \* bound on device boots
    MaxQueue     \* bound on messages the page has not taken

VARIABLES
    machine,    \* WaveformCaptureMachine of the connection
    want,       \* pending_waveform_request: another capture is asked for
    published,  \* waveform_event_published
    captures,   \* capture identities given so far
    burst,      \* operations left in the running step, Idle when none runs
    request,    \* the request on its way, or NoRequest
    response,   \* its answer, or NoResponse
    late,       \* abandoned requests that may still reach the device
    session,    \* the boot the connection's session signs for
    posted,     \* messages posted to the page, oldest first
    page,       \* the page's last snapshot, the record it shows, records received
    device,     \* the capture the firmware holds
    boot,       \* the device's boot
    losses, glitches, faults    \* disturbances so far

worker == <<machine, want, published, captures, burst, session>>
wire == <<request, response, late>>
env == <<device, boot, losses, glitches, faults>>
vars == <<worker, wire, posted, page, env>>

-----------------------------------------------------------------------------
(* Values.                                                                 *)

Captures == 0..MaxCapture       \* 0 stands for none
Idle == -1

Phases == {"None", "Configuring", "ReconcilingConfigure", "Configured", "Arming",
           "ReconcilingArm", "Armed", "Downloading", "Complete", "Stopping",
           "ReconcilingStop", "Stopped"}
Actions == {"None", "Configure", "PollConfigure", "Arm", "PollArm", "PollComplete", "Read",
            "Stop", "PollStop"}

\* A range of a record: its capture and place; place 0 is a wrong one.
Ranges == [capture : Captures, place : 0..Chunks]
RecordOf(capture) == [i \in 1..Chunks |-> [capture |-> capture, place |-> i]]

NewMachine(capture) ==
    [capture |-> capture, phase |-> "Configuring", pending |-> "None", record |-> <<>>]
NoMachine == [capture |-> 0, phase |-> "None", pending |-> "None", record |-> <<>>]

NoRequest == [op |-> "None", capture |-> 0, offset |-> 0, boot |-> 1]
NoRange == [capture |-> 0, place |-> 0]
Response(status, phase, range) == [status |-> status, phase |-> phase, range |-> range]
NoResponse == Response("None", "None", NoRange)

Snapshot(capture) == [kind |-> "Snapshot", capture |-> capture, record |-> <<>>]
Document(capture, record) == [kind |-> "Document", capture |-> capture, record |-> record]

-----------------------------------------------------------------------------
(* WaveformCaptureMachine.                                                 *)

NextAction ==
    CASE machine.phase = "Configuring"          -> "Configure"
      [] machine.phase = "ReconcilingConfigure" -> "PollConfigure"
      [] machine.phase = "Arming"               -> "Arm"
      [] machine.phase = "ReconcilingArm"       -> "PollArm"
      [] machine.phase = "Armed"                -> "PollComplete"
      [] machine.phase = "Downloading"          -> "Read"
      [] machine.phase = "Stopping"             -> "Stop"
      [] machine.phase = "ReconcilingStop"      -> "PollStop"
      [] OTHER                                  -> "None"

RequestOf(action) ==
    [op |-> IF action \in {"Configure", "Arm", "Stop", "Read"} THEN action ELSE "Status",
     capture |-> machine.capture,
     offset |-> IF action = "Read" THEN Len(machine.record) ELSE 0,
     boot |-> session]

\* The phase a status answer leads to; "Error" leaves the phase as it is.
StatusPhase(r) ==
    IF machine.pending = "PollConfigure" /\ r.status = "NotFound" THEN "Configuring"
    ELSE IF machine.pending = "PollStop" /\ r.status = "NotFound" THEN "Stopped"
    ELSE IF r.status # "Ok" THEN "Error"
    ELSE IF machine.pending \in {"Configure", "PollConfigure"}
      THEN IF r.phase = "Configured" THEN "Configured" ELSE "Error"
    ELSE IF machine.pending \in {"Stop", "PollStop"}
      THEN IF r.phase = "Stopped" THEN "Stopped" ELSE "Error"
    ELSE IF r.phase = "Armed" THEN "Armed"
    ELSE IF r.phase = "Complete" THEN "Downloading"
    ELSE IF r.phase = "Configured" /\ machine.phase = "ReconcilingArm" THEN "Arming"
    ELSE "Error"

\* Mutation: a record that fails validation is kept.
RecordAfterKept(record) == record

\* accept_range: a record that fails its final validation is downloaded again.
RangePhase(record) == IF record = RecordOf(machine.capture) THEN "Complete" ELSE "Downloading"
RecordAfter(record) ==
    IF Len(record) = Chunks /\ RangePhase(record) # "Complete" THEN <<>> ELSE record

Failed(r) ==
    IF machine.pending = "Read"
      THEN r.status # "Ok" \/ RecordAfter(Append(machine.record, r.range)) = <<>>
      ELSE StatusPhase(r) = "Error"

Accepted(r) ==
    LET record == Append(machine.record, r.range)
    IN  IF machine.pending = "Read" /\ r.status = "Ok"
          THEN [machine EXCEPT !.pending = "None", !.phase = RangePhase(record),
                               !.record = RecordAfter(record)]
        ELSE IF machine.pending = "Read" \/ StatusPhase(r) = "Error"
          THEN [machine EXCEPT !.pending = "None"]
        ELSE [machine EXCEPT !.pending = "None", !.phase = StatusPhase(r), !.record = <<>>]

\* Mutation: a lost stop is taken for done.
AfterAbandonDone(action) ==
    CASE action \in {"Configure", "PollConfigure"} -> "ReconcilingConfigure"
      [] action \in {"Arm", "PollArm"}             -> "ReconcilingArm"
      [] action \in {"Stop", "PollStop"}           -> "Stopped"
      [] OTHER                                     -> machine.phase

AfterAbandon(action) ==
    CASE action \in {"Configure", "PollConfigure"} -> "ReconcilingConfigure"
      [] action \in {"Arm", "PollArm"}             -> "ReconcilingArm"
      [] action \in {"Stop", "PollStop"}           -> "ReconcilingStop"
      [] OTHER                                     -> machine.phase

-----------------------------------------------------------------------------
(* The worker.                                                             *)

\* install_pending_waveform: a released capture gives way to the one asked for.
Installs(m) == m.phase = "Stopped" /\ want /\ captures < MaxCapture

InstallPending(m) ==
    /\ machine' = IF Installs(m) THEN NewMachine(captures + 1) ELSE m
    /\ want' = (want /\ ~ Installs(m))
    /\ captures' = IF Installs(m) THEN captures + 1 ELSE captures
    /\ published' = (published /\ ~ Installs(m))

\* request_waveform, and the snapshot that follows it: a first capture, or the
\* release of a completed one.  Any other phase refuses the request.
RequestCapture ==
    /\ burst = Idle
    /\ session = boot
    /\ Len(posted) < MaxQueue
    /\ captures < MaxCapture
    /\ \/ /\ machine.phase \in {"None", "Stopped"}
          /\ machine' = NewMachine(captures + 1)
          /\ captures' = captures + 1
          /\ want' = FALSE
          /\ published' = FALSE
       \/ /\ machine.phase = "Complete"
          /\ machine' = [machine EXCEPT !.phase = "Stopping"]
          /\ want' = TRUE
          /\ UNCHANGED <<captures, published>>
    /\ posted' = Append(posted, Snapshot(machine'.capture))
    /\ UNCHANGED <<burst, session, wire, page, env>>

\* probe_device: a heartbeat that succeeded is followed by a burst.
BeginBurst ==
    /\ burst = Idle
    /\ session = boot
    /\ machine # NoMachine
    /\ Len(posted) + 1 < MaxQueue
    /\ burst' = BurstOps
    /\ UNCHANGED <<machine, want, published, captures, session, wire, posted, page, env>>

\* A heartbeat that finds another boot drops the capture and the request for the
\* next (reset_waveform_for_new_boot).
BootChanged ==
    /\ burst = Idle
    /\ session # boot
    /\ Len(posted) < MaxQueue
    /\ session' = boot
    /\ machine' = NoMachine
    /\ want' = FALSE
    /\ published' = FALSE
    /\ posted' = Append(posted, Snapshot(0))
    /\ UNCHANGED <<captures, burst, wire, page, env>>

Arms(m) == IF m.phase = "Configured" THEN [m EXCEPT !.phase = "Arming"] ELSE m

\* drive_waveform_burst: one turn of its loop sends a request or ends the burst.
Drive ==
    /\ burst > 0
    /\ request = NoRequest
    /\ IF machine.phase \in {"Complete", "Stopped"} /\ ~ Installs(machine)
         THEN burst' = 0 /\ UNCHANGED <<machine, want, published, captures, request>>
         ELSE IF Installs(machine) \/ machine.phase = "Configured"
           THEN /\ InstallPending(Arms(machine))
                /\ UNCHANGED <<burst, request>>
           ELSE /\ machine' = [machine EXCEPT !.pending = NextAction]
                /\ request' = RequestOf(NextAction)
                /\ UNCHANGED <<burst, want, published, captures>>
    /\ UNCHANGED <<session, response, late, posted, page, env>>

AcceptResponse ==
    /\ response # NoResponse
    /\ burst' = IF Failed(response)
                   \/ (machine.phase = "Armed" /\ Accepted(response).phase = "Armed")
                  THEN 0 ELSE burst - 1
    /\ IF Failed(response)
         THEN machine' = Accepted(response) /\ UNCHANGED <<want, published, captures>>
         ELSE InstallPending(Accepted(response))
    /\ request' = NoRequest
    /\ response' = NoResponse
    /\ UNCHANGED <<session, late, posted, page, env>>

\* abandon_pending, after a fetch that failed; a device of another boot leaves no
\* choice.
AbandonPending ==
    /\ request # NoRequest
    /\ IF request.boot = boot
         THEN losses < MaxLosses /\ losses' = losses + 1
         ELSE UNCHANGED losses
    /\ machine' = [machine EXCEPT !.pending = "None", !.phase = AfterAbandon(machine.pending)]
    /\ late' = IF request.op \in {"Configure", "Arm", "Stop"} THEN late \cup {request} ELSE late
    /\ request' = NoRequest
    /\ response' = NoResponse
    /\ burst' = 0
    /\ UNCHANGED <<want, published, captures, session, posted, page, device, boot, glitches,
                   faults>>

Due == machine.phase = "Complete" /\ ~ published

\* finish_device_step: the record of a completed capture is posted once, before the
\* snapshot.
FinishStep ==
    /\ burst = 0
    /\ burst' = Idle
    /\ published' = (published \/ Due)
    /\ posted' = posted \o (IF Due THEN <<Document(machine.capture, machine.record)>> ELSE <<>>)
                        \o <<Snapshot(machine.capture)>>
    /\ UNCHANGED <<machine, want, captures, session, wire, page, env>>

-----------------------------------------------------------------------------
(* The page.                                                               *)

\* Mutation: a record is shown whatever the last snapshot said.
AdmitsAny(message) == TRUE

\* validate_waveform_transfer
Admits(message) == page.snapshot = message.capture

\* apply_snapshot and apply_waveform_transfer
PageReceives ==
    /\ posted # <<>>
    /\ posted' = Tail(posted)
    /\ LET message == Head(posted)
       IN  page' = IF message.kind = "Document"
                     THEN [page EXCEPT !.received = Append(@, message.capture),
                                       !.shown = IF Admits(message) THEN message.record ELSE @]
                     ELSE [page EXCEPT !.snapshot = message.capture,
                                       !.shown = IF @ # <<>> /\ @[1].capture # message.capture
                                                   THEN <<>> ELSE @]
    /\ UNCHANGED <<worker, wire, env>>

-----------------------------------------------------------------------------
(* The device.                                                             *)

NoCapture == [capture |-> 0, phase |-> "None"]

Effect(q) ==
    CASE q.op = "Configure" /\ q.capture > device.capture
           /\ device.phase \in {"None", "Stopped"}            -> "Configured"
      [] q.op = "Arm" /\ q.capture = device.capture
           /\ device.phase = "Configured"                     -> "Armed"
      [] q.op = "Stop" /\ q.capture = device.capture
           /\ device.phase \notin {"None", "Stopped"}         -> "Stopped"
      [] OTHER                                                -> "None"

\* A mutation takes effect when it arrives, the live one or a late one.
Arrive(q) ==
    /\ q.boot = boot
    /\ Effect(q) # "None"
    /\ device' = [capture |-> q.capture, phase |-> Effect(q)]
    /\ UNCHANGED <<worker, wire, posted, page, boot, losses, glitches, faults>>

Answers(q) ==
    IF q.capture # device.capture
      THEN {Response(IF q.op = "Configure" THEN "Refused" ELSE "NotFound", "None", NoRange)}
      ELSE IF q.op # "Read"
        THEN {Response("Ok", device.phase, NoRange)}
        ELSE IF device.phase # "Complete"
          THEN {Response("Refused", "None", NoRange)}
          ELSE {Response("Ok", "None", [capture |-> q.capture, place |-> p]) :
                  p \in {q.offset + 1} \cup (IF glitches < MaxGlitches THEN {0} ELSE {})}

DeviceAnswers ==
    /\ request # NoRequest
    /\ request.boot = boot
    /\ response = NoResponse
    /\ Effect(request) = "None"
    /\ response' \in Answers(request)
    /\ glitches' = IF request.op = "Read" /\ response'.status = "Ok" /\ response'.range.place = 0
                     THEN glitches + 1 ELSE glitches
    /\ UNCHANGED <<worker, request, late, posted, page, device, boot, losses, faults>>

AcquisitionEnds ==
    /\ device.phase = "Armed"
    /\ \/ device' = [device EXCEPT !.phase = "Complete"] /\ UNCHANGED faults
       \/ /\ faults < MaxFaults
          /\ faults' = faults + 1
          /\ device' = [device EXCEPT !.phase = "Faulted"]
    /\ UNCHANGED <<worker, wire, posted, page, boot, losses, glitches>>

Restart ==
    /\ boot < MaxBoots
    /\ boot' = boot + 1
    /\ device' = NoCapture
    /\ response' = NoResponse
    /\ UNCHANGED <<worker, request, late, posted, page, losses, glitches, faults>>

-----------------------------------------------------------------------------
Init ==
    /\ machine = NoMachine
    /\ want = FALSE /\ published = FALSE /\ captures = 0 /\ burst = Idle
    /\ request = NoRequest /\ response = NoResponse /\ late = {}
    /\ session = 1 /\ boot = 1
    /\ posted = <<>>
    /\ page = [snapshot |-> 0, shown |-> <<>>, received |-> <<>>]
    /\ device = NoCapture
    /\ losses = 0 /\ glitches = 0 /\ faults = 0

Next ==
    \/ RequestCapture
    \/ BeginBurst
    \/ BootChanged
    \/ Drive
    \/ AcceptResponse
    \/ AbandonPending
    \/ FinishStep
    \/ PageReceives
    \/ \E q \in late \cup {request} : Arrive(q)
    \/ DeviceAnswers
    \/ AcquisitionEnds
    \/ Restart

Spec == Init /\ [][Next]_vars

\* The worker's timer goes on, fetches end, the page takes its messages, and an
\* acquisition ends.  Nobody has to ask for a capture.
FairSpec ==
    /\ Spec
    /\ WF_vars(BeginBurst) /\ WF_vars(BootChanged) /\ WF_vars(Drive)
    /\ WF_vars(AcceptResponse) /\ WF_vars(FinishStep) /\ WF_vars(PageReceives)
    /\ WF_vars(request.boot # boot /\ AbandonPending)
    /\ WF_vars(Arrive(request)) /\ WF_vars(DeviceAnswers) /\ WF_vars(AcquisitionEnds)

-----------------------------------------------------------------------------
(* Properties.                                                             *)

TypeOK ==
    /\ machine \in [capture : Captures, phase : Phases, pending : Actions,
                    record : UNION {[1..n -> Ranges] : n \in 0..Chunks}]
    /\ want \in BOOLEAN /\ published \in BOOLEAN /\ captures \in Captures
    /\ burst \in Idle..BurstOps
    /\ request.op \in {"None", "Configure", "Arm", "Stop", "Read", "Status"}
    /\ response.status \in {"None", "Ok", "NotFound", "Refused"}
    /\ Len(posted) <= MaxQueue
    /\ session \in 1..MaxBoots
    /\ device.capture \in Captures
    /\ (machine.pending = "None") <=> (request = NoRequest)

\* A record that the page shows is the whole record of the capture its last snapshot
\* names, whatever ranges were lost, wrong or downloaded again (accept_range,
\* validate_waveform_transfer).
ShownIsExact == page.shown # <<>> => page.shown = RecordOf(page.snapshot)

\* A capture's record is posted at most once (waveform_event_published).
PostedOnce ==
    \A i, j \in DOMAIN page.received :
        page.received[i] = page.received[j] => i = j

\* A capture gives way to the next only when the device has released it
\* (request_waveform, install_pending_waveform).
ReleasedFirst ==
    session = boot /\ device.capture # 0 /\ machine.capture > device.capture
        => device.phase = "Stopped"

\* A capture that is not being released completes, unless the acquisition faults or
\* the device restarts, whatever was lost on the way.
CaptureEnds ==
    \A c \in 1..MaxCapture :
        (machine.capture = c /\ machine.phase \notin {"Stopping", "ReconcilingStop", "Stopped"})
            ~> \/ machine.capture # c \/ machine.phase = "Complete"
               \/ device.phase = "Faulted" \/ session # boot

\* Refuted (MCWaveformRelease.cfg).  As the documentation has it, a capture that is to be
\* released is released.
StopEnds ==
    \A c \in 1..MaxCapture :
        (machine.capture = c /\ machine.phase = "Stopping")
            ~> (machine.capture # c \/ machine.phase = "Stopped" \/ session # boot)

\* Refuted (MCWaveformRepeat.cfg).  As the documentation has it, a repeated capture is
\* shown like the first.
PostedIsShown ==
    \A c \in 1..MaxCapture :
        (machine.capture = c /\ published)
            ~> \/ machine.capture # c \/ session # boot \/ machine.phase # "Complete"
               \/ page.shown # <<>> /\ page.shown[1].capture = c
=============================================================================

------------------------- MODULE TelemetrySubscription -------------------------
(***************************************************************************)
(* Live telemetry of one connection: the machine that subscribes, asks for *)
(* events and acknowledges them by the next request, the worker that drives *)
(* one operation after each heartbeat and posts what it accepted, and the   *)
(* page that keeps the last events.                                        *)
(*                                                                         *)
(* The firmware is external: it keeps its latest event until that sequence *)
(* is acknowledged, counts the events it replaced, and knows a page that is *)
(* loaded again by the same subscription.  An event is its sequence and the *)
(* count of replaced events it reports.                                    *)
(***************************************************************************)
EXTENDS Integers, Sequences, SequencesExt

CONSTANTS
    MaxShown,    \* MAXIMUM_CLOCK_HISTORY, the events a page keeps
    MaxEvents,   \* bound on the events of a boot
    MaxLosses,   \* bound on exchanges that fail
    MaxReloads,  \* bound on reloads of the page
    MaxBoots,    \* bound on device boots
    MaxQueue     \* bound on messages the page has not taken

VARIABLES
    machine,   \* TelemetrySubscriptionMachine of the connection
    event,     \* pending_telemetry_event
    step,      \* whether a step runs and has an operation to drive
    session,   \* the boot the connection's session signs for
    request,   \* the request on its way, or NoRequest
    response,  \* its answer, or NoResponse
    late,      \* abandoned requests that may still reach the device
    posted,    \* messages posted to the page, oldest first
    page,      \* the page's last snapshot and the events it shows
    device,    \* the subscription and the retained event
    boot,      \* the device's boot
    losses, reloads    \* disturbances so far

worker == <<machine, event, step, session>>
wire == <<request, response, late>>
env == <<device, boot, losses, reloads>>
vars == <<worker, wire, posted, page, env>>

-----------------------------------------------------------------------------
(* Values.                                                                 *)

Event(b, seq, dropped) == [boot |-> b, seq |-> seq, dropped |-> dropped]
NoEvent == Event(0, 0, 0)

NoMachine == [boot |-> 0, phase |-> "None", pending |-> "None", progress |-> NoEvent]
NewMachine(b) == [NoMachine EXCEPT !.boot = b, !.phase = "Subscribing"]

Request(op, ack) == [op |-> op, ack |-> ack, boot |-> session]
NoRequest == [op |-> "None", ack |-> 0, boot |-> 0]

Response(status, e) == [status |-> status, event |-> e]
NoResponse == Response("None", NoEvent)

\* What a snapshot says of the subscription.
Snapshot(m) == [kind |-> "Snapshot", active |-> m.phase = "Active", event |-> m.progress,
                boot |-> m.boot]
Document(e) == [kind |-> "Document", active |-> FALSE, event |-> e, boot |-> e.boot]

-----------------------------------------------------------------------------
(* TelemetrySubscriptionMachine.                                           *)

NextAction(m) ==
    CASE m.phase = "Subscribing"          -> "Subscribe"
      [] m.phase = "ReconcilingSubscribe" -> "PollSubscribe"
      [] m.phase = "Active"               -> "PollEvent"

\* Only an event that was validated is acknowledged.
Acked(m) == m.progress.seq

RequestOf(m) ==
    CASE NextAction(m) = "Subscribe"     -> Request("Subscribe", 0)
      [] NextAction(m) = "PollSubscribe" -> Request("Status", 0)
      [] NextAction(m) = "PollEvent"     -> Request("Poll", Acked(m))

\* accept_event: the retained event again, or one that is later.
Advances(m, e) == e.seq > m.progress.seq /\ e.dropped >= m.progress.dropped

\* accept_response and accept_event_response
PhaseAfter(m, r) ==
    IF m.pending = "PollSubscribe" /\ r.status = "NotFound" THEN "Subscribing"
    ELSE IF m.pending \in {"Subscribe", "PollSubscribe"} /\ r.status = "Ok" THEN "Active"
    ELSE m.phase

Accepted(m, r) ==
    [m EXCEPT !.pending = "None", !.phase = PhaseAfter(m, r),
              !.progress = IF m.pending = "PollEvent" /\ Advances(m, r.event)
                             THEN r.event ELSE @]

\* Mutation: a poll whose answer was lost counts as the event it asked for.
AfterAbandonCounts(m) ==
    [m EXCEPT !.pending = "None",
              !.phase = IF m.pending = "PollEvent" THEN "Active" ELSE "ReconcilingSubscribe",
              !.progress.seq = IF m.pending = "PollEvent" THEN @ + 1 ELSE @]

AfterAbandon(m) ==
    [m EXCEPT !.pending = "None",
              !.phase = IF m.pending = "PollEvent" THEN "Active" ELSE "ReconcilingSubscribe"]

-----------------------------------------------------------------------------
(* The worker.                                                             *)

\* start_telemetry and drive_telemetry_step, after a heartbeat that succeeded.
Drive ==
    /\ step = "Idle"
    /\ session = boot
    /\ LET m == IF machine = NoMachine THEN NewMachine(session) ELSE machine
       IN  /\ machine' = [m EXCEPT !.pending = NextAction(m)]
           /\ request' = RequestOf(m)
    /\ step' = "Driving"
    /\ UNCHANGED <<event, session, response, late, posted, page, env>>

\* The answer is accepted; an event that advances is to be published.
AcceptResponse ==
    /\ response # NoResponse
    /\ machine' = Accepted(machine, response)
    /\ event' = IF machine'.progress # machine.progress THEN machine'.progress ELSE event
    /\ step' = "Finishing"
    /\ request' = NoRequest
    /\ response' = NoResponse
    /\ UNCHANGED <<session, late, posted, page, env>>

\* The fetch failed; a device of another boot refuses the session.
AbandonPending ==
    /\ request # NoRequest
    /\ IF request.boot = boot
         THEN losses < MaxLosses /\ losses' = losses + 1
         ELSE UNCHANGED losses
    /\ machine' = AfterAbandon(machine)
    /\ step' = "Finishing"
    /\ late' = late \cup {request}
    /\ request' = NoRequest
    /\ response' = NoResponse
    /\ UNCHANGED <<event, session, posted, page, device, boot, reloads>>

\* A heartbeat that finds another boot forgets the subscription.
BootChanged ==
    /\ step = "Idle"
    /\ session # boot
    /\ session' = boot
    /\ machine' = NoMachine
    /\ event' = NoEvent
    /\ step' = "Finishing"
    /\ UNCHANGED <<wire, posted, page, env>>

Posts(documents) == documents \o <<Snapshot(machine)>>

\* finish_device_step: the event, then the snapshot.
FinishStep ==
    /\ step = "Finishing"
    /\ Len(posted) + 2 <= MaxQueue
    /\ posted' = posted \o Posts(IF event # NoEvent /\ machine # NoMachine
                                   THEN <<Document(event)>> ELSE <<>>)
    /\ event' = NoEvent
    /\ step' = "Idle"
    /\ UNCHANGED <<machine, session, wire, page, env>>

-----------------------------------------------------------------------------
(* The page.                                                               *)

\* validate_telemetry_transfer, and the order apply_telemetry_transfer asks for; that the
\* snapshots' cycles are a minimum period apart, which honest devices keep, is left out.
Admits(e) ==
    /\ page.snapshot.active
    /\ page.snapshot.boot = e.boot
    /\ e.seq > page.snapshot.event.seq
    /\ e.dropped >= page.snapshot.event.dropped
    /\ page.shown = <<>> \/ (e.seq > Last(page.shown).seq /\ e.dropped >= Last(page.shown).dropped)

\* Mutation: the oldest event does not make room.
WithEventKept(shown, e) == Append(shown, e)

WithEvent(shown, e) == Append(IF Len(shown) = MaxShown THEN Tail(shown) ELSE shown, e)

\* apply_snapshot keeps the events of the subscription the snapshot names.
Keeps(message) == message.active /\ (page.shown = <<>> \/ page.shown[1].boot = message.boot)

PageReceives ==
    /\ posted # <<>>
    /\ posted' = Tail(posted)
    /\ LET message == Head(posted)
       IN  page' = IF message.kind = "Document"
                     THEN [page EXCEPT !.shown = IF Admits(message.event)
                                                   THEN WithEvent(@, message.event) ELSE @]
                     ELSE [snapshot |-> message,
                           shown |-> IF Keeps(message) THEN page.shown ELSE <<>>]
    /\ UNCHANGED <<worker, wire, env>>

NewPage == [snapshot |-> Snapshot(NoMachine), shown |-> <<>>]

\* The page is loaded again: worker and page start afresh, on a session with the device.
Reload ==
    /\ reloads < MaxReloads
    /\ reloads' = reloads + 1
    /\ machine' = NoMachine /\ event' = NoEvent /\ step' = "Idle"
    /\ session' = boot
    /\ late' = IF request = NoRequest THEN late ELSE late \cup {request}
    /\ request' = NoRequest /\ response' = NoResponse
    /\ posted' = <<>> /\ page' = NewPage
    /\ UNCHANGED <<device, boot, losses>>

-----------------------------------------------------------------------------
(* The device.                                                             *)

NoSubscription == [sub |-> FALSE, next |-> 1, dropped |-> 0, retained |-> NoEvent]

\* What a request changes when it arrives: it subscribes, or acknowledges.
Effect(q) ==
    CASE q.op = "Subscribe"                              -> [device EXCEPT !.sub = TRUE]
      [] q.op = "Poll" /\ q.ack # 0 /\ q.ack = device.retained.seq
                                                         -> [device EXCEPT !.retained = NoEvent]
      [] OTHER                                           -> device

Arrive(q) ==
    /\ q.boot = boot
    /\ Effect(q) # device
    /\ device' = Effect(q)
    /\ UNCHANGED <<worker, wire, posted, page, boot, losses, reloads>>

\* The device answers what it holds, or refuses for a reason of its own.
DeviceAnswers ==
    /\ request # NoRequest /\ response = NoResponse
    /\ request.boot = boot
    /\ Effect(request) = device
    /\ \/ /\ response' = IF ~ device.sub THEN Response("NotFound", NoEvent)
                         ELSE Response("Ok", IF request.op = "Poll" THEN device.retained
                                                                    ELSE NoEvent)
          /\ UNCHANGED losses
       \/ /\ losses < MaxLosses /\ losses' = losses + 1
          /\ response' = Response("Refused", NoEvent)
    /\ UNCHANGED <<worker, request, late, posted, page, device, boot, reloads>>

\* A new event takes the place of one that was not acknowledged.
Sample ==
    /\ device.sub /\ device.next <= MaxEvents
    /\ LET dropped == device.dropped + (IF device.retained = NoEvent THEN 0 ELSE 1)
       IN  device' = [device EXCEPT !.next = @ + 1, !.dropped = dropped,
                                    !.retained = Event(boot, device.next, dropped)]
    /\ UNCHANGED <<worker, wire, posted, page, boot, losses, reloads>>

Restart ==
    /\ boot < MaxBoots
    /\ boot' = boot + 1
    /\ device' = NoSubscription
    /\ UNCHANGED <<worker, wire, posted, page, losses, reloads>>

-----------------------------------------------------------------------------
(* The specification.                                                      *)

Init ==
    /\ machine = NoMachine /\ event = NoEvent /\ step = "Idle" /\ session = 1
    /\ request = NoRequest /\ response = NoResponse /\ late = {}
    /\ posted = <<>> /\ page = NewPage
    /\ device = NoSubscription /\ boot = 1
    /\ losses = 0 /\ reloads = 0

ArriveLive == request # NoRequest /\ response = NoResponse /\ Arrive(request)
ArriveLate == \E q \in late : Arrive(q)

Next ==
    \/ Drive \/ AcceptResponse \/ AbandonPending \/ BootChanged \/ FinishStep
    \/ PageReceives \/ Reload
    \/ ArriveLive \/ ArriveLate \/ DeviceAnswers \/ Sample \/ Restart

Spec == Init /\ [][Next]_vars

\* Heartbeats repeat, a reachable device answers, fetches and messages are delivered
\* or fail; the device need not sample, and late requests need not arrive.
Fairness ==
    /\ WF_vars(Drive) /\ WF_vars(AcceptResponse) /\ WF_vars(FinishStep)
    /\ WF_vars(AbandonPending /\ request.boot # boot) /\ WF_vars(BootChanged)
    /\ WF_vars(PageReceives) /\ WF_vars(ArriveLive) /\ WF_vars(DeviceAnswers)

FairSpec == Spec /\ Fairness

-----------------------------------------------------------------------------
(* Properties.                                                             *)

Events == [boot : 0..MaxBoots, seq : 0..MaxEvents, dropped : 0..MaxEvents]
Phases == {"None", "Subscribing", "ReconcilingSubscribe", "Active"}
Messages == [kind : {"Snapshot", "Document"}, active : BOOLEAN, event : Events,
             boot : 0..MaxBoots]
Requests == [op : {"None", "Subscribe", "Status", "Poll"}, ack : 0..MaxEvents, boot : 0..MaxBoots]

\* Every variable has its type, and the page keeps no more than its bound.
TypeOK ==
    /\ machine \in [boot : 0..MaxBoots, phase : Phases, progress : Events,
                    pending : {"None", "Subscribe", "PollSubscribe", "PollEvent"}]
    /\ event \in Events /\ step \in {"Idle", "Driving", "Finishing"} /\ session \in 1..MaxBoots
    /\ request \in Requests /\ late \subseteq Requests
    /\ response \in [status : {"None", "Ok", "NotFound", "Refused"}, event : Events]
    /\ posted \in Seq(Messages) /\ Len(posted) <= MaxQueue
    /\ page.snapshot \in Messages /\ page.shown \in Seq(Events) /\ Len(page.shown) <= MaxShown
    /\ device \in [sub : BOOLEAN, next : 1..(MaxEvents + 1), dropped : 0..MaxEvents,
                   retained : Events]
    /\ boot \in 1..MaxBoots /\ losses \in 0..MaxLosses /\ reloads \in 0..MaxReloads

\* The events a page shows are of one boot and in order, and a gap between two of them
\* is no larger than the loss the device reports: no request that was lost, late or
\* repeated, of this page or of the one before, acknowledges an event nobody showed.
NoSilentLoss ==
    \A i \in 2..Len(page.shown) :
        LET a == page.shown[i - 1]
            b == page.shown[i]
        IN  /\ a.boot = b.boot /\ a.seq < b.seq
            /\ b.seq - a.seq - 1 <= b.dropped - a.dropped

\* What the worker acknowledges, the page shows or is about to: the page's checks
\* against its last snapshot refuse no event that the device will not send again.
AcknowledgedIsShown ==
    machine.progress # NoEvent =>
        \/ event = machine.progress
        \/ \E i \in 1..Len(posted) : posted[i] = Document(machine.progress)
        \/ page.shown # <<>> /\ Last(page.shown) = machine.progress

\* After the last restart and reload the device is subscribed and the machine knows it,
\* whichever of its requests or answers were lost.
Subscribes ==
    (boot = MaxBoots /\ reloads = MaxReloads) ~> [](device.sub /\ machine.phase = "Active")

\* After the last restart and reload, once the device retains an event that no request
\* of the earlier page still acknowledges, the page catches up with the newest one.
LatestShown ==
    (/\ boot = MaxBoots /\ reloads = MaxReloads
     /\ device.retained # NoEvent
     /\ \A q \in late : q.boot = boot => q.ack # device.retained.seq)
    ~> (/\ page.shown # <<>>
        /\ Last(page.shown).boot = boot /\ Last(page.shown).seq = device.next - 1)
=============================================================================

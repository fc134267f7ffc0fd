------------------------------- MODULE ClockProbe -------------------------------
(***************************************************************************)
(* How one connection learns the clock of its device: the worker opens a   *)
(* session, takes a reading of the browser's coarse timer, sends a         *)
(* heartbeat with it, takes a second reading when the answer arrives, and  *)
(* lets the model of the device's clock narrow its estimate.               *)
(*                                                                         *)
(* Time counts half nanoseconds, so that a reading need not be a whole     *)
(* number; a device counts one cycle per nanosecond from the start of its  *)
(* boot.  The estimator is external: it keeps the instants at which the    *)
(* boot may have started, and intersects them with what one exchange       *)
(* allows.  The session is the one HttpSession describes: the device       *)
(* answers it only under the boot it was opened on.                        *)
(***************************************************************************)
EXTENDS Integers, Sequences

CONSTANTS
    TimerError,   \* maximum_timer_error_ns
    MaxSample,    \* largest reading that converts exactly, in nanoseconds
    MaxSpan,      \* longest exchange the estimator takes, in nanoseconds
    MaxHistory,   \* MAXIMUM_CLOCK_HISTORY
    Identities,   \* public identities a device may show
    MaxTime,      \* bound on time
    MaxBoots,     \* bound on device boots
    MaxProbes     \* bound on probe identities

ASSUME ClockAssumption ==
    /\ TimerError \in Nat \ {0} /\ MaxSample \in Nat /\ MaxSpan \in Nat
    /\ MaxHistory \in Nat \ {0} /\ 0 \notin Identities
    /\ MaxTime \in Nat /\ MaxBoots \in Nat \ {0} /\ MaxProbes \in Nat \ {0}

VARIABLES
    clock,     \* DeviceClockModel of the connection
    history,   \* the records of its last observations
    estimate,  \* whether an estimate is shown
    session,   \* the boot the session was opened on, 0 without one
    identity,  \* the public identity last fetched, 0 without one
    step,      \* what the connection's task is doing
    exchange,  \* the heartbeat that is on its way
    device,    \* the device: its boot and identity
    origin,    \* when each boot started
    now        \* time, in half nanoseconds

worker == <<clock, history, estimate, session, identity, step>>
vars == <<worker, exchange, device, origin, now>>

-----------------------------------------------------------------------------
(* Values.                                                                 *)

Boots == 1..MaxBoots
Times == 0..MaxTime

NoProbe == [probe |-> 0, send |-> 0]
NewClock == [boot |-> 0, low |-> 0, high |-> 0, next |-> 1, pending |-> NoProbe]

NoExchange == [stage |-> "None", boot |-> 0, received |-> 0, transmitted |-> 0]

\* What a timer may report at an instant.
Readings(t) == {r \in Nat : r <= t + 2 * TimerError /\ t <= r + 2 * TimerError}
PossibleReadings == {r \in 0..(MaxTime + 2 * TimerError) : r \in Readings(now)}

-----------------------------------------------------------------------------
(* MonotonicTimeBounds.                                                    *)

Converts(reading) == reading <= 2 * MaxSample

Atleast0(n) == IF n < 0 THEN 0 ELSE n

\* Mutations: a bound rounded inward, and a bound that is not widened.
EarliestRoundedUp(reading) == Atleast0(((reading + 1) \div 2) - TimerError)
LatestUnwidened(reading) == (reading + 1) \div 2

\* The conversion to nanoseconds is exact here; the code multiplies in f64 before it
\* rounds outward.
Earliest(reading) == Atleast0((reading \div 2) - TimerError)
Latest(reading) == ((reading + 1) \div 2) + TimerError

-----------------------------------------------------------------------------
(* DeviceClockModel.                                                       *)

\* The device's cycle counter at an instant of a boot.
Cycle(b, t) == (t - origin[b]) \div 2

\* The estimator: when the boot may have started, given one exchange.
FromLow(send, received) == 2 * (send - received) - 1
FromHigh(receive, transmitted) == 2 * (receive - transmitted)
Narrowed(c, low, high) ==
    [c EXCEPT !.low = IF c.boot = 0 \/ low > c.low THEN low ELSE c.low,
              !.high = IF c.boot = 0 \/ high < c.high THEN high ELSE c.high]
Consistent(c, low, high) ==
    LET n == Narrowed(c, low, high) IN n.low <= n.high

BeginProbe(c, send) == [c EXCEPT !.pending = [probe |-> c.next, send |-> send],
                                 !.next = c.next + 1]
AbandonPending(c) == [c EXCEPT !.pending = NoProbe]

\* reset: refused while a probe is pending, and the callers ignore a refusal.
Reset(c) == IF c.pending = NoProbe THEN NewClock ELSE c

\* Mutation: the model takes a heartbeat of any boot.
BootChangedNever(c, boot) == FALSE

\* accept_response finds that the model's facts are another boot's.
BootChanged(c, boot) == c.boot \notin {0, boot}

\* The estimator takes the observation.
Observes(c, x, receive) ==
    /\ receive - c.pending.send <= MaxSpan
    /\ Consistent(c, FromLow(c.pending.send, x.received), FromHigh(receive, x.transmitted))

Observed(c, x, receive) ==
    [Narrowed(AbandonPending(c), FromLow(c.pending.send, x.received),
              FromHigh(receive, x.transmitted)) EXCEPT !.boot = x.boot]

-----------------------------------------------------------------------------
(* The connection's task.                                                  *)

\* record_observation: the oldest record makes room.
Recorded(record) ==
    Append(IF Len(history) = MaxHistory THEN Tail(history) ELSE history, record)

\* schedule_failure: no estimate is shown until the next success.
ScheduleFailure == estimate' = FALSE /\ step' = "Idle"

\* connect_device: a session is opened on the boot that answers the discovery, ...
Connect ==
    /\ step = "Idle" /\ session = 0
    /\ step' = "Opening"
    /\ exchange' = [NoExchange EXCEPT !.boot = device.boot]
    /\ UNCHANGED <<clock, history, estimate, session, identity, device, origin, now>>

\* ... then the public identity is fetched; another one makes everything known void.
Connected ==
    /\ step = "Opening"
    /\ LET changed == identity \notin {0, device.identity} IN
       /\ clock' = IF changed THEN Reset(clock) ELSE clock
       /\ history' = IF changed THEN <<>> ELSE history
       /\ \/ session' = exchange.boot /\ estimate' = (estimate /\ ~changed)
          \/ session' = 0 /\ estimate' = FALSE    \* bind_network_boot fails
    /\ identity' = device.identity
    /\ step' = "Idle"
    /\ exchange' = NoExchange
    /\ UNCHANGED <<device, origin, now>>

ConnectFails ==
    /\ step = "Opening"
    /\ ScheduleFailure
    /\ exchange' = NoExchange
    /\ UNCHANGED <<clock, history, session, identity, device, origin, now>>

\* drive_clock_probe: a reading that does not convert ends the step before a probe.
ProbeUnread ==
    /\ step = "Idle" /\ session # 0
    /\ \E reading \in PossibleReadings : ~Converts(reading)
    /\ ScheduleFailure
    /\ UNCHANGED <<clock, history, session, identity, exchange, device, origin, now>>

\* A probe identity is spent, then the session signs the request.
Probe ==
    /\ step = "Idle" /\ session # 0
    /\ clock.pending = NoProbe
    /\ clock.next <= MaxProbes
    /\ \E reading \in PossibleReadings :
          /\ Converts(reading)
          /\ clock' = BeginProbe(clock, Earliest(reading))
    /\ step' = "Probing"
    /\ exchange' = [NoExchange EXCEPT !.stage = "Sent", !.boot = session]
    /\ UNCHANGED <<history, estimate, session, identity, device, origin, now>>

AfterFailure(c) == AbandonPending(c)

\* The session cannot sign, the exchange fails, the answer does not verify, or
\* the second reading does not convert.  Some failures cost the session.
ProbeFails ==
    /\ step = "Probing"
    /\ clock' = AfterFailure(clock)
    /\ session' \in {session, 0}
    /\ ScheduleFailure
    /\ exchange' = NoExchange
    /\ UNCHANGED <<history, identity, device, origin, now>>

\* The device refuses the heartbeat with a status of its own.
ProbeRefused ==
    /\ step = "Probing" /\ exchange.stage = "Transmitted"
    /\ clock' = AbandonPending(clock)
    /\ ScheduleFailure
    /\ exchange' = NoExchange
    /\ UNCHANGED <<history, session, identity, device, origin, now>>

\* Mutation: the records of the old boot stay when the model is reset.
ForgottenKept(h) == h

Forgotten(h) == <<>>

\* probe_device: the answer is accepted, or its boot voids the model and the session.
Answered ==
    /\ step = "Probing" /\ exchange.stage = "Transmitted"
    /\ \E reading \in PossibleReadings :
          /\ Converts(reading)
          /\ LET receive == Latest(reading) IN
             IF BootChanged(clock, exchange.boot)
             THEN /\ clock' = Reset(AbandonPending(clock))
                  /\ history' = Forgotten(history)
                  /\ session' = 0 /\ identity' = 0
                  /\ ScheduleFailure
             ELSE /\ UNCHANGED <<session, identity>>
                  /\ step' = "Idle"
                  /\ IF Observes(clock, exchange, receive)
                     THEN /\ clock' = Observed(clock, exchange, receive)
                          /\ history' = Recorded([boot |-> exchange.boot,
                                                  probe |-> clock.pending.probe])
                          /\ estimate' \in BOOLEAN    \* narrow enough, or not yet
                     ELSE /\ clock' = AbandonPending(clock)
                          /\ estimate' = FALSE
                          /\ UNCHANGED history
    /\ exchange' = NoExchange
    /\ UNCHANGED <<device, origin, now>>

\* What else the step does after a heartbeat may cost the session.
SessionDropped ==
    /\ step = "Idle" /\ session # 0
    /\ session' = 0
    /\ UNCHANGED <<clock, history, estimate, identity, step, exchange, device, origin, now>>

-----------------------------------------------------------------------------
(* The device and time.                                                    *)

DeviceReceives ==
    /\ exchange.stage = "Sent" /\ exchange.boot = device.boot
    /\ exchange' = [exchange EXCEPT !.stage = "Received",
                                    !.received = Cycle(device.boot, now)]
    /\ UNCHANGED <<worker, device, origin, now>>

DeviceTransmits ==
    /\ exchange.stage = "Received" /\ exchange.boot = device.boot
    /\ exchange' = [exchange EXCEPT !.stage = "Transmitted",
                                    !.transmitted = Cycle(device.boot, now)]
    /\ UNCHANGED <<worker, device, origin, now>>

\* A restart: the cycle counter starts again, and another device may have taken its place.
Restart ==
    /\ device.boot < MaxBoots
    /\ \E i \in Identities : device' = [boot |-> device.boot + 1, identity |-> i]
    /\ origin' = [origin EXCEPT ![device.boot + 1] = now]
    /\ UNCHANGED <<worker, exchange, now>>

Elapse ==
    /\ now < MaxTime
    /\ now' = now + 1
    /\ UNCHANGED <<worker, exchange, device, origin>>

-----------------------------------------------------------------------------
(* The specification.                                                      *)

Init ==
    /\ clock = NewClock
    /\ history = <<>>
    /\ estimate = FALSE
    /\ session = 0 /\ identity = 0
    /\ step = "Idle"
    /\ exchange = NoExchange
    /\ device \in [boot : {1}, identity : Identities]
    /\ origin = [b \in Boots |-> 0]
    /\ now = 0

Next ==
    \/ Connect \/ Connected \/ ConnectFails
    \/ ProbeUnread \/ Probe \/ ProbeFails \/ ProbeRefused \/ Answered \/ SessionDropped
    \/ DeviceReceives \/ DeviceTransmits \/ Restart \/ Elapse

Spec == Init /\ [][Next]_vars

-----------------------------------------------------------------------------
(* Properties.                                                             *)

Pending == [probe : Nat, send : Nat]
Clocks == [boot : 0..MaxBoots, low : Int, high : Int, next : Nat \ {0}, pending : Pending]
Exchanges == [stage : {"None", "Sent", "Received", "Transmitted"}, boot : 0..MaxBoots,
              received : Int, transmitted : Int]

\* The state of the connection and of the device has its types; the history is bounded.
TypeOK ==
    /\ clock \in Clocks
    /\ history \in Seq([boot : Boots, probe : Nat \ {0}]) /\ Len(history) <= MaxHistory
    /\ estimate \in BOOLEAN
    /\ session \in 0..MaxBoots /\ identity \in Identities \cup {0}
    /\ step \in {"Idle", "Opening", "Probing"}
    /\ exchange \in Exchanges
    /\ device \in [boot : Boots, identity : Identities]
    /\ origin \in [Boots -> Nat] /\ now \in Nat

\* Whatever the timer reports within its error, however long an exchange takes and
\* whenever the device restarts, the true start of the boot the model names lies in
\* its interval: no deadline is computed from a clock the device does not have.
OffsetInside ==
    clock.boot # 0 => clock.low <= origin[clock.boot] /\ origin[clock.boot] <= clock.high

\* The records shown together were observed of one boot, the model's, and each
\* spent a probe identity of its own, in the order they are shown.
HistoryOfOneBoot ==
    /\ \A i \in 1..Len(history) :
          history[i].boot = clock.boot /\ history[i].probe < clock.next
    /\ \A i, j \in 1..Len(history) : i < j => history[i].probe < history[j].probe

\* A probe is pending only while its task runs: a probe left behind would refuse
\* every later one, and the reset that a new boot asks for, without a word.
PendingHasTask == clock.pending # NoProbe => step = "Probing"

\* An honest exchange with the boot the model names is never inconsistent with what
\* was observed before, so a device that answers in time is not rejected.
NeverInconsistent ==
    step = "Probing" /\ exchange.stage = "Transmitted" /\ clock.boot = exchange.boot
        => \A reading \in PossibleReadings :
              Consistent(clock, FromLow(clock.pending.send, exchange.received),
                         FromHigh(Latest(reading), exchange.transmitted))
=============================================================================

------------------------------ MODULE MCClockProbe ------------------------------
(* What the heartbeats of a device feed: the clock model, and the health that is *)
(* polled after them.  Both meet restarts; a behaviour is about one of them,      *)
(* chosen at the start.  Readings of the clock are off by a whole nanosecond, and *)
(* its sample bound is reached by the last readings of the run.                   *)
EXTENDS ClockProbe

CONSTANTS Firmwares, Supporting, MaxCycle, MaxPolledBoots, MaxLosses

VARIABLES subject, health, failing, link, poll, polled, boot, losses, refused

Health == INSTANCE HealthPolling WITH
    exchange <- poll, device <- polled, MaxBoots <- MaxPolledBoots

ASSUME Health!Assumption

\* The device boots before it is polled.
ASSUME PollBounds == MaxCycle \in Nat /\ MaxPolledBoots \in Nat \ {0} /\ MaxLosses \in Nat

polling == <<health, failing, link, poll, polled, boot, losses, refused>>
heartbeats == <<subject, vars, polling>>

NoPolling ==
    /\ health = Health!NoHealth /\ failing = FALSE /\ refused = FALSE /\ poll = "None"
    /\ link = [session |-> 0, clock |-> 0, identity |-> 0]
    /\ polled = [phase |-> "None"] /\ boot = 0 /\ losses = 0

HeartbeatsInit ==
    \/ subject = "Clock" /\ Init /\ NoPolling
    \/ subject = "Health" /\ Init /\ device.identity = 1 /\ Health!Init

OfClock(A) == subject = "Clock" /\ A /\ UNCHANGED <<subject, polling>>
OfHealth(A) == subject = "Health" /\ A /\ UNCHANGED <<subject, vars>>

HeartbeatsNext == OfClock(Next) \/ OfHealth(Health!Next)

\* The fairness of HealthPolling; nothing of the clock's is needed.
HeartbeatsSpec ==
    /\ HeartbeatsInit /\ [][HeartbeatsNext]_heartbeats
    /\ WF_heartbeats(OfHealth(Health!Begin)) /\ WF_heartbeats(OfHealth(Health!Opened))
    /\ WF_heartbeats(OfHealth(Health!Identified)) /\ WF_heartbeats(OfHealth(Health!Heartbeat))
    /\ SF_heartbeats(OfHealth(Health!Heartbeat /\ poll' = "Health"))
    /\ WF_heartbeats(OfHealth(Health!Polled))

\* The evidence kept is of the session's boot, and no true report of the device was refused
\* against it, whatever was lost, missing or read of an earlier boot.
HealthEvidence ==
    subject = "Health" =>
        Health!TypeOK /\ Health!HonestIsAccepted /\ Health!EvidenceIsOfSession

\* Within a boot nothing known gets older, and after the last restart what is known is of
\* this boot and no failure stays.
HealthFollows ==
    /\ [][subject = "Health" => Health!NoneRegresses]_heartbeats
    /\ <>[](subject = "Health" => Health!Known)
=============================================================================

----------------------------- MODULE HealthPolling -----------------------------
(***************************************************************************)
(* The runtime health of one device: the worker polls it after a heartbeat, *)
(* keeps the last report that follows on from the earlier ones, and forgets *)
(* all of them when it opens a session or learns of another boot.          *)
(*                                                                         *)
(* A report has the cycle at which the service core formed it, that core's *)
(* stack measurement and, unless absent, the one the realtime core last    *)
(* published.  Of a measurement only its progress is modelled: the sample  *)
(* count stands for sweeps, sample time and headroom, which change in step. *)
(* A poll only reads, so one that is lost leaves nothing on the device.    *)
(***************************************************************************)
EXTENDS Integers

CONSTANTS
    Firmwares,      \* the builds the device may boot
    Supporting,     \* the builds whose service probe is available
    MaxCycle,       \* bound on the progress of one boot
    MaxBoots,       \* bound on boots
    MaxLosses       \* bound on exchanges lost, refused or answered by a stale report

Assumption == Supporting \subseteq Firmwares

VARIABLES
    health,     \* RuntimeHealthModel: availability, latest report, last realtime stack
    failing,    \* runtime_health_last_error is set
    link,       \* the boots of session and clock model, and the identity; 0 for none
    exchange,   \* the exchange the connection's task awaits
    device,     \* cycle and measurements of this boot, and its firmware
    boot,       \* the device's boot
    losses,     \* disturbances so far
    refused     \* ghost: a true report of the device was rejected

vars == <<health, failing, link, exchange, device, boot, losses, refused>>

Absent == -1
NoReport == [boot |-> 0, cycle |-> 0, service |-> 0, realtime |-> Absent]
NoHealth == [availability |-> "Unobserved", latest |-> NoReport, realtime |-> Absent]

-----------------------------------------------------------------------------
(* RuntimeHealthModel.                                                     *)

\* A report that is absent in the realtime core's part leaves what is known of it.
Present(realtime) == realtime # Absent

\* Mutant: the realtime part is compared with the latest report only.
FollowsLatest(h, report) ==
    /\ h.latest # NoReport => report.cycle >= h.latest.cycle /\ report.service >= h.latest.service
    /\ Present(report.realtime) => report.realtime >= h.latest.realtime

\* validate_continuity
Follows(h, report) ==
    /\ h.latest # NoReport => report.cycle >= h.latest.cycle /\ report.service >= h.latest.service
    /\ Present(report.realtime) => report.realtime >= h.realtime

\* record_runtime_health_success, record_runtime_health_failure
FailingAfter(follows) == failing' = ~follows

\* accept_response
Accepted(h, report) ==
    [availability |-> "Available", latest |-> report,
     realtime |-> IF Present(report.realtime) THEN report.realtime ELSE h.realtime]

Unsupported == [NoHealth EXCEPT !.availability = "Unsupported"]

-----------------------------------------------------------------------------
(* The device.                                                             *)

FreshDevice(f) == [cycle |-> 0, service |-> 0, core |-> 0, realtime |-> Absent, firmware |-> f]

\* The cores measure, and the realtime core publishes, each at its own pace.
Work ==
    /\ device.cycle < MaxCycle
    /\ \/ device' = [device EXCEPT !.cycle = @ + 1, !.service = @ + 1]
       \/ device' = [device EXCEPT !.cycle = @ + 1, !.core = @ + 1]
       \/ device' = [device EXCEPT !.cycle = @ + 1, !.realtime = device.core]
    /\ UNCHANGED <<health, failing, link, exchange, boot, losses, refused>>

Restart ==
    /\ boot < MaxBoots /\ boot' = boot + 1
    /\ \E f \in Firmwares : device' = FreshDevice(f)
    /\ UNCHANGED <<health, failing, link, exchange, losses, refused>>

\* What the device reports: the realtime part may be missing from any report.
Reports ==
    {[boot |-> boot, cycle |-> device.cycle, service |-> device.service, realtime |-> r] :
        r \in {device.realtime, Absent}}

-----------------------------------------------------------------------------
(* The worker.                                                             *)

Disturb == losses < MaxLosses /\ losses' = losses + 1

Begin ==
    /\ exchange = "None"
    /\ exchange' = IF link.session = 0 THEN "Open" ELSE "Heartbeat"
    /\ UNCHANGED <<health, failing, link, device, boot, losses, refused>>

\* The session is opened with one boot; the identity is read afterwards, unauthenticated,
\* perhaps of another.
Opened ==
    /\ exchange = "Open" /\ exchange' = "Identity"
    /\ link' = [link EXCEPT !.session = boot]
    /\ UNCHANGED <<health, failing, device, boot, losses, refused>>

\* Mutant: only a changed identity forgets the evidence.
EvidenceKept(changed) == health' = IF changed THEN NoHealth ELSE health

\* reset_runtime_health_evidence: any new session forgets the evidence.
EvidenceReset(changed) == health' = NoHealth

Identified ==
    /\ exchange = "Identity" /\ exchange' = "None"
    /\ LET changed == link.identity \notin {0, device.firmware} IN
       /\ link' = [link EXCEPT !.identity = device.firmware, !.clock = IF changed THEN 0 ELSE @]
       /\ failing' = (failing /\ ~changed)
       /\ EvidenceReset(changed)
    /\ UNCHANGED <<device, boot, losses, refused>>

\* A heartbeat of the session's boot: it names that boot to the clock model, which resets
\* everything when it knew another.  After an accepted one health is polled if it is due.
Heartbeat ==
    /\ exchange = "Heartbeat"
    /\ \/ /\ link.session # boot
          /\ link' = [link EXCEPT !.session = 0] /\ exchange' = "None"
          /\ UNCHANGED <<health, failing>>
       \/ /\ link.session = boot /\ link.clock \notin {0, boot}
          /\ link' = [session |-> 0, clock |-> 0, identity |-> 0] /\ exchange' = "None"
          /\ health' = NoHealth /\ failing' = FALSE
       \/ /\ link.session = boot /\ link.clock \in {0, boot}
          /\ link' = [link EXCEPT !.clock = boot]
          /\ exchange' \in {"Health", "None"}
          /\ UNCHANGED <<health, failing>>
    /\ UNCHANGED <<device, boot, losses, refused>>

AcceptReport(report) ==
    /\ FailingAfter(Follows(health, report))
    /\ health' = IF Follows(health, report) THEN Accepted(health, report) ELSE health

\* The answer to a poll; the session signs for one boot, which another refuses.
Polled ==
    /\ exchange = "Health" /\ exchange' = "None"
    /\ \/ /\ link.session # boot
          /\ link' = [link EXCEPT !.session = 0] /\ failing' = TRUE
          /\ UNCHANGED <<health, refused>>
       \/ /\ link.session = boot /\ device.firmware \notin Supporting
          /\ health' = Unsupported /\ failing' = FALSE
          /\ UNCHANGED <<link, refused>>
       \/ /\ link.session = boot /\ device.firmware \in Supporting
          /\ \E report \in Reports :
                AcceptReport(report) /\ refused' = (refused \/ ~Follows(health, report))
          /\ UNCHANGED link
    /\ UNCHANGED <<device, boot, losses>>

\* A poll the device answers with an error, or with a realtime part older than one it gave.
PolledWrong ==
    /\ exchange = "Health" /\ exchange' = "None" /\ link.session = boot /\ Disturb
    /\ \/ failing' = TRUE /\ UNCHANGED health
       \/ /\ device.firmware \in Supporting
          /\ \E report \in Reports, old \in 0..MaxCycle :
                old < device.realtime /\ AcceptReport([report EXCEPT !.realtime = old])
    /\ UNCHANGED <<link, device, boot, refused>>

\* An exchange is lost.  What was opened without its identity is not kept.
Lost ==
    /\ exchange # "None" /\ exchange' = "None" /\ Disturb
    /\ failing' = (failing \/ exchange = "Health")
    /\ link' = IF exchange = "Identity" THEN [link EXCEPT !.session = 0] ELSE link
    /\ UNCHANGED <<health, device, boot, refused>>

-----------------------------------------------------------------------------

Init ==
    /\ health = NoHealth /\ failing = FALSE /\ exchange = "None"
    /\ link = [session |-> 0, clock |-> 0, identity |-> 0]
    /\ \E f \in Firmwares : device = FreshDevice(f)
    /\ boot = 1 /\ losses = 0 /\ refused = FALSE

Next ==
    \/ Work \/ Restart
    \/ Begin \/ Opened \/ Identified \/ Heartbeat \/ Polled \/ PolledWrong \/ Lost

\* The task of a connection goes on, exchanges end, and the interval of the polls elapses.
Fairness ==
    /\ WF_vars(Begin) /\ WF_vars(Opened) /\ WF_vars(Identified) /\ WF_vars(Heartbeat)
    /\ SF_vars(Heartbeat /\ exchange' = "Health") /\ WF_vars(Polled)

Spec == Init /\ [][Next]_vars /\ Fairness

-----------------------------------------------------------------------------
(* Properties.                                                             *)

TypeOK ==
    /\ health.availability \in {"Unobserved", "Unsupported", "Available"}
    /\ health.availability = "Available" <=> health.latest # NoReport
    /\ health.realtime \in Absent..MaxCycle
    /\ link.session \in 0..MaxBoots /\ link.clock \in 0..MaxBoots
    /\ link.identity \in Firmwares \cup {0}
    /\ exchange \in {"None", "Open", "Identity", "Heartbeat", "Health"}

\* What a device truly reports is never taken for a regression, whatever was lost, absent
\* or read of an earlier boot.
HonestIsAccepted == ~refused

\* While a session is open for polls, the evidence is of that session's boot.
EvidenceIsOfSession ==
    (link.session # 0 /\ exchange # "Identity" /\ health.latest # NoReport)
        => health.latest.boot = link.session

\* Nothing kept of a boot is older than what was kept before, also over reports in which
\* the realtime part was missing.
NoneRegresses ==
    (health.latest # NoReport /\ health'.latest # NoReport /\ link'.session = link.session)
        => /\ health'.latest.cycle >= health.latest.cycle
           /\ health'.realtime >= health.realtime
NeverRegresses == [][NoneRegresses]_vars

\* After the last restart the worker comes to know the health of this boot, or that there
\* is none, and no failure stays.
Known ==
    /\ health.availability = IF device.firmware \in Supporting THEN "Available" ELSE "Unsupported"
    /\ health.latest.boot \in {0, boot} /\ ~failing
Recovers == <>[]Known
=============================================================================

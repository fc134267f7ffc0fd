------------------------- MODULE DeviceDocuments_proofs -------------------------
(***************************************************************************)
(* What is proved of the documents that the worker reads from a device and  *)
(* the page shows: MCDeviceDocuments' three invariants hold of every        *)
(* behaviour, for any bounds, any firmwares and any sizes.  A behaviour is  *)
(* of one service, so that each has an inductive invariant of its own:      *)
(* TelemetryInv, WaveformInv and DocumentInv, one lemma for each action.    *)
(***************************************************************************)
EXTENDS MCDeviceDocuments, FiniteSetTheorems, SequenceTheorems, WellFoundedInduction, TLAPS

\* Every nonempty set of numbers has a smallest one.
LEMMA SmallestOf ==
    ASSUME NEW T \in SUBSET Nat, T # {}
    PROVE  \E m \in T : \A n \in T : m <= n
  <1>1. PICK m \in T : \A n \in T : ~ (<<n, m>> \in OpToRel(<, Nat))
    BY NatLessThanWellFounded, WFMin
  <1>2. \A n \in T : ~ (n < m)
    BY <1>1 DEF OpToRel
  <1> QED
    BY <1>2
-----------------------------------------------------------------------------
(* Telemetry.  An event is told apart by its place among the acknowledged   *)
(* ones: its sequence counts the events before it, and of those its loss    *)
(* count leaves the acknowledged.                                           *)

\* One more than the events acknowledged before e.
Rank(e) == e.seq - e.dropped

Genuine(e) == e \in Telemetry!Events /\ e.boot # 0 /\ e.seq # 0 /\ e.dropped < e.seq

\* e may be the next event somebody sees after a: at most a itself was acknowledged between.
Continues(a, e) ==
    a.boot = e.boot /\ a.seq < e.seq /\ a.dropped <= e.dropped /\ Rank(e) <= Rank(a) + 1

Chained(shown) == \A i \in 2..Len(shown) : Continues(shown[i - 1], shown[i])

\* The rank of the event the device retains, or of its next when it retains none.
DeviceRank ==
    device.next - device.dropped - (IF device.retained = Telemetry!NoEvent THEN 0 ELSE 1)

DeviceCounts ==
    /\ device.dropped < device.next
    /\ device.retained # Telemetry!NoEvent =>
         /\ device.retained = Telemetry!Event(boot, device.next - 1, device.dropped)
         /\ device.dropped + 1 < device.next

\* An event of the device's present boot, after which at most itself was acknowledged.
Anchored(e) ==
    /\ e.boot = boot /\ e.seq < device.next /\ e.dropped <= device.dropped
    /\ DeviceRank <= Rank(e) + 1
    /\ device.retained.seq = e.seq => device.retained = e

\* The machine is the session's, and has an event only while it is active.
MachineOfSession ==
    /\ session <= boot
    /\ machine.phase = "None" <=> machine = Telemetry!NoMachine
    /\ machine # Telemetry!NoMachine => machine.boot = session
    /\ machine.progress # Telemetry!NoEvent =>
         Genuine(machine.progress) /\ machine.progress.boot = session /\ machine.phase = "Active"
    /\ machine.pending \in {"Subscribe", "PollSubscribe"} =>
         machine.phase \in {"Subscribing", "ReconcilingSubscribe"}
    /\ machine.pending = "PollEvent" => machine.phase = "Active"
    /\ (machine.pending # "None") <=> (step = "Driving")

\* The live request is the machine's, and no request acknowledges more than was seen.
RequestsOfSession ==
    /\ (request # Telemetry!NoRequest) <=> (step = "Driving")
    /\ step = "Driving" => request.boot = session /\ (request.op = "Poll" <=> machine.pending = "PollEvent")
    /\ \A q \in late \cup {request} :
         /\ q.boot <= session
         /\ q.boot = boot => q.ack < device.next
         /\ q.boot = session /\ machine.progress # Telemetry!NoEvent => q.ack <= machine.progress.seq

\* What the machine last took, and the event of an answer, which may be the next.
EventsAnchored ==
    /\ session = boot /\ machine.progress # Telemetry!NoEvent => Anchored(machine.progress)
    /\ response # Telemetry!NoResponse => step = "Driving"
    /\ response.event # Telemetry!NoEvent =>
         LET e == response.event
         IN  /\ Genuine(e) /\ e.boot = session /\ machine.pending = "PollEvent"
             /\ session = boot => Anchored(e)
             /\ \A q \in late \cup {request} : q.boot = session => q.ack <= e.seq
             /\ \/ machine.progress \in {Telemetry!NoEvent, e}
                \/ Continues(machine.progress, e)

\* The page after a message.
AdmittedBy(p, e) ==
    /\ p.snapshot.active
    /\ p.snapshot.boot = e.boot
    /\ e.seq > p.snapshot.event.seq
    /\ e.dropped >= p.snapshot.event.dropped
    /\ \/ p.shown = <<>>
       \/ e.seq > p.shown[Len(p.shown)].seq /\ e.dropped >= p.shown[Len(p.shown)].dropped
Received(p, m) ==
    IF m.kind = "Document"
      THEN [p EXCEPT !.shown = IF AdmittedBy(p, m.event) THEN Telemetry!WithEvent(@, m.event) ELSE @]
      ELSE [snapshot |-> m,
            shown |-> IF m.active /\ (p.shown = <<>> \/ p.shown[1].boot = m.boot)
                        THEN p.shown ELSE <<>>]

Pages == [snapshot : Telemetry!Messages, shown : Seq(Telemetry!Events)]
GoodPage(p) ==
    /\ p \in Pages /\ Len(p.shown) <= MaxShown /\ Chained(p.shown)
    /\ ~ p.snapshot.active => p.shown = <<>>
    /\ \A i \in 1..Len(p.shown) : p.shown[i].boot = p.snapshot.boot

Shows(p, e) == p.shown # <<>> /\ p.shown[Len(p.shown)] = e

\* The page that has taken all messages knows what the worker knows, but for the event that
\* is to be posted, which it will admit; a page of an earlier boot is about to be cleared.
Caught(p) ==
    /\ step # "Finishing" =>
         /\ event = Telemetry!NoEvent
         /\ p.snapshot.active <=> machine.phase = "Active"
    /\ machine.phase = "Active" =>
         /\ p.snapshot.active => p.snapshot.boot = session
         /\ event = Telemetry!NoEvent =>
              \/ machine.progress = Telemetry!NoEvent /\ p.shown = <<>>
              \/ p.snapshot.active /\ Shows(p, machine.progress)
         /\ event # Telemetry!NoEvent => p.snapshot.active
    /\ machine.phase \in {"Subscribing", "ReconcilingSubscribe"} => ~ p.snapshot.active
    /\ event # Telemetry!NoEvent =>
         /\ event = machine.progress
         /\ event.seq > p.snapshot.event.seq /\ event.dropped >= p.snapshot.event.dropped
         /\ p.shown = <<>> \/ Continues(p.shown[Len(p.shown)], event)
    /\ machine.phase = "Active" /\ event = Telemetry!NoEvent /\ p.snapshot.active =>
         p.snapshot.event.seq <= machine.progress.seq /\ p.snapshot.event.dropped <= machine.progress.dropped

\* The messages, taken in their order, lead from a page to the last, over good pages.
Leads(p, messages, last) ==
    \E views \in [0..Len(messages) -> Pages] :
        /\ views[0] = p
        /\ \A k \in 1..Len(messages) : views[k] = Received(views[k - 1], messages[k])
        /\ \A k \in 0..Len(messages) : GoodPage(views[k])
        /\ views[Len(messages)] = last

PageCatchesUp == \E last \in Pages : Leads(page, posted, last) /\ Caught(last)

Documents ==
    \A i \in 1..Len(posted) :
        posted[i].kind = "Document" => posted[i] = Telemetry!Document(posted[i].event)

TelemetryParts ==
    /\ Telemetry!TypeOK
    /\ MachineOfSession /\ RequestsOfSession /\ DeviceCounts /\ EventsAnchored
    /\ Documents /\ PageCatchesUp
TelemetryInv == service = "Telemetry" => TelemetryParts

\* What the module's values are.
LEMMA TelemetryValues ==
    /\ Telemetry!NoEvent \in Telemetry!Events
    /\ \A e \in Telemetry!Events : Telemetry!Document(e) \in Telemetry!Messages
  BY BoundAssumption DEF Telemetry!NoEvent, Telemetry!Event, Telemetry!Events, Telemetry!Document,
     Telemetry!Messages

LEMMA WithEventKeeps ==
    ASSUME NEW shown \in Seq(Telemetry!Events), Len(shown) <= MaxShown, Chained(shown),
           NEW e \in Telemetry!Events, shown = <<>> \/ Continues(shown[Len(shown)], e)
    PROVE  LET next == Telemetry!WithEvent(shown, e)
           IN  /\ next \in Seq(Telemetry!Events) /\ Len(next) <= MaxShown /\ Chained(next)
               /\ next # <<>> /\ next[Len(next)] = e
               /\ \A i \in 1..Len(next) : next[i] = e \/ \E j \in 1..Len(shown) : next[i] = shown[j]
  <1> DEFINE base == IF Len(shown) = MaxShown THEN Tail(shown) ELSE shown
             next == Append(base, e)
  <1>1. /\ base \in Seq(Telemetry!Events) /\ Len(base) + 1 <= MaxShown
        /\ Len(base) \in {Len(shown), Len(shown) - 1} /\ Len(base) \in Nat
        /\ \A i \in 1..Len(base) : base[i] = shown[i + (Len(shown) - Len(base))]
    <2>0. Len(shown) \in Nat
      OBVIOUS
    <2>1. CASE Len(shown) = MaxShown
      <3>1. shown # <<>> /\ Len(shown) \in Nat /\ Len(shown) # 0
        BY <2>1, BoundAssumption
      <3>2. base = Tail(shown)
        BY <2>1
      <3>3. /\ Tail(shown) \in Seq(Telemetry!Events) /\ Len(Tail(shown)) = Len(shown) - 1
            /\ \A i \in 1..Len(Tail(shown)) : Tail(shown)[i] = shown[i + 1]
        BY <3>1, HeadTailProperties
      <3> HIDE DEF base
      <3>4. Len(base) = Len(shown) - 1 /\ Len(base) \in Nat /\ Len(shown) - Len(base) = 1
        BY <3>1, <3>2, <3>3
      <3>5. \A i \in 1..Len(base) : base[i] = shown[i + (Len(shown) - Len(base))]
        BY <3>2, <3>3, <3>4
      <3> QED
        BY <2>1, <3>1, <3>2, <3>3, <3>4, <3>5
    <2>2. CASE Len(shown) # MaxShown
      <3>1. base = shown /\ Len(shown) \in Nat /\ Len(shown) < MaxShown
        BY <2>2, BoundAssumption
      <3> HIDE DEF base
      <3>2. Len(base) = Len(shown) /\ Len(base) + 1 <= MaxShown
        BY <3>1, BoundAssumption
      <3>3. \A i \in 1..Len(base) : base[i] = shown[i + (Len(shown) - Len(base))]
        BY <2>0, <3>1, <3>2
      <3> QED
        BY <3>1, <3>2, <3>3
    <2> QED
      BY <2>1, <2>2
  <1> HIDE DEF base
  <1>2. /\ next \in Seq(Telemetry!Events) /\ Len(next) = Len(base) + 1 /\ next[Len(base) + 1] = e
        /\ \A i \in 1..Len(base) : next[i] = base[i]
    BY <1>1
  <1>3. Chained(next)
    <2> SUFFICES ASSUME NEW i \in 2..Len(next)
                 PROVE  Continues(next[i - 1], next[i])
      BY DEF Chained
    <2>0. Len(shown) \in Nat /\ Len(base) \in Nat /\ i \in Nat /\ i - 1 \in 1..Len(base)
      BY <1>1, <1>2
    <2> DEFINE d == Len(shown) - Len(base)
    <2>1. d \in {0, 1} /\ next[i - 1] = shown[(i - 1) + d]
      BY <1>1, <1>2, <2>0
    <2>2. CASE i = Len(base) + 1
      <3>1. (i - 1) + d = Len(shown) /\ next[i] = e /\ shown # <<>>
        BY <2>0, <2>1, <2>2, <1>1, <1>2
      <3> QED
        BY <2>1, <3>1
    <2>3. CASE i # Len(base) + 1
      <3>1. i \in 1..Len(base) /\ next[i] = shown[i + d] /\ i + d \in 2..Len(shown)
        BY <2>0, <2>1, <2>3, <1>1, <1>2
      <3>2. (i - 1) + d = (i + d) - 1
        BY <2>0, <2>1
      <3> QED
        BY <2>1, <3>1, <3>2 DEF Chained
    <2> QED
      BY <2>2, <2>3
  <1>4. \A i \in 1..Len(next) : next[i] = e \/ \E j \in 1..Len(shown) : next[i] = shown[j]
    <2> SUFFICES ASSUME NEW i \in 1..Len(base)
                 PROVE  \E j \in 1..Len(shown) : next[i] = shown[j]
      BY <1>1, <1>2
    <2>1. i + (Len(shown) - Len(base)) \in 1..Len(shown)
      BY <1>1
    <2> QED
      BY <1>1, <1>2, <2>1
  <1>5. next = Telemetry!WithEvent(shown, e)
    BY DEF base, Telemetry!WithEvent
  <1>6. next # <<>> /\ next[Len(next)] = e /\ Len(next) <= MaxShown
    <2> HIDE DEF next
    <2> QED
      BY <1>1, <1>2
  <1> QED
    BY <1>2, <1>3, <1>4, <1>5, <1>6

\* A document that is admitted is the last the page shows.
LEMMA DocumentReceived ==
    ASSUME NEW p, GoodPage(p), NEW e \in Telemetry!Events, AdmittedBy(p, e),
           p.shown = <<>> \/ Continues(p.shown[Len(p.shown)], e)
    PROVE  LET q == Received(p, Telemetry!Document(e))
           IN  GoodPage(q) /\ q.snapshot = p.snapshot /\ Shows(q, e)
  <1> DEFINE next == Telemetry!WithEvent(p.shown, e)
             q == Received(p, Telemetry!Document(e))
  <1>1. p \in Pages /\ p.shown \in Seq(Telemetry!Events) /\ Len(p.shown) <= MaxShown /\ Chained(p.shown)
    BY DEF GoodPage, Pages
  <1>2. /\ next \in Seq(Telemetry!Events) /\ Len(next) <= MaxShown /\ Chained(next)
        /\ next # <<>> /\ next[Len(next)] = e
        /\ \A i \in 1..Len(next) : next[i] = e \/ \E j \in 1..Len(p.shown) : next[i] = p.shown[j]
    BY <1>1, WithEventKeeps
  <1> HIDE DEF next
  <1>3. q = [p EXCEPT !.shown = next]
    BY DEF Received, Telemetry!Document, next
  <1>4. q \in Pages /\ q.snapshot = p.snapshot /\ q.shown = next
    BY <1>1, <1>2, <1>3 DEF Pages
  <1>5. \A i \in 1..Len(next) : next[i].boot = p.snapshot.boot
    BY <1>2 DEF GoodPage, AdmittedBy
  <1>6. q.snapshot.active
    BY <1>4 DEF AdmittedBy
  <1> QED
    BY <1>2, <1>4, <1>5, <1>6 DEF GoodPage, Shows

LEMMA NoneShown == <<>> \in Seq(Telemetry!Events) /\ Len(<<>>) = 0 /\ Chained(<<>>)
  BY DEF Chained

\* A snapshot is kept, with the events if it still names their subscription.
LEMMA SnapshotReceived ==
    ASSUME NEW p, GoodPage(p), NEW m \in Telemetry!Messages, m.kind = "Snapshot"
    PROVE  LET q == Received(p, m)
           IN  /\ GoodPage(q) /\ q.snapshot = m
               /\ q.shown = IF m.active /\ (p.shown = <<>> \/ p.snapshot.boot = m.boot)
                              THEN p.shown ELSE <<>>
  <1> DEFINE kept == m.active /\ (p.shown = <<>> \/ p.shown[1].boot = m.boot)
             q == Received(p, m)
  <1>1. /\ p \in Pages /\ p.shown \in Seq(Telemetry!Events) /\ Len(p.shown) <= MaxShown
        /\ Chained(p.shown) /\ \A i \in 1..Len(p.shown) : p.shown[i].boot = p.snapshot.boot
    BY DEF GoodPage, Pages
  <1>2. q = [snapshot |-> m, shown |-> IF kept THEN p.shown ELSE <<>>]
    BY DEF Received
  <1>3. p.shown # <<>> => p.shown[1].boot = p.snapshot.boot
    BY <1>1
  <1>4. q \in Pages /\ q.snapshot = m
    BY <1>1, <1>2, NoneShown DEF Pages
  <1>5. CASE kept
    BY <1>1, <1>2, <1>3, <1>4, <1>5 DEF GoodPage
  <1>6. CASE ~ kept
    <2>1. q.shown = <<>>
      BY <1>2, <1>6
    <2> QED
      BY <1>3, <1>4, <1>6, <2>1, NoneShown, BoundAssumption DEF GoodPage
  <1> QED
    BY <1>5, <1>6

LEMMA LeadsFurther ==
    ASSUME NEW p, NEW messages \in Seq(Telemetry!Messages), NEW last, Leads(p, messages, last),
           NEW m \in Telemetry!Messages, GoodPage(Received(last, m))
    PROVE  Leads(p, Append(messages, m), Received(last, m))
  <1>1. PICK views \in [0..Len(messages) -> Pages] :
          /\ views[0] = p
          /\ \A k \in 1..Len(messages) : views[k] = Received(views[k - 1], messages[k])
          /\ \A k \in 0..Len(messages) : GoodPage(views[k])
          /\ views[Len(messages)] = last
    BY DEF Leads
  <1> DEFINE n == Len(messages)
             all == Append(messages, m)
             more == [k \in 0..Len(all) |-> IF k = n + 1 THEN Received(last, m) ELSE views[k]]
  <1>2. /\ n \in Nat /\ Len(all) = n + 1 /\ all[n + 1] = m
        /\ \A k \in 1..n : all[k] = messages[k]
    OBVIOUS
  <1>3. more \in [0..Len(all) -> Pages] /\ more[0] = p
    BY <1>1, <1>2 DEF GoodPage
  <1>4. \A k \in 1..Len(all) : more[k] = Received(more[k - 1], all[k])
    BY <1>1, <1>2
  <1>5. \A k \in 0..Len(all) : GoodPage(more[k])
    BY <1>1, <1>2
  <1>6. more[Len(all)] = Received(last, m)
    BY <1>2
  <1> HIDE DEF more, all
  <1> QED
    BY <1>3, <1>4, <1>5, <1>6 DEF Leads, all

LEMMA LeadsOn ==
    ASSUME NEW p, NEW messages \in Seq(Telemetry!Messages), NEW last, Leads(p, messages, last),
           messages # <<>>
    PROVE  Leads(Received(p, Head(messages)), Tail(messages), last)
  <1>1. PICK views \in [0..Len(messages) -> Pages] :
          /\ views[0] = p
          /\ \A k \in 1..Len(messages) : views[k] = Received(views[k - 1], messages[k])
          /\ \A k \in 0..Len(messages) : GoodPage(views[k])
          /\ views[Len(messages)] = last
    BY DEF Leads
  <1> DEFINE n == Len(messages)
             rest == Tail(messages)
             fewer == [k \in 0..Len(rest) |-> views[k + 1]]
  <1>2. /\ n \in Nat \ {0} /\ Len(rest) = n - 1 /\ Head(messages) = messages[1]
        /\ \A k \in 1..Len(rest) : rest[k] = messages[k + 1]
    BY HeadTailProperties
  <1>3. \A k \in 0..Len(rest) : k + 1 \in 1..n
    BY <1>2
  <1>4. fewer \in [0..Len(rest) -> Pages] /\ fewer[0] = Received(p, Head(messages))
    BY <1>1, <1>2, <1>3
  <1>5. \A k \in 1..Len(rest) : fewer[k] = Received(fewer[k - 1], rest[k])
    <2> SUFFICES ASSUME NEW k \in 1..Len(rest)
                 PROVE  fewer[k] = Received(fewer[k - 1], rest[k])
      OBVIOUS
    <2>1. k \in 0..Len(rest) /\ k - 1 \in 0..Len(rest) /\ (k - 1) + 1 = k /\ (k + 1) - 1 = k
      BY <1>2
    <2>2. fewer[k] = views[k + 1] /\ fewer[k - 1] = views[k]
      BY <2>1
    <2> QED
      BY <1>1, <1>2, <1>3, <2>1, <2>2
  <1>6. \A k \in 0..Len(rest) : GoodPage(fewer[k])
    BY <1>1, <1>3
  <1>7. fewer[Len(rest)] = last
    BY <1>1, <1>2
  <1> HIDE DEF fewer
  <1> QED
    BY <1>4, <1>5, <1>6, <1>7 DEF Leads

LEMMA LeadsFrom ==
    ASSUME NEW p, NEW messages \in Seq(Telemetry!Messages), NEW last, Leads(p, messages, last)
    PROVE  GoodPage(p) /\ GoodPage(last)
  BY DEF Leads

LEMMA LeadsNowhere ==
    ASSUME NEW p, GoodPage(p)
    PROVE  Leads(p, <<>>, p)
  <1> DEFINE views == [k \in 0..0 |-> p]
  <1>1. Len(<<>>) = 0 /\ p \in Pages
    BY DEF GoodPage
  <1>2. views \in [0..Len(<<>>) -> Pages] /\ \A k \in 0..Len(<<>>) : views[k] = p
    BY <1>1
  <1> HIDE DEF views
  <1> QED
    BY <1>1, <1>2 DEF Leads

\* What the last page shows last, the page shows already or a document under way brings.
LEMMA ShownOrUnderWay ==
    ASSUME NEW p, NEW messages \in Seq(Telemetry!Messages), NEW last, Leads(p, messages, last),
           \A i \in 1..Len(messages) :
             messages[i].kind = "Document" => messages[i] = Telemetry!Document(messages[i].event),
           NEW e, Shows(last, e)
    PROVE  Shows(p, e) \/ \E i \in 1..Len(messages) : messages[i] = Telemetry!Document(e)
  <1>1. PICK views \in [0..Len(messages) -> Pages] :
          /\ views[0] = p
          /\ \A k \in 1..Len(messages) : views[k] = Received(views[k - 1], messages[k])
          /\ \A k \in 0..Len(messages) : GoodPage(views[k])
          /\ views[Len(messages)] = last
    BY DEF Leads
  <1> DEFINE T == {k \in 0..Len(messages) : Shows(views[k], e)}
  <1>2. T \in SUBSET Nat /\ Len(messages) \in T
    BY <1>1
  <1>3. PICK k \in T : \A n \in T : k <= n
    BY <1>2, SmallestOf
  <1>4. CASE k = 0
    BY <1>1, <1>3, <1>4
  <1>5. CASE k # 0
    <2> DEFINE before == views[k - 1]
               m == messages[k]
    <2>1. k \in 1..Len(messages) /\ k - 1 \in 0..Len(messages) /\ k - 1 \notin T
      BY <1>3, <1>5
    <2>2. /\ views[k] = Received(before, m) /\ Shows(views[k], e) /\ ~ Shows(before, e)
          /\ GoodPage(before)
      BY <1>1, <1>3, <2>1
    <2>3. m \in Telemetry!Messages
      BY <2>1
    <2> HIDE DEF before
    <2>4. CASE m.kind = "Document"
      <3>1. m = Telemetry!Document(m.event)
        BY <2>1, <2>4
      <3>2. before \in Pages /\ before.shown \in Seq(Telemetry!Events) /\ m.event \in Telemetry!Events
        BY <2>2, <2>3 DEF GoodPage, Pages, Telemetry!Messages
      <3>3. AdmittedBy(before, m.event)
        <4> SUFFICES ASSUME ~ AdmittedBy(before, m.event)
                     PROVE  FALSE
          OBVIOUS
        <4>1. Received(before, m).shown = before.shown
          BY <2>4, <3>2 DEF Received, Pages
        <4> QED
          BY <2>2, <4>1 DEF Shows
      <3>4. views[k].shown = Telemetry!WithEvent(before.shown, m.event)
        BY <2>2, <2>4, <3>2, <3>3 DEF Received, Pages
      <3> DEFINE base == IF Len(before.shown) = MaxShown THEN Tail(before.shown) ELSE before.shown
      <3>5. base \in Seq(Telemetry!Events)
        BY <3>2, HeadTailProperties, BoundAssumption
      <3>6. views[k].shown = Append(base, m.event)
        BY <3>4 DEF Telemetry!WithEvent
      <3> HIDE DEF base
      <3>7. e = m.event
        BY <2>2, <3>2, <3>5, <3>6 DEF Shows
      <3> QED
        BY <2>1, <3>1, <3>7
    <2>5. CASE m.kind # "Document"
      <3>1. views[k].shown \in {before.shown, <<>>}
        BY <2>2, <2>5 DEF Received
      <3> QED
        BY <2>2, <3>1 DEF Shows
    <2> QED
      BY <2>4, <2>5
  <1> QED
    BY <1>4, <1>5

\* What the variables hold.
LEMMA TelemetryTypes ==
    ASSUME Telemetry!TypeOK
    PROVE  /\ machine.progress \in Telemetry!Events /\ machine.boot \in 0..MaxBoots
           /\ device.next \in 1..(MaxEvents + 1) /\ device.dropped \in 0..MaxEvents
           /\ device.retained \in Telemetry!Events
           /\ response.event \in Telemetry!Events /\ event \in Telemetry!Events
           /\ session \in 1..MaxBoots /\ boot \in 1..MaxBoots
           /\ \A q \in late \cup {request} : q \in Telemetry!Requests /\ q.ack \in 0..MaxEvents /\ q.boot \in 0..MaxBoots
           /\ \A e \in Telemetry!Events :
                e.boot \in 0..MaxBoots /\ e.seq \in 0..MaxEvents /\ e.dropped \in 0..MaxEvents
           /\ MaxEvents \in Nat /\ MaxBoots \in Nat
  BY BoundAssumption DEF Telemetry!TypeOK, Telemetry!Requests, Telemetry!Events

TelemetryPage == <<machine, event, step, session, posted, page>>

\* What happens at the device changes nothing that the page knows.
LEMMA PageKept ==
    ASSUME Documents, PageCatchesUp, UNCHANGED TelemetryPage
    PROVE  Documents' /\ PageCatchesUp'
  BY DEF Documents, PageCatchesUp, Caught, TelemetryPage

-----------------------------------------------------------------------------
(* Steps of the device.                                                    *)

\* A device that acknowledges no more than e, or samples once more, keeps e's place.
Acknowledges(ack) ==
    /\ ack # 0 /\ ack = device.retained.seq
    /\ device' = [device EXCEPT !.retained = Telemetry!NoEvent]
Samples ==
    LET dropped == device.dropped + (IF device.retained = Telemetry!NoEvent THEN 0 ELSE 1)
    IN  device' = [device EXCEPT !.next = @ + 1, !.dropped = dropped,
                                 !.retained = Telemetry!Event(boot, device.next, dropped)]
Subscribed == device' = [device EXCEPT !.sub = TRUE]

LEMMA AnchorKept ==
    ASSUME Telemetry!TypeOK, DeviceCounts, boot' = boot, NEW e, Genuine(e), Anchored(e),
           \/ \E ack \in 0..e.seq : Acknowledges(ack)
           \/ Samples
           \/ Subscribed
    PROVE  Anchored(e)'
  <1>0. /\ e.seq \in Nat \ {0} /\ e.dropped \in Nat /\ e.boot \in Nat
        /\ device.next \in Nat /\ device.dropped \in Nat /\ device.retained.seq \in Nat
        /\ Telemetry!NoEvent.seq = 0
    BY TelemetryTypes DEF Genuine, Telemetry!NoEvent, Telemetry!Event
  <1>1. device \in [sub : BOOLEAN, next : 1..(MaxEvents + 1), dropped : 0..MaxEvents,
                    retained : Telemetry!Events]
    BY DEF Telemetry!TypeOK
  <1>2. ASSUME NEW ack \in 0..e.seq, Acknowledges(ack)
        PROVE  Anchored(e)'
    <2>1. /\ device'.next = device.next /\ device'.dropped = device.dropped
          /\ device'.retained = Telemetry!NoEvent
      BY <1>1, <1>2 DEF Acknowledges
    <2>2. device.retained # Telemetry!NoEvent /\ device.retained.seq = ack
      BY <1>0, <1>2 DEF Acknowledges
    <2>3. device.retained = Telemetry!Event(boot, device.next - 1, device.dropped)
      BY <2>2 DEF DeviceCounts
    <2>4. device.retained.seq = device.next - 1
      BY <2>3 DEF Telemetry!Event
    <2>5. e.seq = device.retained.seq
      BY <1>0, <2>2, <2>4 DEF Anchored
    <2>6. e = device.retained
      BY <2>5 DEF Anchored
    <2>7. e.dropped = device.dropped /\ e.seq = device.next - 1
      BY <2>3, <2>6 DEF Telemetry!Event
    <2> QED
      BY <1>0, <2>1, <2>7 DEF Anchored, DeviceRank, Rank
  <1>3. CASE Samples
    <2> DEFINE dropped == device.dropped + (IF device.retained = Telemetry!NoEvent THEN 0 ELSE 1)
    <2>1. /\ device'.next = device.next + 1 /\ device'.dropped = dropped
          /\ device'.retained = Telemetry!Event(boot, device.next, dropped)
      BY <1>1, <1>3 DEF Samples
    <2>2. device'.retained.seq = device.next /\ device'.retained # Telemetry!NoEvent
      BY <1>0, <1>1, <2>1 DEF Telemetry!Event, Telemetry!NoEvent
    <2>3. DeviceRank' = DeviceRank
      BY <1>0, <2>1, <2>2 DEF DeviceRank
    <2> QED
      BY <1>0, <2>1, <2>2, <2>3 DEF Anchored
  <1>4. CASE Subscribed
    <2>1. /\ device'.next = device.next /\ device'.dropped = device.dropped
          /\ device'.retained = device.retained
      BY <1>1, <1>4 DEF Subscribed
    <2> QED
      BY <2>1 DEF Anchored, DeviceRank, Rank
  <1> QED
    BY <1>2, <1>3, <1>4

LEMMA DeviceCountsKept ==
    ASSUME Telemetry!TypeOK, DeviceCounts, boot' = boot,
           (\E ack : Acknowledges(ack)) \/ Samples \/ Subscribed
    PROVE  DeviceCounts' /\ device'.next >= device.next
  <1>1. device \in [sub : BOOLEAN, next : 1..(MaxEvents + 1), dropped : 0..MaxEvents,
                    retained : Telemetry!Events] /\ MaxEvents \in Nat
    BY BoundAssumption DEF Telemetry!TypeOK
  <1>2. CASE \E ack : Acknowledges(ack)
    BY <1>1, <1>2 DEF DeviceCounts, Acknowledges
  <1>3. CASE Samples
    <2> DEFINE dropped == device.dropped + (IF device.retained = Telemetry!NoEvent THEN 0 ELSE 1)
    <2>1. /\ device'.next = device.next + 1 /\ device'.dropped = dropped
          /\ device'.retained = Telemetry!Event(boot, device.next, dropped)
      BY <1>1, <1>3 DEF Samples
    <2>2. dropped < device.next
      BY <1>1 DEF DeviceCounts
    <2> QED
      BY <1>1, <2>1, <2>2 DEF DeviceCounts
  <1>4. CASE Subscribed
    BY <1>1, <1>4 DEF DeviceCounts, Subscribed
  <1> QED
    BY <1>2, <1>3, <1>4

LEMMA TelemetryArrives ==
    ASSUME TelemetryParts, NEW q \in late \cup {request}, Telemetry!Arrive(q)
    PROVE  TelemetryParts'
  <1>1. /\ q.boot = boot /\ Telemetry!Effect(q) # device /\ device' = Telemetry!Effect(q)
        /\ UNCHANGED TelemetryPage /\ UNCHANGED <<request, response, late, boot, losses, reloads>>
    BY DEF Telemetry!Arrive, Telemetry!worker, Telemetry!wire, TelemetryPage
  <1>2. Telemetry!TypeOK /\ DeviceCounts /\ RequestsOfSession /\ MachineOfSession /\ EventsAnchored
    BY DEF TelemetryParts
  <1>3. Acknowledges(q.ack) \/ Subscribed
    BY <1>1 DEF Telemetry!Effect, Acknowledges, Subscribed
  <1>4. DeviceCounts' /\ device'.next >= device.next
    BY <1>1, <1>2, <1>3, DeviceCountsKept
  <1>5. Telemetry!TypeOK'
    <2>1. device' \in [sub : BOOLEAN, next : 1..(MaxEvents + 1), dropped : 0..MaxEvents,
                       retained : Telemetry!Events]
      BY <1>2, <1>3, TelemetryValues DEF Telemetry!TypeOK, Acknowledges, Subscribed
    <2> QED
      BY <1>1, <1>2, <2>1 DEF Telemetry!TypeOK, TelemetryPage
  <1>6. MachineOfSession'
    BY <1>1, <1>2 DEF MachineOfSession, TelemetryPage
  <1>7. RequestsOfSession'
    <2>1. \A r \in late \cup {request} : r.boot = boot => r.ack < device'.next
      BY <1>2, <1>3, TelemetryTypes DEF RequestsOfSession, Acknowledges, Subscribed, Telemetry!TypeOK
    <2> QED
      BY <1>1, <1>2, <2>1 DEF RequestsOfSession, TelemetryPage
  <1>8. ASSUME NEW e, Genuine(e), Anchored(e), q.ack <= e.seq
        PROVE  Anchored(e)'
    <2>1. Acknowledges(q.ack) => \E ack \in 0..e.seq : Acknowledges(ack)
      BY <1>2, <1>8, TelemetryTypes DEF Genuine
    <2> QED
      BY <1>1, <1>2, <1>3, <1>8, <2>1, AnchorKept
  <1>9. EventsAnchored'
    <2>1. session = boot /\ machine.progress # Telemetry!NoEvent => Anchored(machine.progress)'
      BY <1>1, <1>2, <1>8 DEF EventsAnchored, MachineOfSession, RequestsOfSession, TelemetryPage
    <2>2. response.event # Telemetry!NoEvent /\ session = boot => Anchored(response.event)'
      BY <1>1, <1>2, <1>8 DEF EventsAnchored
    <2> QED
      BY <1>1, <1>2, <2>1, <2>2 DEF EventsAnchored, TelemetryPage, Anchored
  <1> QED
    BY <1>1, <1>4, <1>5, <1>6, <1>7, <1>9, PageKept DEF TelemetryParts

LEMMA TelemetrySamples ==
    ASSUME TelemetryParts, Telemetry!Sample
    PROVE  TelemetryParts'
  <1>1. /\ device.next <= MaxEvents /\ Samples
        /\ UNCHANGED TelemetryPage /\ UNCHANGED <<request, response, late, boot, losses, reloads>>
    BY DEF Telemetry!Sample, Samples, Telemetry!worker, Telemetry!wire, TelemetryPage
  <1>2. Telemetry!TypeOK /\ DeviceCounts /\ RequestsOfSession /\ MachineOfSession /\ EventsAnchored
    BY DEF TelemetryParts
  <1>4. DeviceCounts' /\ device'.next >= device.next
    BY <1>1, <1>2, DeviceCountsKept
  <1>5. Telemetry!TypeOK'
    <2>1. device' \in [sub : BOOLEAN, next : 1..(MaxEvents + 1), dropped : 0..MaxEvents,
                       retained : Telemetry!Events]
      <3> DEFINE dropped == device.dropped + (IF device.retained = Telemetry!NoEvent THEN 0 ELSE 1)
      <3>1. dropped \in 0..MaxEvents
        BY <1>1, <1>2, TelemetryTypes DEF DeviceCounts
      <3>2. Telemetry!Event(boot, device.next, dropped) \in Telemetry!Events
        BY <1>1, <1>2, <3>1, TelemetryTypes DEF Telemetry!Event, Telemetry!Events
      <3>3. device.next + 1 \in 1..(MaxEvents + 1)
        BY <1>1, <1>2, TelemetryTypes
      <3> HIDE DEF dropped
      <3>4. device \in [sub : BOOLEAN, next : 1..(MaxEvents + 1), dropped : 0..MaxEvents,
                        retained : Telemetry!Events]
        BY <1>2 DEF Telemetry!TypeOK
      <3>5. device' = [device EXCEPT !.next = @ + 1, !.dropped = dropped,
                                     !.retained = Telemetry!Event(boot, device.next, dropped)]
        BY <1>1 DEF Samples, dropped
      <3> QED
        BY <3>1, <3>2, <3>3, <3>4, <3>5
    <2> QED
      BY <1>1, <1>2, <2>1 DEF Telemetry!TypeOK, TelemetryPage
  <1>6. MachineOfSession'
    BY <1>1, <1>2 DEF MachineOfSession, TelemetryPage
  <1>7. RequestsOfSession'
    <2>1. \A r \in late \cup {request} : r.boot = boot => r.ack < device'.next
      BY <1>1, <1>2, TelemetryTypes DEF RequestsOfSession, Samples, Telemetry!TypeOK
    <2> QED
      BY <1>1, <1>2, <2>1 DEF RequestsOfSession, TelemetryPage
  <1>9. EventsAnchored'
    <2>1. session = boot /\ machine.progress # Telemetry!NoEvent => Anchored(machine.progress)'
      BY <1>1, <1>2, AnchorKept DEF EventsAnchored, MachineOfSession, TelemetryPage
    <2>2. response.event # Telemetry!NoEvent /\ session = boot => Anchored(response.event)'
      BY <1>1, <1>2, AnchorKept DEF EventsAnchored
    <2> QED
      BY <1>1, <1>2, <2>1, <2>2 DEF EventsAnchored, TelemetryPage, Anchored
  <1> QED
    BY <1>1, <1>4, <1>5, <1>6, <1>7, <1>9, PageKept DEF TelemetryParts

LEMMA TelemetryRestarts ==
    ASSUME TelemetryParts, Telemetry!Restart
    PROVE  TelemetryParts'
  <1>1. /\ boot < MaxBoots /\ boot' = boot + 1 /\ device' = Telemetry!NoSubscription
        /\ UNCHANGED TelemetryPage /\ UNCHANGED <<request, response, late, losses, reloads>>
    BY DEF Telemetry!Restart, Telemetry!worker, Telemetry!wire, TelemetryPage
  <1>2. Telemetry!TypeOK /\ DeviceCounts /\ RequestsOfSession /\ MachineOfSession /\ EventsAnchored
    BY DEF TelemetryParts
  <1>3. session < boot' /\ boot' \in 1..MaxBoots
    BY <1>1, <1>2, TelemetryTypes DEF MachineOfSession
  <1>4. DeviceCounts'
    BY <1>1 DEF DeviceCounts, Telemetry!NoSubscription
  <1>5. Telemetry!TypeOK'
    <2>1. device' \in [sub : BOOLEAN, next : 1..(MaxEvents + 1), dropped : 0..MaxEvents,
                       retained : Telemetry!Events]
      BY <1>1, TelemetryValues, BoundAssumption DEF Telemetry!NoSubscription
    <2> QED
      BY <1>1, <1>2, <1>3, <2>1 DEF Telemetry!TypeOK, TelemetryPage
  <1>6. MachineOfSession'
    BY <1>1, <1>2, <1>3, TelemetryTypes DEF MachineOfSession, TelemetryPage
  <1>7. RequestsOfSession'
    <2>1. \A r \in late \cup {request} : r.boot # boot'
      BY <1>2, <1>3, TelemetryTypes DEF RequestsOfSession
    <2> QED
      BY <1>1, <1>2, <2>1 DEF RequestsOfSession, TelemetryPage
  <1>9. EventsAnchored'
    <2>1. session # boot'
      BY <1>2, <1>3, TelemetryTypes
    <2> QED
      BY <1>1, <1>2, <2>1 DEF EventsAnchored, TelemetryPage
  <1> QED
    BY <1>1, <1>4, <1>5, <1>6, <1>7, <1>9, PageKept DEF TelemetryParts

\* The retained event is the one the machine has, or may follow it.
LEMMA TelemetryAnswers ==
    ASSUME TelemetryParts, Telemetry!DeviceAnswers
    PROVE  TelemetryParts'
  <1>1. /\ request # Telemetry!NoRequest /\ request.boot = boot
        /\ UNCHANGED TelemetryPage /\ UNCHANGED <<request, late, device, boot, reloads>>
        /\ losses' \in {losses, losses + 1} /\ (losses' # losses => losses < MaxLosses)
        /\ \/ response'.event = Telemetry!NoEvent
           \/ request.op = "Poll" /\ response'.event = device.retained
    BY DEF Telemetry!DeviceAnswers, Telemetry!Response, Telemetry!worker, TelemetryPage
  <1>2. Telemetry!TypeOK /\ DeviceCounts /\ RequestsOfSession /\ MachineOfSession /\ EventsAnchored
    BY DEF TelemetryParts
  <1>3. step = "Driving" /\ session = boot
    BY <1>1, <1>2 DEF RequestsOfSession
  <1>4. DeviceCounts'
    BY <1>1, <1>2 DEF DeviceCounts
  <1>5. Telemetry!TypeOK'
    <2>1. response' \in [status : {"None", "Ok", "NotFound", "Refused"}, event : Telemetry!Events]
      BY <1>2, TelemetryTypes, TelemetryValues DEF Telemetry!DeviceAnswers, Telemetry!Response
    <2>2. losses' \in 0..MaxLosses
      BY <1>1, <1>2, BoundAssumption DEF Telemetry!TypeOK
    <2> QED
      BY <1>1, <1>2, <2>1, <2>2 DEF Telemetry!TypeOK, TelemetryPage
  <1>6. MachineOfSession'
    BY <1>1, <1>2 DEF MachineOfSession, TelemetryPage
  <1>7. RequestsOfSession'
    BY <1>1, <1>2 DEF RequestsOfSession, TelemetryPage
  <1>9. EventsAnchored'
    <2> DEFINE e == device.retained
               p == machine.progress
    <2>1. ASSUME e # Telemetry!NoEvent, request.op = "Poll"
          PROVE  /\ Genuine(e) /\ e.boot = session /\ machine.pending = "PollEvent" /\ Anchored(e)
                 /\ \A q \in late \cup {request} : q.boot = session => q.ack <= e.seq
                 /\ p \in {Telemetry!NoEvent, e} \/ Continues(p, e)
      <3>1. e = Telemetry!Event(boot, device.next - 1, device.dropped) /\ device.dropped + 1 < device.next
        BY <1>2, <2>1 DEF DeviceCounts
      <3>2. e.boot = boot /\ e.seq = device.next - 1 /\ e.dropped = device.dropped
        BY <3>1 DEF Telemetry!Event
      <3>3. /\ device.next \in Nat /\ device.dropped \in Nat /\ e \in Telemetry!Events
            /\ p.seq \in Nat /\ p.dropped \in Nat /\ boot # 0
        BY <1>2, TelemetryTypes
      <3>4. Genuine(e)
        BY <3>1, <3>2, <3>3 DEF Genuine
      <3>5. DeviceRank = Rank(e)
        BY <2>1, <3>2, <3>3 DEF DeviceRank, Rank
      <3>6. Anchored(e)
        BY <3>2, <3>3, <3>5 DEF Anchored, Rank
      <3>7. \A q \in late \cup {request} : q.boot = session => q.ack <= e.seq
        BY <1>2, <1>3, <3>2, <3>3, TelemetryTypes DEF RequestsOfSession
      <3>8. p # Telemetry!NoEvent /\ p # e => Continues(p, e)
        <4> SUFFICES ASSUME p # Telemetry!NoEvent, p # e
                     PROVE  Continues(p, e)
          OBVIOUS
        <4>1. Anchored(p)
          BY <1>2, <1>3 DEF EventsAnchored
        <4>2. p.seq # e.seq
          BY <4>1 DEF Anchored
        <4> QED
          BY <3>2, <3>3, <3>5, <4>1, <4>2 DEF Anchored, Continues
      <3> QED
        BY <1>2, <1>3, <2>1, <3>2, <3>4, <3>6, <3>7, <3>8 DEF RequestsOfSession
    <2>2. Anchored(p) <=> Anchored(p)'
      BY <1>1 DEF Anchored, DeviceRank, Rank, TelemetryPage
    <2>3. Anchored(e) <=> Anchored(e)'
      BY <1>1 DEF Anchored, DeviceRank, Rank, TelemetryPage
    <2>4. CASE response'.event = Telemetry!NoEvent
      BY <1>1, <1>2, <1>3, <2>2, <2>4 DEF EventsAnchored, TelemetryPage
    <2>5. CASE response'.event # Telemetry!NoEvent
      <3>1. response'.event = e /\ request.op = "Poll" /\ e # Telemetry!NoEvent
        BY <1>1, <2>5
      <3>2. UNCHANGED <<late, request, session, machine, step, boot>>
        BY <1>1 DEF TelemetryPage
      <3>3. (session = boot /\ p # Telemetry!NoEvent => Anchored(p)')
        BY <1>2, <2>2 DEF EventsAnchored
      <3>4. Anchored(response.event)'
        BY <2>1, <2>3, <3>1, <1>1 DEF Anchored
      <3> QED
        BY <1>3, <2>1, <3>1, <3>2, <3>3, <3>4 DEF EventsAnchored
    <2> QED
      BY <2>4, <2>5
  <1> QED
    BY <1>1, <1>4, <1>5, <1>6, <1>7, <1>9, PageKept DEF TelemetryParts

-----------------------------------------------------------------------------
(* Steps of the worker and of the page.                                    *)

\* A step of the worker that posts nothing.
LEMMA CaughtUp ==
    ASSUME Documents, PageCatchesUp, UNCHANGED <<posted, page>>,
           \A p \in Pages : GoodPage(p) /\ Caught(p) => Caught(p)'
    PROVE  Documents' /\ PageCatchesUp'
  <1>1. PICK last \in Pages : Leads(page, posted, last) /\ Caught(last)
    BY DEF PageCatchesUp
  <1>2. GoodPage(last)
    BY <1>1 DEF Leads
  <1>3. Caught(last)'
    BY <1>1, <1>2
  <1>4. Leads(page', posted', last)
    BY <1>1
  <1> QED
    BY <1>3, <1>4 DEF PageCatchesUp, Documents

LEMMA TelemetryDrives ==
    ASSUME TelemetryParts, Telemetry!Drive
    PROVE  TelemetryParts'
  <1> DEFINE m == IF machine = Telemetry!NoMachine THEN Telemetry!NewMachine(session) ELSE machine
             action == Telemetry!NextAction(m)
  <1>1. /\ step = "Idle" /\ session = boot /\ step' = "Driving"
        /\ machine' = [m EXCEPT !.pending = action] /\ request' = Telemetry!RequestOf(m)
        /\ UNCHANGED <<event, session, response, late, posted, page, device, boot, losses, reloads>>
    BY DEF Telemetry!Drive, Telemetry!env
  <1>2. Telemetry!TypeOK /\ DeviceCounts /\ RequestsOfSession /\ MachineOfSession /\ EventsAnchored
        /\ Documents /\ PageCatchesUp
    BY DEF TelemetryParts
  <1> DEFINE Machines == [boot : 0..MaxBoots, phase : Telemetry!Phases, progress : Telemetry!Events,
                          pending : {"None", "Subscribe", "PollSubscribe", "PollEvent"}]
  <1>3. /\ m \in Machines /\ m.boot = session /\ m.phase # "None"
        /\ m.progress = machine.progress
        /\ (m.progress # Telemetry!NoEvent => m.phase = "Active")
        /\ (m.phase = "Active" <=> machine.phase = "Active")
    <2>1. CASE machine = Telemetry!NoMachine
      <3>1. m = [boot |-> session, phase |-> "Subscribing", pending |-> "None",
                 progress |-> Telemetry!NoEvent]
        BY <2>1 DEF Telemetry!NewMachine, Telemetry!NoMachine
      <3>2. machine.progress = Telemetry!NoEvent /\ machine.phase = "None"
        BY <2>1 DEF Telemetry!NoMachine
      <3> QED
        BY <1>2, <3>1, <3>2, TelemetryTypes, TelemetryValues DEF Telemetry!Phases
    <2>2. CASE machine # Telemetry!NoMachine
      BY <1>2, <2>2 DEF MachineOfSession, Telemetry!TypeOK
    <2> QED
      BY <2>1, <2>2
  <1> HIDE DEF m
  <1>4. /\ m.phase = "Subscribing" => action = "Subscribe"
        /\ m.phase = "ReconcilingSubscribe" => action = "PollSubscribe"
        /\ m.phase = "Active" => action = "PollEvent"
        /\ m.phase \in {"Subscribing", "ReconcilingSubscribe", "Active"}
    BY <1>3 DEF Telemetry!NextAction, Telemetry!Phases
  <1> HIDE DEF action
  <1>5. /\ machine' \in Machines /\ machine'.phase = m.phase /\ machine'.boot = session
        /\ machine'.progress = machine.progress /\ machine'.pending = action
    BY <1>1, <1>3, <1>4
  <1>6. request' = [op |-> (CASE action = "Subscribe" -> "Subscribe"
                              [] action = "PollSubscribe" -> "Status"
                              [] action = "PollEvent" -> "Poll"),
                    ack |-> IF action = "PollEvent" THEN machine.progress.seq ELSE 0, boot |-> session]
    <2>1. CASE action = "Subscribe"
      BY <1>1, <2>1 DEF Telemetry!RequestOf, Telemetry!Request, action
    <2>2. CASE action = "PollSubscribe"
      BY <1>1, <2>2 DEF Telemetry!RequestOf, Telemetry!Request, action
    <2>3. CASE action = "PollEvent"
      BY <1>1, <1>3, <2>3 DEF Telemetry!RequestOf, Telemetry!Request, Telemetry!Acked, action
    <2> QED
      BY <1>4, <2>1, <2>2, <2>3
  <1>7. /\ request' \in Telemetry!Requests /\ request' # Telemetry!NoRequest
        /\ request'.boot = session
        /\ (request'.op = "Poll" <=> action = "PollEvent")
        /\ request'.ack \in {0, machine.progress.seq}
    <2>1. machine.progress.seq \in 0..MaxEvents /\ session \in 1..MaxBoots /\ MaxEvents \in Nat /\ MaxBoots \in Nat
      BY <1>2, TelemetryTypes
    <2> QED
      BY <1>4, <1>6, <2>1 DEF Telemetry!Requests, Telemetry!NoRequest
  <1>8. Telemetry!TypeOK'
    BY <1>1, <1>2, <1>5, <1>7 DEF Telemetry!TypeOK
  <1>9. DeviceCounts'
    BY <1>1, <1>2 DEF DeviceCounts
  <1>10. MachineOfSession'
    <2>1. machine' # Telemetry!NoMachine
      BY <1>3, <1>5 DEF Telemetry!NoMachine
    <2> QED
      BY <1>1, <1>2, <1>3, <1>4, <1>5, <2>1 DEF MachineOfSession
  <1>11. RequestsOfSession'
    <2>1. machine.progress # Telemetry!NoEvent => machine.progress.seq < device.next
      BY <1>1, <1>2 DEF EventsAnchored, Anchored
    <2>2. Telemetry!NoEvent.seq = 0 /\ device.next \in Nat \ {0} /\ machine.progress.seq \in Nat
      BY <1>2, TelemetryTypes DEF Telemetry!NoEvent, Telemetry!Event
    <2>3. request'.ack < device.next /\ request'.ack <= machine.progress.seq
      BY <1>7, <2>1, <2>2
    <2>4. session <= session
      BY <1>2, TelemetryTypes
    <2> QED
      BY <1>1, <1>2, <1>5, <1>7, <2>3, <2>4 DEF RequestsOfSession
  <1>12. EventsAnchored'
    <2>1. response = Telemetry!NoResponse /\ response.event = Telemetry!NoEvent
      BY <1>1, <1>2 DEF EventsAnchored, Telemetry!NoResponse, Telemetry!Response
    <2> QED
      BY <1>1, <1>2, <1>5, <2>1 DEF EventsAnchored, Anchored, DeviceRank, Rank
  <1>13. ASSUME NEW p \in Pages, GoodPage(p), Caught(p)
         PROVE  Caught(p)'
    BY <1>1, <1>3, <1>4, <1>5, <1>13 DEF Caught
  <1> QED
    BY <1>1, <1>2, <1>8, <1>9, <1>10, <1>11, <1>12, <1>13, CaughtUp DEF TelemetryParts

LEMMA TelemetryAccepts ==
    ASSUME TelemetryParts, Telemetry!AcceptResponse
    PROVE  TelemetryParts'
  <1> DEFINE e == response.event
             takes == machine.pending = "PollEvent" /\ Telemetry!Advances(machine, e)
  <1>1. /\ response # Telemetry!NoResponse /\ step' = "Finishing"
        /\ machine' = Telemetry!Accepted(machine, response)
        /\ event' = IF machine'.progress # machine.progress THEN machine'.progress ELSE event
        /\ request' = Telemetry!NoRequest /\ response' = Telemetry!NoResponse
        /\ UNCHANGED <<session, late, posted, page, device, boot, losses, reloads>>
    BY DEF Telemetry!AcceptResponse, Telemetry!env
  <1>2. Telemetry!TypeOK /\ DeviceCounts /\ RequestsOfSession /\ MachineOfSession /\ EventsAnchored
        /\ Documents /\ PageCatchesUp
    BY DEF TelemetryParts
  <1> DEFINE Machines == [boot : 0..MaxBoots, phase : Telemetry!Phases, progress : Telemetry!Events,
                          pending : {"None", "Subscribe", "PollSubscribe", "PollEvent"}]
  <1>3. step = "Driving" /\ machine.pending # "None" /\ machine \in Machines
    BY <1>1, <1>2 DEF EventsAnchored, MachineOfSession, Telemetry!TypeOK
  <1>4. /\ machine' \in Machines /\ machine'.boot = machine.boot /\ machine'.pending = "None"
        /\ machine'.phase = Telemetry!PhaseAfter(machine, response)
        /\ machine'.progress = IF takes THEN e ELSE machine.progress
    <2>1. Telemetry!PhaseAfter(machine, response) \in Telemetry!Phases
      BY <1>3 DEF Telemetry!PhaseAfter, Telemetry!Phases
    <2>2. e \in Telemetry!Events
      BY <1>2, TelemetryTypes
    <2> QED
      BY <1>1, <1>3, <2>1, <2>2 DEF Telemetry!Accepted
  <1>5. /\ machine.phase = "Active" /\ machine.pending = "PollEvent" => machine'.phase = "Active"
        /\ machine'.phase = "None" => machine.phase = "None"
        /\ machine.pending = "PollEvent" => machine'.phase = "Active"
        /\ machine'.phase \in {"Subscribing", "ReconcilingSubscribe"} =>
             machine.phase \in {"Subscribing", "ReconcilingSubscribe"} \/ machine.pending = "PollSubscribe"
    BY <1>2, <1>3, <1>4 DEF Telemetry!PhaseAfter, MachineOfSession, Telemetry!Phases
  <1>6. takes => /\ e # Telemetry!NoEvent /\ Genuine(e) /\ e.boot = session
                 /\ machine.phase = "Active" /\ e # machine.progress
                 /\ e.seq > machine.progress.seq /\ e.dropped >= machine.progress.dropped
                 /\ (session = boot => Anchored(e))
                 /\ \A q \in late \cup {request} : q.boot = session => q.ack <= e.seq
                 /\ machine.progress # Telemetry!NoEvent => Continues(machine.progress, e)
    <2> SUFFICES ASSUME takes
                 PROVE  /\ e # Telemetry!NoEvent /\ Genuine(e) /\ e.boot = session
                        /\ machine.phase = "Active" /\ e # machine.progress
                        /\ e.seq > machine.progress.seq /\ e.dropped >= machine.progress.dropped
                        /\ (session = boot => Anchored(e))
                        /\ \A q \in late \cup {request} : q.boot = session => q.ack <= e.seq
                        /\ machine.progress # Telemetry!NoEvent => Continues(machine.progress, e)
      OBVIOUS
    <2>1. e.seq > machine.progress.seq /\ e.dropped >= machine.progress.dropped
      BY DEF Telemetry!Advances
    <2>2. machine.progress.seq \in Nat /\ e.seq \in Nat /\ e # machine.progress /\ e # Telemetry!NoEvent
      <3>1. machine.progress.seq \in Nat /\ e.seq \in Nat
        BY <1>2, TelemetryTypes
      <3> QED
        BY <2>1, <3>1 DEF Telemetry!NoEvent, Telemetry!Event
    <2> QED
      BY <1>2, <2>1, <2>2 DEF EventsAnchored, MachineOfSession
  <1>7. Telemetry!TypeOK'
    <2>1. event' \in Telemetry!Events
      BY <1>1, <1>2, <1>4, TelemetryTypes
    <2>2. /\ Telemetry!NoRequest \in Telemetry!Requests
          /\ Telemetry!NoResponse \in [status : {"None", "Ok", "NotFound", "Refused"}, event : Telemetry!Events]
      BY TelemetryValues, BoundAssumption DEF Telemetry!NoRequest, Telemetry!Requests,
         Telemetry!NoResponse, Telemetry!Response
    <2> QED
      BY <1>1, <1>2, <1>4, <2>1, <2>2 DEF Telemetry!TypeOK
  <1>8. DeviceCounts'
    BY <1>1, <1>2 DEF DeviceCounts
  <1>9. MachineOfSession'
    <2>1. machine # Telemetry!NoMachine /\ machine' # Telemetry!NoMachine /\ machine'.phase # "None"
      <3>1. machine # Telemetry!NoMachine
        BY <1>3 DEF Telemetry!NoMachine
      <3>2. machine.phase # "None" /\ machine'.phase # "None"
        BY <1>2, <1>5, <3>1 DEF MachineOfSession
      <3> QED
        BY <3>1, <3>2 DEF Telemetry!NoMachine
    <2>2. machine'.progress # Telemetry!NoEvent =>
            Genuine(machine'.progress) /\ machine'.progress.boot = session /\ machine'.phase = "Active"
      <3>1. CASE takes
        BY <1>4, <1>5, <1>6, <3>1
      <3>2. CASE ~ takes
        BY <1>2, <1>3, <1>4, <1>5, <3>2 DEF MachineOfSession
      <3> QED
        BY <3>1, <3>2
    <2> QED
      BY <1>1, <1>2, <1>4, <2>1, <2>2 DEF MachineOfSession
  <1>10. RequestsOfSession'
    <2>1. \A q \in late : q.boot = session /\ machine'.progress # Telemetry!NoEvent => q.ack <= machine'.progress.seq
      BY <1>2, <1>4, <1>6 DEF RequestsOfSession
    <2>2. /\ Telemetry!NoRequest.boot = 0 /\ Telemetry!NoRequest.boot # session /\ 0 <= session
          /\ Telemetry!NoRequest.boot # boot
      BY <1>2, TelemetryTypes DEF Telemetry!NoRequest
    <2> QED
      BY <1>1, <1>2, <2>1, <2>2 DEF RequestsOfSession
  <1>11. EventsAnchored'
    <2>1. Telemetry!NoResponse.event = Telemetry!NoEvent
      BY DEF Telemetry!NoResponse, Telemetry!Response
    <2>2. session = boot /\ machine'.progress # Telemetry!NoEvent => Anchored(machine'.progress)
      BY <1>2, <1>4, <1>6 DEF EventsAnchored
    <2>3. Anchored(machine'.progress) => Anchored(machine.progress)'
      BY <1>1 DEF Anchored, DeviceRank, Rank
    <2> QED
      BY <1>1, <2>1, <2>2, <2>3 DEF EventsAnchored
  <1>12. ASSUME NEW p \in Pages, GoodPage(p), Caught(p)
         PROVE  Caught(p)'
    <2>1. event = Telemetry!NoEvent /\ (p.snapshot.active <=> machine.phase = "Active")
      BY <1>3, <1>12 DEF Caught
    <2>2. CASE takes
      <3>1. machine.phase = "Active" /\ machine'.phase = "Active" /\ machine'.progress = e /\ event' = e
        BY <1>1, <1>4, <1>5, <1>6, <2>2
      <3>2. /\ p.snapshot.active /\ p.snapshot.boot = session
            /\ \/ machine.progress = Telemetry!NoEvent /\ p.shown = <<>>
               \/ Shows(p, machine.progress)
            /\ p.snapshot.event.seq <= machine.progress.seq
            /\ p.snapshot.event.dropped <= machine.progress.dropped
        BY <1>12, <2>1, <3>1 DEF Caught
      <3>3. /\ p.snapshot.event.seq \in Nat /\ p.snapshot.event.dropped \in Nat
            /\ machine.progress.seq \in Nat /\ machine.progress.dropped \in Nat
            /\ e.seq \in Nat /\ e.dropped \in Nat
        <4>1. p.snapshot.event \in Telemetry!Events
          BY DEF Pages, Telemetry!Messages
        <4> QED
          BY <1>2, <4>1, TelemetryTypes
      <3>4. e.seq > p.snapshot.event.seq /\ e.dropped >= p.snapshot.event.dropped
        BY <1>6, <2>2, <3>2, <3>3
      <3>5. p.shown = <<>> \/ Continues(p.shown[Len(p.shown)], e)
        <4> SUFFICES ASSUME p.shown # <<>>
                     PROVE  Continues(p.shown[Len(p.shown)], e)
          OBVIOUS
        <4>1. Shows(p, machine.progress)
          BY <3>2
        <4>2. machine.progress # Telemetry!NoEvent
          <5>1. p.shown \in Seq(Telemetry!Events) /\ Len(p.shown) \in 1..Len(p.shown)
            BY DEF Pages
          <5>2. p.shown[Len(p.shown)].boot = session
            BY <1>12, <3>2, <5>1 DEF GoodPage
          <5>3. session # 0
            BY <1>2, TelemetryTypes
          <5> QED
            BY <4>1, <5>2, <5>3 DEF Shows, Telemetry!NoEvent, Telemetry!Event
        <4> QED
          BY <1>6, <2>2, <4>1, <4>2 DEF Shows
      <3> QED
        BY <1>1, <1>6, <2>2, <3>1, <3>2, <3>4, <3>5 DEF Caught
    <2>3. CASE ~ takes
      <3>1. machine'.progress = machine.progress /\ event' = Telemetry!NoEvent
        BY <1>1, <1>4, <2>1, <2>3
      <3>2. CASE machine.phase = "Active"
        <4>1. machine.pending # "None" /\ machine'.phase \in {"Active", "Subscribing"}
          BY <1>3, <1>4, <3>2 DEF Telemetry!PhaseAfter
        <4>2. machine'.phase = "Active"
          BY <1>2, <1>3, <1>4, <1>5, <3>2 DEF MachineOfSession, Telemetry!PhaseAfter
        <4> QED
          BY <1>1, <1>12, <2>1, <3>1, <3>2, <4>2 DEF Caught
      <3>3. CASE machine.phase # "Active"
        <4>1. machine.progress = Telemetry!NoEvent /\ ~ p.snapshot.active /\ p.shown = <<>>
          BY <1>2, <1>12, <2>1, <3>3 DEF MachineOfSession, GoodPage
        <4> QED
          BY <1>1, <3>1, <4>1 DEF Caught
      <3> QED
        BY <3>2, <3>3
    <2> QED
      BY <2>2, <2>3
  <1> QED
    BY <1>1, <1>2, <1>7, <1>8, <1>9, <1>10, <1>11, <1>12, CaughtUp DEF TelemetryParts

LEMMA TelemetryAbandons ==
    ASSUME TelemetryParts, Telemetry!AbandonPending
    PROVE  TelemetryParts'
  <1>1. /\ request # Telemetry!NoRequest /\ step' = "Finishing"
        /\ machine' = Telemetry!AfterAbandon(machine)
        /\ late' = late \cup {request} /\ request' = Telemetry!NoRequest /\ response' = Telemetry!NoResponse
        /\ losses' \in {losses, losses + 1} /\ (losses' # losses => losses < MaxLosses)
        /\ UNCHANGED <<event, session, posted, page, device, boot, reloads>>
    BY DEF Telemetry!AbandonPending
  <1>2. Telemetry!TypeOK /\ DeviceCounts /\ RequestsOfSession /\ MachineOfSession /\ EventsAnchored
        /\ Documents /\ PageCatchesUp
    BY DEF TelemetryParts
  <1> DEFINE Machines == [boot : 0..MaxBoots, phase : Telemetry!Phases, progress : Telemetry!Events,
                          pending : {"None", "Subscribe", "PollSubscribe", "PollEvent"}]
  <1>3. step = "Driving" /\ machine.pending # "None" /\ machine \in Machines
    BY <1>1, <1>2 DEF RequestsOfSession, MachineOfSession, Telemetry!TypeOK
  <1>4. /\ machine' \in Machines /\ machine'.boot = machine.boot /\ machine'.pending = "None"
        /\ machine'.progress = machine.progress
        /\ machine'.phase = IF machine.pending = "PollEvent" THEN "Active" ELSE "ReconcilingSubscribe"
    BY <1>1, <1>3 DEF Telemetry!AfterAbandon, Telemetry!Phases
  <1>5. /\ machine'.phase = "Active" <=> machine.phase = "Active"
        /\ machine.phase # "None" /\ machine'.phase # "None"
        /\ machine # Telemetry!NoMachine /\ machine' # Telemetry!NoMachine
    BY <1>2, <1>3, <1>4 DEF MachineOfSession, Telemetry!NoMachine
  <1>6. Telemetry!TypeOK'
    <2>1. /\ Telemetry!NoRequest \in Telemetry!Requests
          /\ Telemetry!NoResponse \in [status : {"None", "Ok", "NotFound", "Refused"}, event : Telemetry!Events]
      BY TelemetryValues, BoundAssumption DEF Telemetry!NoRequest, Telemetry!Requests,
         Telemetry!NoResponse, Telemetry!Response
    <2>2. losses' \in 0..MaxLosses
      BY <1>1, <1>2, BoundAssumption DEF Telemetry!TypeOK
    <2> QED
      BY <1>1, <1>2, <1>4, <2>1, <2>2 DEF Telemetry!TypeOK
  <1>7. DeviceCounts'
    BY <1>1, <1>2 DEF DeviceCounts
  <1>8. MachineOfSession'
    BY <1>1, <1>2, <1>4, <1>5 DEF MachineOfSession
  <1>9. RequestsOfSession'
    <2>1. /\ Telemetry!NoRequest.boot = 0 /\ Telemetry!NoRequest.boot # session /\ 0 <= session
          /\ Telemetry!NoRequest.boot # boot
      BY <1>2, TelemetryTypes DEF Telemetry!NoRequest
    <2> QED
      BY <1>1, <1>2, <1>4, <2>1 DEF RequestsOfSession
  <1>10. EventsAnchored'
    <2>1. Telemetry!NoResponse.event = Telemetry!NoEvent
      BY DEF Telemetry!NoResponse, Telemetry!Response
    <2> QED
      BY <1>1, <1>2, <1>4, <2>1 DEF EventsAnchored, Anchored, DeviceRank, Rank
  <1>11. ASSUME NEW p \in Pages, GoodPage(p), Caught(p)
         PROVE  Caught(p)'
    <2>1. event = Telemetry!NoEvent /\ (p.snapshot.active <=> machine.phase = "Active")
      BY <1>3, <1>11 DEF Caught
    <2> QED
      BY <1>1, <1>4, <1>5, <1>11, <2>1 DEF Caught
  <1> QED
    BY <1>1, <1>2, <1>6, <1>7, <1>8, <1>9, <1>10, <1>11, CaughtUp DEF TelemetryParts

LEMMA TelemetryBootChanged ==
    ASSUME TelemetryParts, Telemetry!BootChanged
    PROVE  TelemetryParts'
  <1>1. /\ step = "Idle" /\ session # boot /\ session' = boot /\ machine' = Telemetry!NoMachine
        /\ event' = Telemetry!NoEvent /\ step' = "Finishing"
        /\ UNCHANGED <<request, response, late, posted, page, device, boot, losses, reloads>>
    BY DEF Telemetry!BootChanged, Telemetry!wire, Telemetry!env
  <1>2. Telemetry!TypeOK /\ DeviceCounts /\ RequestsOfSession /\ MachineOfSession /\ EventsAnchored
        /\ Documents /\ PageCatchesUp
    BY DEF TelemetryParts
  <1>3. /\ machine'.phase = "None" /\ machine'.progress = Telemetry!NoEvent /\ machine'.pending = "None"
        /\ machine'.boot = 0
    BY <1>1 DEF Telemetry!NoMachine
  <1>4. session < boot /\ boot \in 1..MaxBoots /\ session \in Nat
    BY <1>1, <1>2, TelemetryTypes DEF MachineOfSession
  <1>5. response = Telemetry!NoResponse /\ response.event = Telemetry!NoEvent
    BY <1>1, <1>2 DEF EventsAnchored, Telemetry!NoResponse, Telemetry!Response
  <1>6. Telemetry!TypeOK'
    <2>1. Telemetry!NoMachine \in [boot : 0..MaxBoots, phase : Telemetry!Phases, progress : Telemetry!Events,
                                   pending : {"None", "Subscribe", "PollSubscribe", "PollEvent"}]
      BY TelemetryValues, BoundAssumption DEF Telemetry!NoMachine, Telemetry!Phases
    <2> QED
      BY <1>1, <1>2, <2>1, TelemetryValues DEF Telemetry!TypeOK
  <1>7. DeviceCounts'
    BY <1>1, <1>2 DEF DeviceCounts
  <1>8. MachineOfSession'
    BY <1>1, <1>3, <1>4 DEF MachineOfSession
  <1>9. RequestsOfSession'
    <2>1. \A q \in late \cup {request} : q.boot <= boot
      BY <1>2, <1>4, TelemetryTypes DEF RequestsOfSession
    <2> QED
      BY <1>1, <1>2, <1>3, <2>1 DEF RequestsOfSession
  <1>10. EventsAnchored'
    BY <1>1, <1>3, <1>5 DEF EventsAnchored
  <1>11. ASSUME NEW p \in Pages, GoodPage(p), Caught(p)
         PROVE  Caught(p)'
    BY <1>1, <1>3 DEF Caught
  <1> QED
    BY <1>1, <1>2, <1>6, <1>7, <1>8, <1>9, <1>10, <1>11, CaughtUp DEF TelemetryParts

\* The event is admitted, and the snapshot after it keeps it.
LEMMA TelemetryFinishes ==
    ASSUME TelemetryParts, Telemetry!FinishStep
    PROVE  TelemetryParts'
  <1> DEFINE due == event # Telemetry!NoEvent /\ machine # Telemetry!NoMachine
             documents_ == IF due THEN <<Telemetry!Document(event)>> ELSE <<>>
             snapshot == Telemetry!Snapshot(machine)
             before == posted \o documents_
  <1>1. /\ step = "Finishing" /\ Len(posted) + 2 <= MaxQueue
        /\ posted' = posted \o (documents_ \o <<snapshot>>)
        /\ event' = Telemetry!NoEvent /\ step' = "Idle"
        /\ UNCHANGED <<machine, session, request, response, late, page, device, boot, losses, reloads>>
    BY DEF Telemetry!FinishStep, Telemetry!Posts, Telemetry!wire, Telemetry!env
  <1>2. Telemetry!TypeOK /\ DeviceCounts /\ RequestsOfSession /\ MachineOfSession /\ EventsAnchored
        /\ Documents /\ PageCatchesUp
    BY DEF TelemetryParts
  <1>3. /\ posted \in Seq(Telemetry!Messages) /\ event \in Telemetry!Events
        /\ machine.progress \in Telemetry!Events /\ machine.boot \in 0..MaxBoots
        /\ Telemetry!Document(event) \in Telemetry!Messages
    BY <1>2, TelemetryTypes, TelemetryValues DEF Telemetry!TypeOK
  <1>4. /\ snapshot \in Telemetry!Messages /\ snapshot.kind = "Snapshot"
        /\ snapshot.active <=> machine.phase = "Active"
        /\ snapshot.event = machine.progress /\ snapshot.boot = machine.boot
    BY <1>3 DEF Telemetry!Snapshot, Telemetry!Messages
  <1> HIDE DEF snapshot
  <1>5. before = IF due THEN Append(posted, Telemetry!Document(event)) ELSE posted
    BY <1>3
  <1>6. before \in Seq(Telemetry!Messages) /\ posted' = Append(before, snapshot)
        /\ Len(before) + 1 <= MaxQueue
    <2>1. CASE due
      <3>1. before = Append(posted, Telemetry!Document(event))
        BY <1>5, <2>1
      <3>2. posted' = posted \o (<<Telemetry!Document(event)>> \o <<snapshot>>)
        BY <1>1, <2>1
      <3> HIDE DEF due, documents_, before
      <3>3. posted' = Append(Append(posted, Telemetry!Document(event)), snapshot)
        BY <1>3, <1>4, <3>2
      <3> QED
        BY <1>1, <1>3, <1>4, <3>1, <3>3, BoundAssumption
    <2>2. CASE ~ due
      <3>1. before = posted /\ posted' = posted \o (<<>> \o <<snapshot>>)
        BY <1>1, <1>5, <2>2
      <3> HIDE DEF due, documents_, before
      <3> QED
        BY <1>1, <1>3, <1>4, <3>1, BoundAssumption
    <2> QED
      BY <2>1, <2>2
  <1>7. PICK last \in Pages : Leads(page, posted, last) /\ Caught(last)
    BY <1>2 DEF PageCatchesUp
  <1>8. GoodPage(last)
    BY <1>7 DEF Leads
  \* The page once it has taken the event.
  <1>9. \E next \in Pages :
          /\ Leads(page, before, next) /\ GoodPage(next) /\ next.snapshot = last.snapshot
          /\ due => Shows(next, event)
          /\ ~ due => next = last
    <2>1. CASE due
      <3>1. /\ machine.phase = "Active" /\ event = machine.progress
            /\ last.snapshot.active /\ last.snapshot.boot = session /\ event.boot = session
        BY <1>2, <1>7, <2>1 DEF MachineOfSession, Caught
      <3>2. AdmittedBy(last, event)
        BY <1>7, <2>1, <3>1 DEF Caught, AdmittedBy, Continues
      <3>3. last.shown = <<>> \/ Continues(last.shown[Len(last.shown)], event)
        BY <1>7, <2>1 DEF Caught
      <3> DEFINE next == Received(last, Telemetry!Document(event))
      <3>4. GoodPage(next) /\ next.snapshot = last.snapshot /\ Shows(next, event)
        BY <1>3, <1>8, <3>2, <3>3, DocumentReceived
      <3>5. Leads(page, Append(posted, Telemetry!Document(event)), next)
        BY <1>3, <1>7, <3>4, LeadsFurther
      <3>6. next \in Pages
        BY <3>4 DEF GoodPage
      <3> HIDE DEF next
      <3> QED
        BY <1>5, <2>1, <3>4, <3>5, <3>6
    <2>2. CASE ~ due
      BY <1>5, <1>7, <1>8, <2>2
    <2> QED
      BY <2>1, <2>2
  <1>10. PICK next \in Pages :
          /\ Leads(page, before, next) /\ GoodPage(next) /\ next.snapshot = last.snapshot
          /\ due => Shows(next, event)
          /\ ~ due => next = last
    BY <1>9
  <1> HIDE DEF before
  <1>11. LET next2 == Received(next, snapshot)
         IN  /\ GoodPage(next2) /\ next2.snapshot = snapshot /\ next2 \in Pages
             /\ next2.shown = IF snapshot.active /\ (next.shown = <<>> \/ next.snapshot.boot = snapshot.boot)
                                THEN next.shown ELSE <<>>
             /\ Leads(page, posted', next2)
    <2>1. /\ GoodPage(Received(next, snapshot)) /\ Received(next, snapshot).snapshot = snapshot
          /\ Received(next, snapshot).shown =
               IF snapshot.active /\ (next.shown = <<>> \/ next.snapshot.boot = snapshot.boot)
                 THEN next.shown ELSE <<>>
      BY <1>4, <1>10, SnapshotReceived
    <2>2. Leads(page, posted', Received(next, snapshot))
      BY <1>4, <1>6, <1>10, <2>1, LeadsFurther
    <2> QED
      BY <2>1, <2>2 DEF GoodPage
  <1>12. PICK final \in Pages :
          /\ GoodPage(final) /\ final.snapshot = snapshot
          /\ final.shown = IF snapshot.active /\ (next.shown = <<>> \/ next.snapshot.boot = snapshot.boot)
                             THEN next.shown ELSE <<>>
          /\ Leads(page, posted', final)
    BY <1>11
  <1>14. Caught(final)'
    <2>1. CASE machine.phase # "Active"
      BY <1>1, <1>4, <1>12, <2>1 DEF Caught
    <2>2. CASE machine.phase = "Active"
      <3>1. machine # Telemetry!NoMachine /\ machine.boot = session
        BY <1>2, <2>2 DEF MachineOfSession
      <3>2. final.snapshot.active /\ final.snapshot.boot = session
        BY <1>4, <1>12, <2>2, <3>1
      <3>3. next.shown # <<>> => next.snapshot.boot = session
        <4> SUFFICES ASSUME next.shown # <<>>
                     PROVE  next.snapshot.boot = session
          OBVIOUS
        <4>1. last.snapshot.active
          BY <1>10 DEF GoodPage
        <4> QED
          BY <1>7, <1>10, <2>2, <4>1 DEF Caught
      <3>4. final.shown = next.shown
        BY <1>4, <1>12, <2>2, <3>1, <3>3
      <3>5. (machine.progress = Telemetry!NoEvent /\ final.shown = <<>>) \/ Shows(final, machine.progress)
        <4>1. CASE due
          BY <1>7, <1>10, <2>2, <3>4, <4>1 DEF Caught, Shows
        <4>2. CASE ~ due
          <5>1. event = Telemetry!NoEvent /\ next = last
            BY <1>10, <3>1, <4>2
          <5> QED
            BY <1>7, <2>2, <3>4, <5>1 DEF Caught, Shows
        <4> QED
          BY <4>1, <4>2
      <3>6. final.snapshot.event.seq <= machine.progress.seq /\ final.snapshot.event.dropped <= machine.progress.dropped
        BY <1>2, <1>4, <1>12, TelemetryTypes
      <3> QED
        BY <1>1, <2>2, <3>2, <3>5, <3>6 DEF Caught
    <2> QED
      BY <2>1, <2>2
  <1>15. Documents'
    <2>1. \A i \in 1..Len(before) : before[i].kind = "Document" => before[i] = Telemetry!Document(before[i].event)
      <3>1. Telemetry!Document(event).event = event
        BY DEF Telemetry!Document
      <3>2. \A i \in 1..Len(posted) : posted[i].kind = "Document" => posted[i] = Telemetry!Document(posted[i].event)
        BY <1>2 DEF Documents
      <3> HIDE DEF due
      <3> QED
        BY <1>3, <1>5, <3>1, <3>2
    <2> QED
      BY <1>4, <1>6, <2>1 DEF Documents
  <1>16. Telemetry!TypeOK'
    <2>1. posted' \in Seq(Telemetry!Messages) /\ Len(posted') <= MaxQueue
      BY <1>4, <1>6
    <2> QED
      BY <1>1, <1>2, <2>1, TelemetryValues DEF Telemetry!TypeOK
  <1>17. MachineOfSession' /\ RequestsOfSession' /\ DeviceCounts' /\ EventsAnchored'
    BY <1>1, <1>2 DEF MachineOfSession, RequestsOfSession, DeviceCounts, EventsAnchored, Anchored,
       DeviceRank, Rank
  <1>18. PageCatchesUp'
    <2>1. Leads(page', posted', final)
      BY <1>1, <1>12
    <2> QED
      BY <1>12, <1>14, <2>1 DEF PageCatchesUp
  <1> QED
    BY <1>15, <1>16, <1>17, <1>18 DEF TelemetryParts

LEMMA TelemetryReceives ==
    ASSUME TelemetryParts, Telemetry!PageReceives
    PROVE  TelemetryParts'
  <1>2. Telemetry!TypeOK /\ DeviceCounts /\ RequestsOfSession /\ MachineOfSession /\ EventsAnchored
        /\ Documents /\ PageCatchesUp
    BY DEF TelemetryParts
  <1>1. /\ posted # <<>> /\ posted' = Tail(posted)
        /\ UNCHANGED <<machine, event, step, session, request, response, late, device, boot, losses, reloads>>
    BY DEF Telemetry!PageReceives, Telemetry!worker, Telemetry!wire, Telemetry!env
  <1>3. PICK last \in Pages : Leads(page, posted, last) /\ Caught(last)
    BY <1>2 DEF PageCatchesUp
  <1>4. GoodPage(page) /\ page \in Pages
    BY <1>3 DEF Leads, GoodPage
  <1>5. page' = Received(page, Head(posted))
    <2>1. page = [snapshot |-> page.snapshot, shown |-> page.shown]
      BY <1>4 DEF Pages
    <2>2. \A e : Telemetry!Admits(e) <=> AdmittedBy(page, e)
      BY DEF Telemetry!Admits, AdmittedBy, Telemetry!Last
    <2>3. \A m : Telemetry!Keeps(m) <=> m.active /\ (page.shown = <<>> \/ page.shown[1].boot = m.boot)
      BY DEF Telemetry!Keeps
    <2> QED
      BY <2>2, <2>3 DEF Telemetry!PageReceives, Received
  <1>6. posted \in Seq(Telemetry!Messages)
    BY <1>2 DEF Telemetry!TypeOK
  <1>7. Leads(page', posted', last)
    BY <1>1, <1>3, <1>5, <1>6, LeadsOn
  <1>8. GoodPage(page')
    BY <1>7 DEF Leads
  <1>9. Caught(last)'
    BY <1>1, <1>3 DEF Caught
  <1>10. PageCatchesUp'
    BY <1>7, <1>9 DEF PageCatchesUp
  <1>11. /\ Tail(posted) \in Seq(Telemetry!Messages) /\ Len(Tail(posted)) = Len(posted) - 1
         /\ \A i \in 1..Len(Tail(posted)) : Tail(posted)[i] = posted[i + 1]
    BY <1>1, <1>6, HeadTailProperties
  <1>12. Documents'
    <2>1. \A i \in 1..Len(Tail(posted)) : i + 1 \in 1..Len(posted)
      BY <1>6, <1>11
    <2> QED
      BY <1>1, <1>2, <1>11, <2>1 DEF Documents
  <1>13. Telemetry!TypeOK'
    <2>1. posted' \in Seq(Telemetry!Messages) /\ Len(posted') <= MaxQueue
      BY <1>1, <1>2, <1>6, <1>11, BoundAssumption DEF Telemetry!TypeOK
    <2>2. page'.snapshot \in Telemetry!Messages /\ page'.shown \in Seq(Telemetry!Events) /\ Len(page'.shown) <= MaxShown
      BY <1>8 DEF GoodPage, Pages
    <2> QED
      BY <1>1, <1>2, <2>1, <2>2 DEF Telemetry!TypeOK
  <1>14. MachineOfSession' /\ RequestsOfSession' /\ DeviceCounts' /\ EventsAnchored'
    BY <1>1, <1>2 DEF MachineOfSession, RequestsOfSession, DeviceCounts, EventsAnchored, Anchored,
       DeviceRank, Rank
  <1> QED
    BY <1>10, <1>12, <1>13, <1>14 DEF TelemetryParts

\* A page that starts shows nothing and is owed nothing.
LEMMA NewPageGood == GoodPage(Telemetry!NewPage) /\ ~ Telemetry!NewPage.snapshot.active
  <1>1. /\ Telemetry!NewPage.shown = <<>> /\ ~ Telemetry!NewPage.snapshot.active
        /\ Telemetry!NewPage.snapshot \in Telemetry!Messages
    <2>1. Telemetry!NewPage =
            [snapshot |-> [kind |-> "Snapshot", active |-> FALSE, event |-> Telemetry!NoEvent, boot |-> 0],
             shown |-> <<>>]
      BY DEF Telemetry!NewPage, Telemetry!Snapshot, Telemetry!NoMachine
    <2>2. Telemetry!NoEvent \in Telemetry!Events /\ 0 \in 0..MaxBoots
      BY TelemetryValues, BoundAssumption
    <2> QED
      BY <2>1, <2>2 DEF Telemetry!Messages
  <1>2. Telemetry!NewPage \in Pages
    BY <1>1, NoneShown DEF Telemetry!NewPage, Pages
  <1> QED
    BY <1>1, <1>2, NoneShown, BoundAssumption DEF GoodPage

LEMMA TelemetryFresh ==
    ASSUME machine = Telemetry!NoMachine, event = Telemetry!NoEvent, step = "Idle",
           posted = <<>>, page = Telemetry!NewPage
    PROVE  Documents /\ PageCatchesUp
  <1>1. GoodPage(page) /\ ~ page.snapshot.active /\ page \in Pages
    BY NewPageGood DEF GoodPage
  <1>2. Leads(page, posted, page)
    BY <1>1, LeadsNowhere
  <1>3. machine.phase = "None"
    BY DEF Telemetry!NoMachine
  <1>4. Caught(page)
    BY <1>1, <1>3 DEF Caught
  <1> QED
    BY <1>1, <1>2, <1>4 DEF PageCatchesUp, Documents

LEMMA TelemetryNone ==
    /\ Telemetry!NoMachine \in [boot : 0..MaxBoots, phase : Telemetry!Phases, progress : Telemetry!Events,
                                pending : {"None", "Subscribe", "PollSubscribe", "PollEvent"}]
    /\ Telemetry!NoRequest \in Telemetry!Requests
    /\ Telemetry!NoResponse \in [status : {"None", "Ok", "NotFound", "Refused"}, event : Telemetry!Events]
    /\ Telemetry!NoEvent \in Telemetry!Events
    /\ <<>> \in Seq(Telemetry!Messages) /\ Len(<<>>) = 0
    /\ Telemetry!NewPage.snapshot \in Telemetry!Messages /\ Telemetry!NewPage.shown = <<>>
    /\ Telemetry!NoMachine.phase = "None" /\ Telemetry!NoMachine.progress = Telemetry!NoEvent
    /\ Telemetry!NoMachine.pending = "None"
    /\ Telemetry!NoResponse.event = Telemetry!NoEvent
    /\ Telemetry!NoRequest.boot = 0
  <1>1. Telemetry!NewPage.snapshot \in Telemetry!Messages
    BY NewPageGood DEF GoodPage, Pages
  <1> QED
    BY <1>1, TelemetryValues, BoundAssumption DEF Telemetry!NoMachine, Telemetry!Phases, Telemetry!NoRequest,
       Telemetry!Requests, Telemetry!NoResponse, Telemetry!Response, Telemetry!NewPage

LEMMA TelemetryReloads ==
    ASSUME TelemetryParts, Telemetry!Reload
    PROVE  TelemetryParts'
  <1>1. /\ reloads < MaxReloads /\ reloads' = reloads + 1
        /\ machine' = Telemetry!NoMachine /\ event' = Telemetry!NoEvent /\ step' = "Idle"
        /\ session' = boot /\ late' \subseteq late \cup {request} /\ late \subseteq late'
        /\ request' = Telemetry!NoRequest /\ response' = Telemetry!NoResponse
        /\ posted' = <<>> /\ page' = Telemetry!NewPage
        /\ UNCHANGED <<device, boot, losses>>
    BY DEF Telemetry!Reload
  <1>2. Telemetry!TypeOK /\ DeviceCounts /\ RequestsOfSession /\ MachineOfSession
    BY DEF TelemetryParts
  <1>3. boot \in 1..MaxBoots /\ session \in Nat /\ reloads' \in 0..MaxReloads /\ MaxQueue \in Nat
    BY <1>1, <1>2, TelemetryTypes, BoundAssumption DEF Telemetry!TypeOK
  <1>4. Telemetry!TypeOK'
    BY <1>1, <1>2, <1>3, TelemetryNone, NoneShown, BoundAssumption DEF Telemetry!TypeOK
  <1>5. DeviceCounts'
    BY <1>1, <1>2 DEF DeviceCounts
  <1>6. MachineOfSession'
    BY <1>1, <1>3, TelemetryNone DEF MachineOfSession
  <1>7. RequestsOfSession'
    <2>1. \A q \in late' : q.boot <= boot /\ (q.boot = boot => q.ack < device.next)
      BY <1>1, <1>2, <1>3, TelemetryTypes DEF RequestsOfSession, MachineOfSession
    <2>2. Telemetry!NoRequest.boot # boot /\ Telemetry!NoRequest.boot <= boot
      BY <1>3, TelemetryNone
    <2> QED
      BY <1>1, <2>1, <2>2, TelemetryNone DEF RequestsOfSession
  <1>8. EventsAnchored'
    BY <1>1, TelemetryNone DEF EventsAnchored
  <1>9. Documents' /\ PageCatchesUp'
    <2>1. Leads(Telemetry!NewPage, <<>>, Telemetry!NewPage) /\ Telemetry!NewPage \in Pages
      BY NewPageGood, LeadsNowhere DEF GoodPage
    <2>2. Caught(Telemetry!NewPage)'
      BY <1>1, NewPageGood, TelemetryNone DEF Caught
    <2> QED
      BY <1>1, <2>1, <2>2 DEF PageCatchesUp, Documents
  <1> QED
    BY <1>4, <1>5, <1>6, <1>7, <1>8, <1>9 DEF TelemetryParts

LEMMA TelemetryInit ==
    ASSUME Telemetry!Init
    PROVE  TelemetryParts
  <1>1. /\ machine = Telemetry!NoMachine /\ event = Telemetry!NoEvent /\ step = "Idle" /\ session = 1
        /\ request = Telemetry!NoRequest /\ response = Telemetry!NoResponse /\ late = {}
        /\ posted = <<>> /\ page = Telemetry!NewPage
        /\ device = Telemetry!NoSubscription /\ boot = 1 /\ losses = 0 /\ reloads = 0
    BY DEF Telemetry!Init
  <1>2. device \in [sub : BOOLEAN, next : 1..(MaxEvents + 1), dropped : 0..MaxEvents,
                    retained : Telemetry!Events]
    BY <1>1, TelemetryNone, BoundAssumption DEF Telemetry!NoSubscription
  <1>3. Telemetry!TypeOK
    BY <1>1, <1>2, TelemetryNone, NoneShown, BoundAssumption DEF Telemetry!TypeOK
  <1>4. MachineOfSession
    BY <1>1, TelemetryNone DEF MachineOfSession
  <1>5. RequestsOfSession
    BY <1>1, TelemetryNone DEF RequestsOfSession
  <1>6. DeviceCounts
    BY <1>1 DEF DeviceCounts, Telemetry!NoSubscription
  <1>7. EventsAnchored
    BY <1>1, TelemetryNone DEF EventsAnchored
  <1> QED
    BY <1>1, <1>3, <1>4, <1>5, <1>6, <1>7, TelemetryFresh DEF TelemetryParts

LEMMA TelemetryStep ==
    ASSUME TelemetryParts, Telemetry!Next
    PROVE  TelemetryParts'
  <1>1. Telemetry!ArriveLive => TelemetryParts'
    BY TelemetryArrives DEF Telemetry!ArriveLive
  <1>2. Telemetry!ArriveLate => TelemetryParts'
    BY TelemetryArrives DEF Telemetry!ArriveLate
  <1> QED
    BY <1>1, <1>2, TelemetryDrives, TelemetryAccepts, TelemetryAbandons, TelemetryBootChanged,
       TelemetryFinishes, TelemetryReceives, TelemetryReloads, TelemetryAnswers, TelemetrySamples,
       TelemetryRestarts DEF Telemetry!Next

\* What the page shows is chained, and what is acknowledged is under way to it.
LEMMA TelemetryPromises ==
    ASSUME TelemetryParts
    PROVE  Telemetry!NoSilentLoss /\ Telemetry!AcknowledgedIsShown
  <1>1. PICK last \in Pages : Leads(page, posted, last) /\ Caught(last)
    BY DEF TelemetryParts, PageCatchesUp
  <1>2. GoodPage(page) /\ GoodPage(last) /\ posted \in Seq(Telemetry!Messages)
    BY <1>1 DEF Leads, TelemetryParts, Telemetry!TypeOK
  <1>3. Telemetry!NoSilentLoss
    <2> SUFFICES ASSUME NEW i \in 2..Len(page.shown)
                 PROVE  LET a == page.shown[i - 1]
                            b == page.shown[i]
                        IN  /\ a.boot = b.boot /\ a.seq < b.seq
                            /\ b.seq - a.seq - 1 <= b.dropped - a.dropped
      BY DEF Telemetry!NoSilentLoss
    <2> DEFINE a == page.shown[i - 1]
               b == page.shown[i]
    <2>1. Continues(a, b)
      BY <1>2 DEF GoodPage, Chained
    <2>2. a \in Telemetry!Events /\ b \in Telemetry!Events
      <3>1. page.shown \in Seq(Telemetry!Events) /\ i \in 1..Len(page.shown) /\ i - 1 \in 1..Len(page.shown)
        BY <1>2 DEF GoodPage, Pages
      <3> QED
        BY <3>1
    <2> HIDE DEF a, b
    <2>3. a.seq \in Nat /\ a.dropped \in Nat /\ b.seq \in Nat /\ b.dropped \in Nat
      BY <2>2, TelemetryTypes DEF TelemetryParts
    <2>4. a.boot = b.boot /\ a.seq < b.seq /\ b.seq - a.seq - 1 <= b.dropped - a.dropped
      BY <2>1, <2>3 DEF Continues, Rank
    <2> QED
      BY <2>4 DEF a, b
  <1>4. Telemetry!AcknowledgedIsShown
    <2> SUFFICES ASSUME machine.progress # Telemetry!NoEvent, event # machine.progress
                 PROVE  \/ \E i \in 1..Len(posted) : posted[i] = Telemetry!Document(machine.progress)
                        \/ page.shown # <<>> /\ page.shown[Len(page.shown)] = machine.progress
      BY DEF Telemetry!AcknowledgedIsShown, Telemetry!Last
    <2>1. machine.phase = "Active" /\ event = Telemetry!NoEvent
      BY <1>1 DEF TelemetryParts, MachineOfSession, Caught
    <2>2. Shows(last, machine.progress)
      BY <1>1, <2>1 DEF Caught
    <2>3. \A i \in 1..Len(posted) :
            posted[i].kind = "Document" => posted[i] = Telemetry!Document(posted[i].event)
      BY DEF TelemetryParts, Documents
    <2>4. Shows(page, machine.progress)
          \/ \E i \in 1..Len(posted) : posted[i] = Telemetry!Document(machine.progress)
      <3>1. Leads(page, posted, last)
        BY <1>1
      <3> QED
        BY <1>2, <2>2, <2>3, <3>1, ShownOrUnderWay
    <2> QED
      BY <2>4 DEF Shows
  <1> QED
    BY <1>3, <1>4

\* No event is lost without the device's loss count saying so, whichever requests were lost,
\* late or repeated, and what the worker acknowledges the page shows
\* (TelemetrySubscriptionMachine::accept_event, validate_telemetry_transfer).
THEOREM TelemetryAlwaysTrue == Spec => []TelemetryIsTrue
  <1>1. Init => TelemetryInv
    BY TelemetryInit DEF Init, TelemetryInv
  <1>2. TelemetryInv /\ [Next]_vars => TelemetryInv'
    <2> SUFFICES ASSUME TelemetryInv, [Next]_vars, service' = "Telemetry"
                 PROVE  TelemetryParts'
      BY DEF TelemetryInv
    <2>1. service = "Telemetry" /\ TelemetryParts
      BY DEF TelemetryInv, Next, vars, Telemetry_, Waveform_, Document_
    <2>2. CASE Telemetry!Next
      BY <2>1, <2>2, TelemetryStep
    <2>3. CASE UNCHANGED vars
      <3>1. UNCHANGED TelemetryPage /\ UNCHANGED <<request, response, late, device, boot, losses, reloads>>
        BY <2>3 DEF vars, telemetry, wire, TelemetryPage
      <3>2. Documents' /\ PageCatchesUp'
        BY <2>1, <3>1, PageKept DEF TelemetryParts
      <3> QED
        BY <2>1, <3>1, <3>2 DEF TelemetryPage, TelemetryParts, Telemetry!TypeOK, MachineOfSession,
           RequestsOfSession, DeviceCounts, EventsAnchored, Anchored, DeviceRank, Rank
    <2> QED
      BY <2>1, <2>2, <2>3 DEF Next, Telemetry_, Waveform_, Document_
  <1>3. TelemetryInv => TelemetryIsTrue
    BY TelemetryPromises DEF TelemetryInv, TelemetryIsTrue, TelemetryParts
  <1> QED
    BY <1>1, <1>2, <1>3, PTL DEF Spec
-----------------------------------------------------------------------------
(* Waveforms.                                                               *)

Records == UNION {[1..n -> Waveform!Ranges] : n \in 0..Chunks}
Machines == [capture : Waveform!Captures, phase : Waveform!Phases, pending : Waveform!Actions,
             record : Records]
Transfers == [kind : {"Snapshot", "Document"}, capture : Waveform!Captures, record : Records]
Acquisitions == [capture : Waveform!Captures,
                 phase : {"None", "Configured", "Armed", "Complete", "Faulted", "Stopped"}]

\* The phases in which the worker knows that the device holds its capture.
Held == Waveform!Phases \ {"None", "Configuring", "ReconcilingConfigure"}

\* A machine is that of the newest capture, its record has room for the range it reads, and
\* a complete one is exact.
OfNewest(m, newest) ==
    /\ (m.phase = "None") <=> (m = Waveform!NoMachine)
    /\ m # Waveform!NoMachine => m.capture = newest /\ newest # 0
    /\ m.phase = "Downloading" => Len(m.record) < Chunks
    /\ m.phase = "Complete" => m.record = Waveform!RecordOf(m.capture)

\* What a machine knows of the device: it holds the machine's capture once it has said so,
\* and until then an earlier one only when that is released.
KnowsDevice(m, d) ==
    /\ \/ d.capture = m.capture
       \/ /\ d.capture < m.capture
          /\ d.phase \in {"None", "Stopped"} /\ m.phase \notin Held
    /\ m.phase = "Stopped" => d.phase = "Stopped"

CaptureOfWorker ==
    /\ OfNewest(capture, captures)
    /\ capture = Waveform!NoMachine => published = FALSE
    /\ burst # Waveform!Idle => capture # Waveform!NoMachine /\ Len(posted) + 2 <= MaxQueue

CaptureOfDevice ==
    /\ acquisition \in Acquisitions
    /\ (acquisition.capture = 0) <=> (acquisition.phase = "None")
    /\ session # boot \/ capture = Waveform!NoMachine => acquisition = Waveform!NoCapture
    /\ session = boot /\ capture # Waveform!NoMachine => KnowsDevice(capture, acquisition)

\* The live request is the one the phase calls for.
RequestOfCapture ==
    /\ capture.pending # "None" =>
         /\ burst > 0 /\ capture.pending = Waveform!NextAction
         /\ request = Waveform!RequestOf(capture.pending)
    /\ response # Waveform!NoResponse => capture.pending # "None" /\ session = boot
    /\ response.range \in Waveform!Ranges

\* A late request of this boot is for the machine's capture, or for one the device has had.
LateRequests ==
    /\ boot \in 1..MaxBoots /\ session <= boot
    /\ \A q \in late :
         /\ q.boot \in Nat /\ q.boot <= session /\ q.capture \in Waveform!Captures
         /\ q.boot = boot => q.capture <= acquisition.capture \/ q.capture = capture.capture

\* An answer tells what is still so when it is accepted.
AnswerHolds ==
    /\ response.status = "Ok" => acquisition.capture = capture.capture
    /\ response.status = "NotFound" => capture.phase \notin Held
    /\ response.status = "Ok" /\ response.phase = "Stopped" => acquisition.phase = "Stopped"

IsRecord(m) == m.kind = "Document"

\* The records sent to the page are exact and of ever later captures, up to the last.
SentInOrder(p, messages) ==
    /\ messages \in Seq(Transfers)
    /\ p \in [snapshot : Waveform!Captures, shown : Records, received : Seq(Nat)]
    /\ \A i \in 1..Len(messages) :
         IsRecord(messages[i]) => messages[i].record = Waveform!RecordOf(messages[i].capture)
    /\ \A i, j \in 1..Len(p.received) : i < j => p.received[i] < p.received[j]
    /\ \A i \in 1..Len(p.received), j \in 1..Len(messages) :
         IsRecord(messages[j]) => p.received[i] < messages[j].capture
    /\ \A i, j \in 1..Len(messages) :
         i < j /\ IsRecord(messages[i]) /\ IsRecord(messages[j])
           => messages[i].capture < messages[j].capture
SentUpTo(p, messages, last) ==
    /\ \A i \in 1..Len(p.received) : p.received[i] <= last
    /\ \A i \in 1..Len(messages) : IsRecord(messages[i]) => messages[i].capture <= last

\* The capture of the machine is not among them before it is published.
LastSent == IF capture # Waveform!NoMachine /\ published = FALSE THEN captures - 1 ELSE captures

RecordsSent == SentInOrder(record, posted) /\ SentUpTo(record, posted, LastSent)

WaveformTyped ==
    /\ capture \in Machines
    /\ want \in BOOLEAN /\ published \in BOOLEAN /\ captures \in Waveform!Captures
    /\ burst \in Waveform!Idle..BurstOps
    /\ request.op \in {"None", "Configure", "Arm", "Stop", "Read", "Status"}
    /\ response.status \in {"None", "Ok", "NotFound", "Refused"}
    /\ Len(posted) <= MaxQueue
    /\ session \in 1..MaxBoots
    /\ (capture.pending = "None") <=> (request = Waveform!NoRequest)

WaveformParts ==
    /\ WaveformTyped /\ Waveform!ShownIsExact
    /\ CaptureOfWorker /\ RequestOfCapture /\ LateRequests /\ CaptureOfDevice /\ AnswerHolds
    /\ RecordsSent
WaveformInv == service = "Waveform" => WaveformParts

\* What the model is built from is of its type; a record is a short sequence of ranges.
LEMMA RecordTypes ==
    /\ Waveform!NoRange \in Waveform!Ranges
    /\ <<>> \in Records
    /\ \A r \in Records : r \in Seq(Waveform!Ranges) /\ Len(r) \in 0..Chunks
    /\ \A r \in Seq(Waveform!Ranges) : Len(r) <= Chunks => r \in Records
  <1>1. Waveform!NoRange \in Waveform!Ranges
    BY BoundAssumption DEF Waveform!NoRange, Waveform!Ranges, Waveform!Captures
  <1>2. \A r \in Seq(Waveform!Ranges) : Len(r) <= Chunks => r \in Records
    <2> SUFFICES ASSUME NEW r \in Seq(Waveform!Ranges), Len(r) <= Chunks
                 PROVE  r \in Records
      OBVIOUS
    <2>1. Len(r) \in 0..Chunks /\ r \in [1..Len(r) -> Waveform!Ranges]
      BY BoundAssumption
    <2> QED
      BY <2>1 DEF Records
  <1>3. \A r \in Records : r \in Seq(Waveform!Ranges) /\ Len(r) \in 0..Chunks
    <2> SUFFICES ASSUME NEW r \in Records
                 PROVE  r \in Seq(Waveform!Ranges) /\ Len(r) \in 0..Chunks
      OBVIOUS
    <2>1. PICK n \in 0..Chunks : r \in [1..n -> Waveform!Ranges]
      BY DEF Records
    <2>2. n \in Nat
      BY <2>1, BoundAssumption
    <2> QED
      BY <2>1, <2>2
  <1>4. <<>> \in Records
    <2>1. <<>> \in Seq(Waveform!Ranges) /\ Len(<<>>) <= Chunks
      BY BoundAssumption
    <2> QED
      BY <1>2, <2>1
  <1> QED
    BY <1>1, <1>2, <1>3, <1>4

LEMMA RecordOfTypes ==
    ASSUME NEW c \in Waveform!Captures
    PROVE  /\ Waveform!RecordOf(c) \in Records /\ Waveform!RecordOf(c) # <<>>
           /\ Len(Waveform!RecordOf(c)) = Chunks /\ Waveform!RecordOf(c)[1].capture = c
  <1>1. Chunks \in 0..Chunks /\ Chunks \in Nat /\ Chunks >= 1
    BY BoundAssumption
  <1>2. Waveform!RecordOf(c) \in [1..Chunks -> Waveform!Ranges]
    BY <1>1 DEF Waveform!RecordOf, Waveform!Ranges
  <1>3. Waveform!RecordOf(c) \in Records
    BY <1>1, <1>2 DEF Records
  <1>4. Waveform!RecordOf(c)[1] = [capture |-> c, place |-> 1]
    BY <1>1 DEF Waveform!RecordOf
  <1>5. Len(Waveform!RecordOf(c)) = Chunks
    BY <1>1, <1>2
  <1> QED
    BY <1>1, <1>3, <1>4, <1>5

\* The conjuncts of the type invariant, with the records named.
LEMMA WaveformTypes == WaveformTyped /\ acquisition.capture \in Waveform!Captures <=> Waveform!TypeOK
  BY DEF WaveformTyped, Waveform!TypeOK, Machines, Records

LEMMA MachineTypes ==
    /\ Waveform!NoMachine \in Machines
    /\ \A c \in Waveform!Captures : Waveform!NewMachine(c) \in Machines
  <1>1. 0 \in Waveform!Captures
    BY BoundAssumption DEF Waveform!Captures
  <1> QED
    BY <1>1, RecordTypes DEF Waveform!NoMachine, Waveform!NewMachine, Machines, Waveform!Phases, Waveform!Actions

\* A new machine knows nothing of the device, which has released what it holds.
LEMMA NewMachineFits ==
    ASSUME NEW c \in Waveform!Captures, c # 0, NEW d \in Acquisitions, d.capture < c,
           d.phase \in {"None", "Stopped"}
    PROVE  OfNewest(Waveform!NewMachine(c), c) /\ KnowsDevice(Waveform!NewMachine(c), d)
  BY DEF Waveform!NewMachine, Waveform!NoMachine, OfNewest, KnowsDevice, Held

\* install_pending_waveform keeps what the worker knows.
LEMMA Installing ==
    ASSUME NEW m \in Machines, m # Waveform!NoMachine, m.pending = "None",
           captures \in Waveform!Captures, acquisition \in Acquisitions,
           OfNewest(m, captures), Waveform!InstallPending(m),
           want \in BOOLEAN, published \in BOOLEAN,
           session = boot => KnowsDevice(m, acquisition)
    PROVE  /\ capture' \in Machines /\ capture' # Waveform!NoMachine /\ capture'.pending = "None"
           /\ want' \in BOOLEAN /\ published' \in BOOLEAN /\ captures' \in Waveform!Captures
           /\ OfNewest(capture', captures')
           /\ session = boot => KnowsDevice(capture', acquisition)
           /\ capture'.capture = captures' /\ captures' >= captures
           /\ captures < captures' \/ published' = published
  <1>0. captures \in Nat /\ acquisition.capture \in Nat /\ m.capture = captures
    BY BoundAssumption DEF Waveform!Captures, Acquisitions, OfNewest
  <1>1. CASE Waveform!Installs(m)
    <2>1. /\ capture' = Waveform!NewMachine(captures + 1) /\ captures' = captures + 1
          /\ m.phase = "Stopped" /\ captures < MaxCapture
          /\ want' = FALSE /\ published' = FALSE
      BY <1>1 DEF Waveform!InstallPending, Waveform!Installs
    <2>2. captures + 1 \in Waveform!Captures /\ captures + 1 # 0
      BY <1>0, <2>1, BoundAssumption DEF Waveform!Captures
    <2>3. capture' \in Machines /\ OfNewest(capture', captures')
      BY <2>1, <2>2, MachineTypes DEF Waveform!NewMachine, Waveform!NoMachine, OfNewest
    <2>4. session = boot => KnowsDevice(capture', acquisition)
      <3> SUFFICES ASSUME session = boot
                   PROVE  KnowsDevice(capture', acquisition)
        OBVIOUS
      <3>1. acquisition.phase = "Stopped" /\ acquisition.capture = captures
        BY <1>0, <2>1 DEF KnowsDevice, Held, Waveform!Phases
      <3> QED
        BY <1>0, <2>1, <2>2, <3>1, NewMachineFits
    <2>5. capture' # Waveform!NoMachine /\ capture'.pending = "None" /\ capture'.capture = captures'
      BY <2>1 DEF Waveform!NewMachine, Waveform!NoMachine
    <2>6. captures' >= captures /\ captures < captures'
      BY <1>0, <2>1
    <2>7. want' \in BOOLEAN /\ published' \in BOOLEAN
      BY <2>1
    <2> QED
      BY <2>1, <2>2, <2>3, <2>4, <2>5, <2>6, <2>7
  <1>2. CASE ~ Waveform!Installs(m)
    <2>1. capture' = m /\ captures' = captures
      BY <1>2 DEF Waveform!InstallPending
    <2>2. want' = want
      BY <1>2, Zenon DEF Waveform!InstallPending
    <2>3. published' = published
      BY <1>2, Zenon DEF Waveform!InstallPending
    <2> QED
      BY <1>0, <2>1, <2>2, <2>3
  <1> QED
    BY <1>1, <1>2

\* A snapshot and a later record may follow the messages, and the page may take the first.
LEMMA SnapshotFollows ==
    ASSUME NEW p, NEW messages, SentInOrder(p, messages), NEW c \in Waveform!Captures
    PROVE  LET next == Append(messages, Waveform!Snapshot(c))
           IN  /\ SentInOrder(p, next) /\ Len(next) = Len(messages) + 1
               /\ \A n \in Int : SentUpTo(p, messages, n) => SentUpTo(p, next, n)
  <1> DEFINE m == Waveform!Snapshot(c)
             next == Append(messages, m)
  <1>1. m \in Transfers /\ ~ IsRecord(m)
    BY RecordTypes DEF Waveform!Snapshot, Transfers, IsRecord
  <1>2. messages \in Seq(Transfers)
    BY DEF SentInOrder
  <1> HIDE DEF m
  <1>3. /\ next \in Seq(Transfers) /\ Len(next) = Len(messages) + 1 /\ next[Len(next)] = m
        /\ \A i \in 1..Len(next) : i \in 1..Len(messages) \/ i = Len(next)
        /\ \A i \in 1..Len(messages) : next[i] = messages[i]
    BY <1>1, <1>2
  <1> HIDE DEF next
  <1>4. \A i \in 1..Len(next) : IsRecord(next[i]) => i \in 1..Len(messages) /\ next[i] = messages[i]
    BY <1>1, <1>3
  <1>5. SentInOrder(p, next)
    BY <1>3, <1>4 DEF SentInOrder
  <1>6. \A n \in Int : SentUpTo(p, messages, n) => SentUpTo(p, next, n)
    BY <1>4 DEF SentUpTo
  <1> QED
    BY <1>3, <1>5, <1>6 DEF next, m

LEMMA RecordFollows ==
    ASSUME NEW p, NEW messages, SentInOrder(p, messages), NEW c \in Waveform!Captures,
           NEW n \in Int, n < c, SentUpTo(p, messages, n)
    PROVE  LET next == Append(messages, Waveform!Document(c, Waveform!RecordOf(c)))
           IN  /\ SentInOrder(p, next) /\ Len(next) = Len(messages) + 1
               /\ SentUpTo(p, next, c)
  <1> DEFINE m == Waveform!Document(c, Waveform!RecordOf(c))
             next == Append(messages, m)
  <1>0. c \in Nat
    BY BoundAssumption DEF Waveform!Captures
  <1>1. m \in Transfers /\ m.capture = c /\ m.record = Waveform!RecordOf(c)
    BY RecordOfTypes DEF Waveform!Document, Transfers
  <1>2. /\ messages \in Seq(Transfers) /\ p.received \in Seq(Nat)
        /\ \A i \in 1..Len(messages) : messages[i].capture \in Nat
    <2>1. messages \in Seq(Transfers) /\ p.received \in Seq(Nat)
      BY DEF SentInOrder
    <2>2. \A i \in 1..Len(messages) : messages[i] \in Transfers
      BY <2>1
    <2>3. \A t \in Transfers : t.capture \in Nat
      BY BoundAssumption DEF Transfers, Waveform!Captures
    <2> QED
      BY <2>1, <2>2, <2>3
  <1> HIDE DEF m
  <1>3. /\ next \in Seq(Transfers) /\ Len(next) = Len(messages) + 1 /\ next[Len(next)] = m
        /\ \A i \in 1..Len(next) : i \in 1..Len(messages) \/ i = Len(next)
        /\ \A i \in 1..Len(messages) : next[i] = messages[i]
    BY <1>1, <1>2
  <1> HIDE DEF next
  <1>a. /\ \A i \in 1..Len(p.received) : p.received[i] \in Nat /\ p.received[i] < c
        /\ \A i \in 1..Len(messages) : IsRecord(messages[i]) => messages[i].capture < c
    <2>1. \A i \in 1..Len(p.received) : p.received[i] \in Nat
      BY <1>2
    <2> QED
      BY <1>0, <1>2, <2>1 DEF SentUpTo
  <1>4. SentUpTo(p, next, c)
    <2>1. \A i \in 1..Len(next) : IsRecord(next[i]) => next[i].capture <= c
      BY <1>0, <1>1, <1>2, <1>3, <1>a
    <2>2. \A i \in 1..Len(p.received) : p.received[i] <= c
      BY <1>0, <1>a
    <2> QED
      BY <2>1, <2>2 DEF SentUpTo
  <1>5. SentInOrder(p, next)
    <2>1. \A i \in 1..Len(p.received), j \in 1..Len(next) :
            IsRecord(next[j]) => p.received[i] < next[j].capture
      <3> SUFFICES ASSUME NEW i \in 1..Len(p.received), NEW j \in 1..Len(next), IsRecord(next[j])
                   PROVE  p.received[i] < next[j].capture
        OBVIOUS
      <3>1. CASE j = Len(next)
        BY <1>1, <1>3, <1>a, <3>1
      <3>2. CASE j # Len(next)
        <4>1. j \in 1..Len(messages) /\ next[j] = messages[j]
          BY <1>3, <3>2
        <4> QED
          BY <4>1 DEF SentInOrder
      <3> QED
        BY <3>1, <3>2
    <2>2. \A i, j \in 1..Len(next) :
            i < j /\ IsRecord(next[i]) /\ IsRecord(next[j]) => next[i].capture < next[j].capture
      <3> SUFFICES ASSUME NEW i \in 1..Len(next), NEW j \in 1..Len(next), i < j, IsRecord(next[i]),
                          IsRecord(next[j])
                   PROVE  next[i].capture < next[j].capture
        OBVIOUS
      <3>1. i \in 1..Len(messages) /\ next[i] = messages[i]
        BY <1>2, <1>3
      <3>2. CASE j = Len(next)
        BY <1>1, <1>3, <1>a, <3>1, <3>2
      <3>3. CASE j # Len(next)
        BY <1>3, <3>1, <3>3 DEF SentInOrder
      <3> QED
        BY <3>2, <3>3
    <2>3. \A i \in 1..Len(next) : IsRecord(next[i]) => next[i].record = Waveform!RecordOf(next[i].capture)
      BY <1>1, <1>3 DEF SentInOrder
    <2> QED
      BY <1>3, <2>1, <2>2, <2>3 DEF SentInOrder
  <1> QED
    BY <1>3, <1>4, <1>5 DEF next, m

\* The page after a message.
AfterTransfer(p, m) ==
    IF IsRecord(m)
      THEN [p EXCEPT !.received = Append(@, m.capture),
                     !.shown = IF p.snapshot = m.capture THEN m.record ELSE @]
      ELSE [p EXCEPT !.snapshot = m.capture,
                     !.shown = IF @ # <<>> /\ @[1].capture # m.capture THEN <<>> ELSE @]

LEMMA TransferTaken ==
    ASSUME NEW p, NEW messages, SentInOrder(p, messages), messages # <<>>,
           NEW n \in Int, SentUpTo(p, messages, n),
           p.shown # <<>> => p.shown = Waveform!RecordOf(p.snapshot)
    PROVE  LET next == AfterTransfer(p, Head(messages))
           IN  /\ SentInOrder(next, Tail(messages)) /\ SentUpTo(next, Tail(messages), n)
               /\ Len(Tail(messages)) <= Len(messages)
               /\ next.shown # <<>> => next.shown = Waveform!RecordOf(next.snapshot)
  <1> DEFINE m == Head(messages)
             rest == Tail(messages)
             next == AfterTransfer(p, m)
  <1>1. /\ messages \in Seq(Transfers) /\ p.received \in Seq(Nat)
        /\ p \in [snapshot : Waveform!Captures, shown : Records, received : Seq(Nat)]
    BY DEF SentInOrder
  <1>2. /\ rest \in Seq(Transfers) /\ Len(rest) = Len(messages) - 1 /\ m = messages[1]
        /\ Len(messages) \in Nat /\ Len(messages) > 0
        /\ \A i \in 1..Len(rest) : rest[i] = messages[i + 1] /\ i + 1 \in 1..Len(messages)
    BY <1>1, HeadTailProperties
  <1>3. 1 \in 1..Len(messages) /\ m \in Transfers
    BY <1>1, <1>2
  <1> HIDE DEF m, rest
  <1>4. m.capture \in Waveform!Captures /\ m.capture \in Nat
    BY <1>3, BoundAssumption DEF Transfers, Waveform!Captures
  <1>5. CASE IsRecord(m)
    <2>1. m.record = Waveform!RecordOf(m.capture)
      BY <1>2, <1>3, <1>5 DEF SentInOrder
    <2>2. /\ next.received = Append(p.received, m.capture) /\ next.snapshot = p.snapshot
          /\ next.shown = IF p.snapshot = m.capture THEN m.record ELSE p.shown
          /\ next \in [snapshot : Waveform!Captures, shown : Records, received : Seq(Nat)]
      <3>1. next = [p EXCEPT !.received = Append(@, m.capture),
                             !.shown = IF p.snapshot = m.capture THEN m.record ELSE @]
        BY <1>5 DEF AfterTransfer
      <3>2. m.record \in Records /\ Append(p.received, m.capture) \in Seq(Nat)
        BY <1>1, <1>3, <1>4 DEF Transfers
      <3> QED
        BY <1>1, <3>1, <3>2
    <2> HIDE DEF next
    <2>3. /\ Len(next.received) = Len(p.received) + 1 /\ next.received[Len(p.received) + 1] = m.capture
          /\ \A i \in 1..Len(p.received) : next.received[i] = p.received[i]
          /\ \A i \in 1..Len(next.received) : i \in 1..Len(p.received) \/ i = Len(p.received) + 1
      BY <1>1, <1>4, <2>2
    <2>4. \A i \in 1..Len(p.received) : p.received[i] < m.capture
      BY <1>2, <1>3, <1>5 DEF SentInOrder
    <2>5. \A i, j \in 1..Len(next.received) : i < j => next.received[i] < next.received[j]
      <3> SUFFICES ASSUME NEW i \in 1..Len(next.received), NEW j \in 1..Len(next.received), i < j
                   PROVE  next.received[i] < next.received[j]
        OBVIOUS
      <3>1. i \in 1..Len(p.received)
        BY <1>1, <2>3
      <3>2. CASE j \in 1..Len(p.received)
        BY <2>3, <3>1, <3>2 DEF SentInOrder
      <3>3. CASE j = Len(p.received) + 1
        BY <2>3, <2>4, <3>1, <3>3
      <3> QED
        BY <2>3, <3>2, <3>3
    <2>6. \A j \in 1..Len(rest) : IsRecord(rest[j]) => m.capture < rest[j].capture
      <3> SUFFICES ASSUME NEW j \in 1..Len(rest), IsRecord(rest[j])
                   PROVE  m.capture < rest[j].capture
        OBVIOUS
      <3>1. rest[j] = messages[j + 1] /\ j + 1 \in 1..Len(messages) /\ 1 < j + 1
        BY <1>2
      <3> QED
        BY <1>2, <1>3, <1>5, <3>1 DEF SentInOrder
    <2>7. SentInOrder(next, rest)
      <3>1. \A i \in 1..Len(next.received), j \in 1..Len(rest) :
              IsRecord(rest[j]) => next.received[i] < rest[j].capture
        BY <1>2, <2>3, <2>6 DEF SentInOrder
      <3>2. \A i, j \in 1..Len(rest) :
              i < j /\ IsRecord(rest[i]) /\ IsRecord(rest[j]) => rest[i].capture < rest[j].capture
        <4> SUFFICES ASSUME NEW i \in 1..Len(rest), NEW j \in 1..Len(rest), i < j,
                            IsRecord(rest[i]), IsRecord(rest[j])
                     PROVE  rest[i].capture < rest[j].capture
          OBVIOUS
        <4>1. /\ i + 1 \in 1..Len(messages) /\ j + 1 \in 1..Len(messages) /\ i + 1 < j + 1
              /\ rest[i] = messages[i + 1] /\ rest[j] = messages[j + 1]
          BY <1>2
        <4> QED
          BY <4>1 DEF SentInOrder
      <3>3. \A i \in 1..Len(rest) : IsRecord(rest[i]) => rest[i].record = Waveform!RecordOf(rest[i].capture)
        BY <1>2 DEF SentInOrder
      <3> QED
        BY <1>2, <2>2, <2>5, <3>1, <3>2, <3>3 DEF SentInOrder
    <2>8. SentUpTo(next, rest, n)
      BY <1>2, <1>3, <1>5, <2>3 DEF SentUpTo
    <2>9. next.shown # <<>> => next.shown = Waveform!RecordOf(next.snapshot)
      BY <2>1, <2>2
    <2> QED
      BY <1>2, <2>7, <2>8, <2>9 DEF next, m, rest
  <1>6. CASE ~ IsRecord(m)
    <2>1. /\ next.received = p.received /\ next.snapshot = m.capture
          /\ next.shown = IF p.shown # <<>> /\ p.shown[1].capture # m.capture THEN <<>> ELSE p.shown
          /\ next \in [snapshot : Waveform!Captures, shown : Records, received : Seq(Nat)]
      BY <1>1, <1>4, <1>6, RecordTypes DEF AfterTransfer
    <2> HIDE DEF next
    <2>2. SentInOrder(next, rest)
      <3>1. \A i \in 1..Len(next.received), j \in 1..Len(rest) :
              IsRecord(rest[j]) => next.received[i] < rest[j].capture
        BY <1>2, <2>1 DEF SentInOrder
      <3>2. \A i, j \in 1..Len(rest) :
              i < j /\ IsRecord(rest[i]) /\ IsRecord(rest[j]) => rest[i].capture < rest[j].capture
        <4> SUFFICES ASSUME NEW i \in 1..Len(rest), NEW j \in 1..Len(rest), i < j,
                            IsRecord(rest[i]), IsRecord(rest[j])
                     PROVE  rest[i].capture < rest[j].capture
          OBVIOUS
        <4>1. /\ i + 1 \in 1..Len(messages) /\ j + 1 \in 1..Len(messages) /\ i + 1 < j + 1
              /\ rest[i] = messages[i + 1] /\ rest[j] = messages[j + 1]
          BY <1>2
        <4> QED
          BY <4>1 DEF SentInOrder
      <3>3. \A i \in 1..Len(rest) : IsRecord(rest[i]) => rest[i].record = Waveform!RecordOf(rest[i].capture)
        BY <1>2 DEF SentInOrder
      <3>4. \A i, j \in 1..Len(next.received) : i < j => next.received[i] < next.received[j]
        BY <2>1 DEF SentInOrder
      <3> QED
        BY <1>2, <2>1, <3>1, <3>2, <3>3, <3>4 DEF SentInOrder
    <2>3. SentUpTo(next, rest, n)
      BY <1>2, <2>1 DEF SentUpTo
    <2>4. next.shown # <<>> => next.shown = Waveform!RecordOf(next.snapshot)
      BY <1>1, <2>1, RecordOfTypes
    <2> QED
      BY <1>2, <2>2, <2>3, <2>4 DEF next, m, rest
  <1> QED
    BY <1>5, <1>6

LEMMA UpToMore ==
    ASSUME NEW p, NEW messages, SentInOrder(p, messages), NEW n \in Int, NEW k \in Int, n <= k,
           SentUpTo(p, messages, n)
    PROVE  SentUpTo(p, messages, k)
  <1>1. \A i \in 1..Len(p.received) : p.received[i] \in Int
    BY DEF SentInOrder
  <1>2. \A i \in 1..Len(messages) : messages[i].capture \in Int
    <2>1. \A i \in 1..Len(messages) : messages[i] \in Transfers
      BY DEF SentInOrder
    <2> QED
      BY <2>1, BoundAssumption DEF Transfers, Waveform!Captures
  <1> QED
    BY <1>1, <1>2 DEF SentUpTo

LEMMA WaveformNumbers ==
    ASSUME WaveformParts
    PROVE  /\ captures \in Nat /\ capture.capture \in Nat /\ acquisition.capture \in Nat
           /\ Len(posted) \in Nat /\ burst \in Int /\ LastSent \in Int
           /\ session \in Nat /\ boot \in Nat /\ Waveform!Idle = -1
           /\ \A q \in late : q.capture \in Nat
  <1>1. /\ capture \in Machines /\ captures \in Waveform!Captures /\ acquisition \in Acquisitions
        /\ posted \in Seq(Transfers) /\ \A q \in late : q.capture \in Waveform!Captures
    BY DEF WaveformParts, WaveformTyped, CaptureOfDevice, LateRequests, RecordsSent, SentInOrder
  <1>2. \A c \in Waveform!Captures : c \in Nat
    BY BoundAssumption DEF Waveform!Captures
  <1>3. burst \in Int /\ session \in Nat /\ boot \in Nat /\ Waveform!Idle = -1
    BY BoundAssumption DEF WaveformParts, WaveformTyped, LateRequests, Waveform!Idle
  <1> QED
    BY <1>1, <1>2, <1>3 DEF Machines, Acquisitions, LastSent

\* While no step runs, nothing is on its way but late requests.
LEMMA WaveformIdle ==
    ASSUME WaveformParts, burst <= 0
    PROVE  capture.pending = "None" /\ request = Waveform!NoRequest /\ response = Waveform!NoResponse
  BY WaveformNumbers DEF WaveformParts, WaveformTyped, RequestOfCapture

LEMMA WaveformRequests ==
    ASSUME WaveformParts, Waveform!RequestCapture
    PROVE  WaveformParts'
  <1>1. /\ burst = -1 /\ session = boot /\ Len(posted) < MaxQueue /\ captures < MaxCapture
        /\ posted' = Append(posted, Waveform!Snapshot(capture'.capture))
        /\ UNCHANGED <<burst, session, request, response, late, record, acquisition, boot>>
    BY WaveformNumbers DEF Waveform!RequestCapture, Waveform!wire, Waveform!env
  <1>2. /\ WaveformTyped /\ Waveform!ShownIsExact /\ CaptureOfWorker /\ RequestOfCapture
        /\ LateRequests /\ CaptureOfDevice /\ AnswerHolds /\ RecordsSent
    BY DEF WaveformParts
  <1>3. capture.pending = "None" /\ request = Waveform!NoRequest /\ response = Waveform!NoResponse
    BY <1>1, WaveformIdle
  <1>4. \/ /\ capture.phase \in {"None", "Stopped"} /\ capture' = Waveform!NewMachine(captures + 1)
           /\ captures' = captures + 1 /\ want' = FALSE /\ published' = FALSE
        \/ /\ capture.phase = "Complete" /\ capture' = [capture EXCEPT !.phase = "Stopping"]
           /\ want' = TRUE /\ captures' = captures /\ published' = published
    BY DEF Waveform!RequestCapture
  <1>5. /\ capture' \in Machines /\ capture' # Waveform!NoMachine /\ capture'.pending = "None"
        /\ captures' \in Waveform!Captures /\ OfNewest(capture', captures')
        /\ KnowsDevice(capture', acquisition)
        /\ \A q \in late : q.boot = boot =>
             q.capture <= acquisition.capture \/ q.capture = capture'.capture
        /\ LastSent <= LastSent'
    <2>1. CASE /\ capture.phase \in {"None", "Stopped"} /\ capture' = Waveform!NewMachine(captures + 1)
               /\ captures' = captures + 1 /\ published' = FALSE
      <3>1. captures + 1 \in Waveform!Captures /\ captures + 1 # 0
        BY <1>1, WaveformNumbers, BoundAssumption DEF Waveform!Captures
      <3>2. /\ acquisition \in Acquisitions /\ acquisition.capture <= captures
            /\ acquisition.phase \in {"None", "Stopped"}
            /\ acquisition.capture = capture.capture
        <4>1. CASE capture.phase = "None"
          BY <1>2, <4>1, WaveformNumbers DEF CaptureOfWorker, OfNewest, CaptureOfDevice, Waveform!NoCapture,
             Waveform!NoMachine
        <4>2. CASE capture.phase = "Stopped"
          <5>1. capture # Waveform!NoMachine /\ capture.capture = captures
            BY <1>2, <4>2 DEF CaptureOfWorker, OfNewest, Waveform!NoMachine
          <5>2. KnowsDevice(capture, acquisition) /\ capture.phase \in Held
            BY <1>1, <1>2, <4>2, <5>1 DEF CaptureOfDevice, Held, Waveform!Phases
          <5> QED
            BY <1>2, <4>2, <5>1, <5>2, WaveformNumbers DEF KnowsDevice, CaptureOfDevice
        <4> QED
          BY <2>1, <4>1, <4>2
      <3>3. OfNewest(capture', captures') /\ KnowsDevice(capture', acquisition)
        BY <2>1, <3>1, <3>2, NewMachineFits, WaveformNumbers
      <3>4. capture' \in Machines /\ capture' # Waveform!NoMachine /\ capture'.pending = "None"
        BY <2>1, <3>1, MachineTypes DEF Waveform!NewMachine, Waveform!NoMachine
      <3>5. LastSent <= LastSent'
        BY <2>1, <3>4, WaveformNumbers DEF LastSent
      <3> QED
        BY <1>1, <1>2, <2>1, <3>1, <3>2, <3>3, <3>4, <3>5, WaveformNumbers DEF LateRequests
    <2>2. CASE /\ capture.phase = "Complete" /\ capture' = [capture EXCEPT !.phase = "Stopping"]
               /\ captures' = captures /\ published' = published
      <3>1. capture \in Machines /\ capture # Waveform!NoMachine /\ capture.phase \in Held
        BY <1>2, <2>2 DEF WaveformTyped, Held, Waveform!Phases, Waveform!NoMachine
      <3>2. /\ capture'.phase = "Stopping" /\ capture'.capture = capture.capture
            /\ capture'.pending = "None" /\ capture' \in Machines /\ capture' # Waveform!NoMachine
        BY <1>3, <2>2, <3>1 DEF Machines, Waveform!Phases, Waveform!NoMachine
      <3>3. OfNewest(capture', captures') /\ KnowsDevice(capture', acquisition)
        BY <1>1, <1>2, <2>2, <3>1, <3>2 DEF CaptureOfWorker, OfNewest, CaptureOfDevice, KnowsDevice
      <3>4. LastSent <= LastSent'
        BY <2>2, <3>1, <3>2, WaveformNumbers DEF LastSent
      <3> QED
        BY <1>2, <2>2, <3>2, <3>3, <3>4 DEF LateRequests, WaveformTyped
    <2> QED
      BY <1>4, <2>1, <2>2
  <1>6. RecordsSent' /\ Len(posted') <= MaxQueue
    <2>1. capture'.capture \in Waveform!Captures /\ LastSent' \in Int
      BY <1>5, BoundAssumption DEF Machines, LastSent, Waveform!Captures
    <2>2. SentInOrder(record, posted) /\ SentUpTo(record, posted, LastSent')
      BY <1>2, <1>5, <2>1, WaveformNumbers, UpToMore DEF RecordsSent
    <2>3. SentInOrder(record, posted') /\ SentUpTo(record, posted', LastSent') /\ Len(posted') = Len(posted) + 1
      BY <1>1, <2>1, <2>2, SnapshotFollows
    <2> QED
      BY <1>1, <2>3, WaveformNumbers, BoundAssumption DEF RecordsSent
  <1>7. WaveformTyped'
    BY <1>1, <1>2, <1>3, <1>4, <1>5, <1>6 DEF WaveformTyped
  <1>8. CaptureOfWorker' /\ CaptureOfDevice' /\ LateRequests'
    BY <1>1, <1>2, <1>5 DEF CaptureOfWorker, CaptureOfDevice, LateRequests, Waveform!Idle
  <1>9. RequestOfCapture' /\ AnswerHolds'
    BY <1>1, <1>2, <1>3, <1>5 DEF RequestOfCapture, AnswerHolds, Waveform!NoResponse, Waveform!Response
  <1>10. Waveform!ShownIsExact'
    BY <1>1, <1>2 DEF Waveform!ShownIsExact
  <1> QED
    BY <1>6, <1>7, <1>8, <1>9, <1>10 DEF WaveformParts

LEMMA WaveformBegins ==
    ASSUME WaveformParts, Waveform!BeginBurst
    PROVE  WaveformParts'
  <1>1. /\ burst = -1 /\ capture # Waveform!NoMachine /\ Len(posted) + 1 < MaxQueue /\ burst' = BurstOps
        /\ UNCHANGED <<capture, want, published, captures, session, request, response, late, posted,
                       record, acquisition, boot>>
    BY WaveformNumbers DEF Waveform!BeginBurst, Waveform!wire, Waveform!env
  <1>2. capture.pending = "None"
    BY <1>1, WaveformIdle
  <1>3. Len(posted) + 2 <= MaxQueue /\ burst' \in Waveform!Idle..BurstOps
    BY <1>1, WaveformNumbers, BoundAssumption
  <1>4. WaveformTyped' /\ CaptureOfWorker'
    BY <1>1, <1>3 DEF WaveformParts, WaveformTyped, CaptureOfWorker
  <1>5. RequestOfCapture'
    BY <1>1, <1>2 DEF WaveformParts, RequestOfCapture
  <1>6. LateRequests' /\ CaptureOfDevice' /\ AnswerHolds' /\ RecordsSent' /\ Waveform!ShownIsExact'
    BY <1>1 DEF WaveformParts, LateRequests, CaptureOfDevice, AnswerHolds, RecordsSent, LastSent,
       Waveform!ShownIsExact
  <1> QED
    BY <1>4, <1>5, <1>6 DEF WaveformParts

\* A device of another boot has no capture, and no late request is of its boot.
LEMMA WaveformBootChanges ==
    ASSUME WaveformParts, Waveform!BootChanged
    PROVE  WaveformParts'
  <1>1. /\ burst = -1 /\ session # boot /\ Len(posted) < MaxQueue /\ session' = boot
        /\ capture' = Waveform!NoMachine /\ want' = FALSE /\ published' = FALSE
        /\ posted' = Append(posted, Waveform!Snapshot(0))
        /\ UNCHANGED <<captures, burst, request, response, late, record, acquisition, boot>>
    BY WaveformNumbers DEF Waveform!BootChanged, Waveform!wire, Waveform!env
  <1>2. /\ WaveformTyped /\ Waveform!ShownIsExact /\ CaptureOfWorker /\ RequestOfCapture
        /\ LateRequests /\ CaptureOfDevice /\ AnswerHolds /\ RecordsSent
    BY DEF WaveformParts
  <1>3. capture.pending = "None" /\ request = Waveform!NoRequest /\ response = Waveform!NoResponse
    BY <1>1, WaveformIdle
  <1>4. capture' \in Machines /\ capture'.pending = "None" /\ 0 \in Waveform!Captures
    BY <1>1, MachineTypes, BoundAssumption DEF Waveform!NoMachine, Waveform!Captures
  <1>5. RecordsSent' /\ Len(posted') <= MaxQueue
    <2>1. LastSent <= LastSent' /\ LastSent' \in Int
      BY <1>1, WaveformNumbers DEF LastSent
    <2>2. SentInOrder(record, posted) /\ SentUpTo(record, posted, LastSent')
      BY <1>2, <2>1, WaveformNumbers, UpToMore DEF RecordsSent
    <2>3. SentInOrder(record, posted') /\ SentUpTo(record, posted', LastSent') /\ Len(posted') = Len(posted) + 1
      BY <1>1, <1>4, <2>1, <2>2, SnapshotFollows
    <2> QED
      BY <1>1, <2>3, WaveformNumbers, BoundAssumption DEF RecordsSent
  <1>6. WaveformTyped'
    BY <1>1, <1>2, <1>3, <1>4, <1>5, BoundAssumption DEF WaveformTyped, LateRequests
  <1>7. CaptureOfWorker' /\ CaptureOfDevice'
    BY <1>1, <1>2 DEF CaptureOfWorker, OfNewest, CaptureOfDevice, Waveform!NoMachine, Waveform!Idle
  <1>8. LateRequests'
    BY <1>1, <1>2, WaveformNumbers DEF LateRequests, WaveformTyped
  <1>9. RequestOfCapture' /\ AnswerHolds'
    BY <1>1, <1>2, <1>3, <1>4 DEF RequestOfCapture, AnswerHolds, Waveform!NoResponse, Waveform!Response
  <1>10. Waveform!ShownIsExact'
    BY <1>1, <1>2 DEF Waveform!ShownIsExact
  <1> QED
    BY <1>5, <1>6, <1>7, <1>8, <1>9, <1>10 DEF WaveformParts

\* A step that installs what is asked for, in a burst, after an answer or before a request.
LEMMA InstalledHolds ==
    ASSUME WaveformParts, capture # Waveform!NoMachine,
           NEW m \in Machines, m # Waveform!NoMachine, m.pending = "None", m.capture = capture.capture,
           OfNewest(m, captures), session = boot => KnowsDevice(m, acquisition),
           Waveform!InstallPending(m),
           request' = Waveform!NoRequest, response' = Waveform!NoResponse,
           burst' \in Waveform!Idle..BurstOps, burst # Waveform!Idle,
           UNCHANGED <<session, late, posted, record, acquisition, boot>>
    PROVE  WaveformParts'
  <1>1. /\ WaveformTyped /\ Waveform!ShownIsExact /\ CaptureOfWorker /\ LateRequests /\ CaptureOfDevice
        /\ RecordsSent
    BY DEF WaveformParts
  <1>2. /\ capture' \in Machines /\ capture' # Waveform!NoMachine /\ capture'.pending = "None"
        /\ want' \in BOOLEAN /\ published' \in BOOLEAN /\ captures' \in Waveform!Captures
        /\ OfNewest(capture', captures')
        /\ session = boot => KnowsDevice(capture', acquisition)
        /\ capture'.capture = captures' /\ captures' >= captures
        /\ captures < captures' \/ published' = published
    BY <1>1, Installing DEF WaveformTyped, CaptureOfDevice
  <1>3. captures' \in Nat /\ captures \in Nat /\ capture.capture = captures
    BY <1>1, <1>2, WaveformNumbers, BoundAssumption DEF Waveform!Captures, CaptureOfWorker, OfNewest
  <1>4. WaveformTyped' /\ CaptureOfWorker'
    BY <1>1, <1>2 DEF WaveformTyped, CaptureOfWorker, Waveform!NoRequest, Waveform!NoResponse, Waveform!Response
  <1>5. LateRequests'
    <2> SUFFICES ASSUME NEW q \in late, q.boot = boot
                 PROVE  q.capture <= acquisition.capture \/ q.capture = capture'.capture
      BY <1>1 DEF LateRequests
    <2>1. session = boot
      BY <1>1, WaveformNumbers DEF LateRequests
    <2>2. q.capture <= acquisition.capture \/ q.capture = captures
      BY <1>1, <1>3 DEF LateRequests
    <2>3. CASE Waveform!Installs(m)
      <3>1. m.phase = "Stopped"
        BY <2>3 DEF Waveform!Installs
      <3>2. acquisition.capture = captures
        BY <1>3, <2>1, <3>1 DEF KnowsDevice, Held, Waveform!Phases
      <3> QED
        BY <1>3, <2>2, <3>2
    <2>4. CASE ~ Waveform!Installs(m)
      BY <1>3, <2>2, <2>4 DEF Waveform!InstallPending
    <2> QED
      BY <2>3, <2>4
  <1>6. CaptureOfDevice'
    BY <1>1, <1>2 DEF CaptureOfDevice
  <1>7. RequestOfCapture' /\ AnswerHolds'
    BY <1>2, RecordTypes DEF RequestOfCapture, AnswerHolds, Waveform!NoResponse, Waveform!Response
  <1>8. RecordsSent'
    <2>1. LastSent' \in Int /\ LastSent \in Int /\ LastSent <= LastSent'
      <3>1. /\ LastSent' = captures' - 1 \/ LastSent' = captures'
            /\ LastSent = captures - 1 \/ LastSent = captures
        BY DEF LastSent
      <3>2. published' = published =>
              \/ LastSent' = captures' - 1 /\ LastSent = captures - 1
              \/ LastSent' = captures' /\ LastSent = captures
        BY <1>2 DEF LastSent
      <3>3. CASE captures < captures'
        BY <1>3, <3>1, <3>3
      <3>4. CASE published' = published
        BY <1>2, <1>3, <3>2, <3>4
      <3> QED
        BY <1>2, <3>3, <3>4
    <2>2. SentInOrder(record, posted) /\ SentUpTo(record, posted, LastSent')
      BY <1>1, <2>1, UpToMore DEF RecordsSent
    <2> QED
      BY <2>2 DEF RecordsSent
  <1>9. Waveform!ShownIsExact'
    BY <1>1 DEF Waveform!ShownIsExact
  <1> QED
    BY <1>4, <1>5, <1>6, <1>7, <1>8, <1>9 DEF WaveformParts

LEMMA WaveformDrives ==
    ASSUME WaveformParts, Waveform!Drive
    PROVE  WaveformParts'
  <1>1. /\ burst > 0 /\ request = Waveform!NoRequest
        /\ UNCHANGED <<session, response, late, posted, record, acquisition, boot>>
    BY DEF Waveform!Drive, Waveform!env
  <1>2. /\ WaveformTyped /\ Waveform!ShownIsExact /\ CaptureOfWorker /\ RequestOfCapture
        /\ LateRequests /\ CaptureOfDevice /\ AnswerHolds /\ RecordsSent
    BY DEF WaveformParts
  <1>3. /\ capture.pending = "None" /\ response = Waveform!NoResponse
        /\ capture \in Machines /\ capture # Waveform!NoMachine
        /\ OfNewest(capture, captures) /\ capture.phase # "None"
        /\ session = boot => KnowsDevice(capture, acquisition)
    BY <1>1, <1>2, WaveformNumbers DEF WaveformTyped, RequestOfCapture, CaptureOfWorker, CaptureOfDevice, OfNewest
  <1>4. Waveform!ShownIsExact' /\ AnswerHolds'
    BY <1>1, <1>2, <1>3 DEF Waveform!ShownIsExact, AnswerHolds, Waveform!NoResponse, Waveform!Response
  <1>5. CASE burst' = 0 /\ UNCHANGED <<capture, want, published, captures, request>>
    <2>1. WaveformTyped' /\ CaptureOfWorker'
      BY <1>1, <1>2, <1>3, <1>5, BoundAssumption DEF WaveformTyped, CaptureOfWorker, Waveform!Idle
    <2>2. RequestOfCapture' /\ LateRequests' /\ CaptureOfDevice' /\ RecordsSent'
      BY <1>1, <1>2, <1>3, <1>5 DEF RequestOfCapture, LateRequests, CaptureOfDevice, RecordsSent, LastSent
    <2> QED
      BY <1>4, <2>1, <2>2 DEF WaveformParts
  <1>6. CASE Waveform!InstallPending(Waveform!Arms(capture)) /\ UNCHANGED <<burst, request>>
    <2> DEFINE m == Waveform!Arms(capture)
    <2>1. /\ m \in Machines /\ m # Waveform!NoMachine /\ m.pending = "None" /\ m.capture = capture.capture
          /\ m.phase = "Stopped" <=> capture.phase = "Stopped"
          /\ OfNewest(m, captures) /\ (session = boot => KnowsDevice(m, acquisition))
      BY <1>3 DEF Waveform!Arms, Machines, Waveform!Phases, OfNewest, KnowsDevice, Held, Waveform!NoMachine
    <2>2. Waveform!InstallPending(m)
      BY <1>6
    <2> HIDE DEF m
    <2>3. /\ burst # Waveform!Idle /\ burst' \in Waveform!Idle..BurstOps
          /\ request' = Waveform!NoRequest /\ response' = Waveform!NoResponse
      BY <1>1, <1>2, <1>3, <1>6, WaveformNumbers DEF WaveformTyped
    <2> QED
      BY <1>1, <1>3, <2>1, <2>2, <2>3, InstalledHolds
  <1>7. CASE /\ capture' = [capture EXCEPT !.pending = Waveform!NextAction]
             /\ capture.phase \notin {"Complete", "Stopped", "Configured"}
             /\ request' = Waveform!RequestOf(Waveform!NextAction)
             /\ UNCHANGED <<burst, want, published, captures>>
    <2>1. Waveform!NextAction \in Waveform!Actions \ {"None"}
      BY <1>3, <1>7 DEF Machines, Waveform!Phases, Waveform!NextAction, Waveform!Actions
    <2>2. /\ capture' \in Machines /\ capture'.pending = Waveform!NextAction /\ capture'.capture = capture.capture
          /\ capture'.phase = capture.phase /\ capture'.record = capture.record
          /\ capture' # Waveform!NoMachine
      BY <1>3, <1>7, <2>1 DEF Machines, Waveform!NoMachine
    <2>3. Waveform!NextAction' = Waveform!NextAction
      BY <2>2 DEF Waveform!NextAction
    <2>4. request' = Waveform!RequestOf(capture.pending)'
      BY <1>1, <1>7, <2>2 DEF Waveform!RequestOf
    <2>5. RequestOfCapture'
      BY <1>1, <1>2, <1>3, <1>7, <2>2, <2>3, <2>4 DEF RequestOfCapture
    <2>6. request' # Waveform!NoRequest /\ request'.op \in {"None", "Configure", "Arm", "Stop", "Read", "Status"}
      BY <1>7, <2>1 DEF Waveform!RequestOf, Waveform!NoRequest, Waveform!Actions
    <2>7. WaveformTyped'
      BY <1>1, <1>2, <1>7, <2>1, <2>2, <2>6 DEF WaveformTyped
    <2>8. OfNewest(capture', captures') /\ (session = boot => KnowsDevice(capture', acquisition))
      BY <1>3, <1>7, <2>2 DEF OfNewest, KnowsDevice, Waveform!NoMachine
    <2>9. CaptureOfWorker' /\ CaptureOfDevice' /\ LateRequests' /\ RecordsSent'
      BY <1>1, <1>2, <1>3, <1>7, <2>2, <2>8 DEF CaptureOfWorker, CaptureOfDevice, LateRequests, RecordsSent, LastSent
    <2> QED
      BY <1>4, <2>5, <2>7, <2>9 DEF WaveformParts
  <1> QED
    BY <1>5, <1>6, <1>7 DEF Waveform!Drive

\* The phase an answer leads to, and what the worker then knows.
LEMMA AnswerAccepted ==
    ASSUME WaveformParts, response # Waveform!NoResponse
    PROVE  LET m == Waveform!Accepted(response)
           IN  /\ m \in Machines /\ m # Waveform!NoMachine /\ m.pending = "None"
               /\ m.capture = capture.capture
               /\ OfNewest(m, captures) /\ KnowsDevice(m, acquisition)
  <1>1. /\ WaveformTyped /\ CaptureOfWorker /\ RequestOfCapture /\ CaptureOfDevice /\ AnswerHolds
    BY DEF WaveformParts
  <1>2. /\ capture \in Machines /\ capture.pending # "None" /\ capture.pending = Waveform!NextAction
        /\ session = boot /\ response.range \in Waveform!Ranges
        /\ OfNewest(capture, captures)
    BY <1>1 DEF WaveformTyped, RequestOfCapture, CaptureOfWorker
  <1>3. capture # Waveform!NoMachine /\ capture.phase # "None" /\ KnowsDevice(capture, acquisition)
        /\ capture.capture \in Waveform!Captures /\ capture.capture = captures /\ captures # 0
    BY <1>1, <1>2 DEF Waveform!NoMachine, CaptureOfDevice, OfNewest, Machines
  <1>4. capture.phase \in Waveform!Phases
    BY <1>2 DEF Machines
  <1> DEFINE range == response.range
             read == Append(capture.record, range)
             m == Waveform!Accepted(response)
  <1>5. CASE capture.pending = "Read" /\ response.status = "Ok"
    <2>1. capture.phase = "Downloading"
      BY <1>2, <1>4, <1>5 DEF Waveform!NextAction, Waveform!Phases
    <2>2. capture.record \in Seq(Waveform!Ranges) /\ Len(capture.record) < Chunks
      BY <1>2, <2>1, RecordTypes DEF OfNewest, Machines
    <2>3. read \in Records /\ Len(read) <= Chunks /\ Len(read) \in Nat
      <3>1. read \in Seq(Waveform!Ranges) /\ Len(read) = Len(capture.record) + 1
        BY <1>2, <2>2
      <3> HIDE DEF read
      <3>2. Len(capture.record) \in Nat /\ Chunks \in Nat
        BY <2>2, BoundAssumption
      <3>3. Len(read) <= Chunks /\ Len(read) \in Nat
        BY <2>2, <3>1, <3>2
      <3> QED
        BY <3>1, <3>3, RecordTypes
    <2>4. m = [capture EXCEPT !.pending = "None", !.phase = Waveform!RangePhase(read),
                              !.record = Waveform!RecordAfter(read)]
      BY <1>5 DEF Waveform!Accepted
    <2> HIDE DEF read, m
    <2>5. /\ Waveform!RangePhase(read) \in {"Complete", "Downloading"}
          /\ Waveform!RangePhase(read) = "Complete" => read = Waveform!RecordOf(capture.capture)
      BY DEF Waveform!RangePhase
    <2>6. /\ Waveform!RecordAfter(read) \in Records
          /\ Waveform!RangePhase(read) = "Complete" => Waveform!RecordAfter(read) = read
          /\ Waveform!RangePhase(read) = "Downloading" => Len(Waveform!RecordAfter(read)) < Chunks
      BY <2>3, <2>5, RecordTypes, BoundAssumption DEF Waveform!RecordAfter
    <2>7. /\ m \in Machines /\ m.pending = "None" /\ m.capture = capture.capture
          /\ m.phase = Waveform!RangePhase(read) /\ m.record = Waveform!RecordAfter(read)
      BY <1>2, <2>4, <2>5, <2>6 DEF Machines, Waveform!Phases, Waveform!Actions
    <2>8. m # Waveform!NoMachine
      BY <2>5, <2>7 DEF Waveform!NoMachine
    <2>9. OfNewest(m, captures)
      BY <1>3, <2>5, <2>6, <2>7, <2>8 DEF OfNewest, Waveform!NoMachine
    <2>10. KnowsDevice(m, acquisition)
      BY <1>3, <2>1, <2>5, <2>7 DEF KnowsDevice, Held, Waveform!Phases
    <2> QED
      BY <2>7, <2>8, <2>9, <2>10 DEF m
  <1>6. CASE /\ ~ (capture.pending = "Read" /\ response.status = "Ok")
             /\ capture.pending = "Read" \/ Waveform!StatusPhase(response) = "Error"
    <2>1. m = [capture EXCEPT !.pending = "None"]
      BY <1>6 DEF Waveform!Accepted
    <2> HIDE DEF m
    <2>2. m \in Machines /\ m.pending = "None" /\ m.capture = capture.capture /\ m.phase = capture.phase
          /\ m.record = capture.record /\ m # Waveform!NoMachine
      BY <1>2, <1>3, <2>1 DEF Machines, Waveform!Actions, Waveform!NoMachine
    <2>3. OfNewest(m, captures) /\ KnowsDevice(m, acquisition)
      BY <1>2, <1>3, <2>2 DEF OfNewest, KnowsDevice, Waveform!NoMachine
    <2> QED
      BY <2>2, <2>3 DEF m
  <1>7. CASE capture.pending # "Read" /\ Waveform!StatusPhase(response) # "Error"
    <2> DEFINE phase == Waveform!StatusPhase(response)
    <2>1. m = [capture EXCEPT !.pending = "None", !.phase = phase, !.record = <<>>]
      BY <1>7 DEF Waveform!Accepted
    <2>2. /\ phase \in {"Configuring", "Configured", "Stopped", "Armed", "Downloading", "Arming"}
          /\ response.status = "NotFound" =>
               \/ phase = "Configuring" /\ capture.pending = "PollConfigure"
               \/ phase = "Stopped" /\ capture.pending = "PollStop"
          /\ response.status \in {"Ok", "NotFound"}
          /\ response.status = "Ok" /\ phase = "Stopped" => response.phase = "Stopped"
          /\ response.status = "Ok" => phase # "Configuring"
      BY <1>7 DEF Waveform!StatusPhase
    <2> HIDE DEF m, phase
    <2>3. /\ m \in Machines /\ m.pending = "None" /\ m.capture = capture.capture /\ m.phase = phase
          /\ m.record = <<>> /\ m # Waveform!NoMachine
      BY <1>2, <2>1, <2>2, RecordTypes DEF Machines, Waveform!Actions, Waveform!Phases, Waveform!NoMachine
    <2>4. OfNewest(m, captures)
      BY <1>3, <2>2, <2>3, BoundAssumption DEF OfNewest, Waveform!NoMachine
    <2>5. KnowsDevice(m, acquisition)
      <3>1. CASE response.status = "Ok"
        BY <1>1, <2>2, <2>3, <3>1 DEF AnswerHolds, KnowsDevice
      <3>2. CASE response.status = "NotFound"
        <4>1. capture.phase \notin Held
          BY <1>1, <3>2 DEF AnswerHolds
        <4>2. phase = "Configuring"
          BY <1>2, <1>4, <2>2, <3>2, <4>1 DEF Held, Waveform!NextAction, Waveform!Phases
        <4> QED
          BY <1>3, <2>3, <4>2 DEF KnowsDevice, Held
      <3> QED
        BY <2>2, <3>1, <3>2
    <2> QED
      BY <2>3, <2>4, <2>5 DEF m
  <1> QED
    BY <1>5, <1>6, <1>7

LEMMA WaveformAccepts ==
    ASSUME WaveformParts, Waveform!AcceptResponse
    PROVE  WaveformParts'
  <1>1. /\ response # Waveform!NoResponse /\ request' = Waveform!NoRequest
        /\ response' = Waveform!NoResponse
        /\ burst' \in {0, burst - 1}
        /\ UNCHANGED <<session, late, posted, record, acquisition, boot>>
    BY DEF Waveform!AcceptResponse, Waveform!env
  <1>2. /\ WaveformTyped /\ Waveform!ShownIsExact /\ CaptureOfWorker /\ RequestOfCapture
        /\ LateRequests /\ CaptureOfDevice /\ AnswerHolds /\ RecordsSent
    BY DEF WaveformParts
  <1>3. burst > 0 /\ session = boot /\ capture # Waveform!NoMachine
    BY <1>1, <1>2, WaveformNumbers DEF RequestOfCapture, CaptureOfWorker
  <1>4. burst' \in Waveform!Idle..BurstOps /\ burst' # Waveform!Idle
    BY <1>1, <1>2, <1>3, WaveformNumbers, BoundAssumption DEF WaveformTyped
  <1> DEFINE m == Waveform!Accepted(response)
  <1>5. /\ m \in Machines /\ m # Waveform!NoMachine /\ m.pending = "None" /\ m.capture = capture.capture
        /\ OfNewest(m, captures) /\ KnowsDevice(m, acquisition)
    BY <1>1, AnswerAccepted
  <1>6. \/ capture' = m /\ UNCHANGED <<want, published, captures>>
        \/ Waveform!InstallPending(m)
    BY DEF Waveform!AcceptResponse
  <1> HIDE DEF m
  <1>7. CASE capture' = m /\ UNCHANGED <<want, published, captures>>
    <2>1. WaveformTyped' /\ CaptureOfWorker'
      BY <1>1, <1>2, <1>3, <1>4, <1>5, <1>7 DEF WaveformTyped, CaptureOfWorker, Waveform!NoRequest, Waveform!NoResponse,
         Waveform!Response
    <2>2. LateRequests' /\ CaptureOfDevice'
      BY <1>1, <1>2, <1>3, <1>5, <1>7 DEF LateRequests, CaptureOfDevice
    <2>3. RequestOfCapture' /\ AnswerHolds'
      BY <1>1, <1>5, <1>7, RecordTypes DEF RequestOfCapture, AnswerHolds, Waveform!NoResponse, Waveform!Response
    <2>4. RecordsSent' /\ Waveform!ShownIsExact'
      BY <1>1, <1>2, <1>3, <1>5, <1>7 DEF RecordsSent, LastSent, Waveform!ShownIsExact
    <2> QED
      BY <2>1, <2>2, <2>3, <2>4 DEF WaveformParts
  <1>8. CASE Waveform!InstallPending(m)
    <2>1. burst # Waveform!Idle
      BY <1>3, WaveformNumbers
    <2> QED
      BY <1>1, <1>3, <1>4, <1>5, <1>8, <2>1, InstalledHolds
  <1> QED
    BY <1>6, <1>7, <1>8

\* A request that failed may still reach the device; the phase becomes one that asks again.
LEMMA WaveformAbandons ==
    ASSUME WaveformParts, Waveform!AbandonPending
    PROVE  WaveformParts'
  <1>1. /\ request # Waveform!NoRequest /\ request' = Waveform!NoRequest
        /\ response' = Waveform!NoResponse /\ burst' = 0
        /\ capture' = [capture EXCEPT !.pending = "None", !.phase = Waveform!AfterAbandon(capture.pending)]
        /\ late' \in {late, late \cup {request}}
        /\ UNCHANGED <<want, published, captures, session, posted, record, acquisition, boot>>
    BY DEF Waveform!AbandonPending
  <1>2. /\ WaveformTyped /\ Waveform!ShownIsExact /\ CaptureOfWorker /\ RequestOfCapture
        /\ LateRequests /\ CaptureOfDevice /\ AnswerHolds /\ RecordsSent
    BY DEF WaveformParts
  <1>3. /\ capture.pending # "None" /\ burst > 0 /\ capture.pending = Waveform!NextAction
        /\ request = Waveform!RequestOf(capture.pending) /\ capture \in Machines
        /\ capture # Waveform!NoMachine /\ capture.phase # "None"
        /\ OfNewest(capture, captures) /\ (session = boot => KnowsDevice(capture, acquisition))
    BY <1>1, <1>2, WaveformNumbers DEF WaveformTyped, RequestOfCapture, CaptureOfWorker, CaptureOfDevice, OfNewest
  <1> DEFINE phase == Waveform!AfterAbandon(capture.pending)
  <1>4. /\ phase \in Waveform!Phases /\ phase \notin {"None", "Stopped", "Complete"}
        /\ phase = "Downloading" => capture.phase = "Downloading"
        /\ capture.phase \notin Held => phase \notin Held
    BY <1>3 DEF Machines, Waveform!AfterAbandon, Waveform!NextAction, Waveform!Phases, Held
  <1> HIDE DEF phase
  <1>5. /\ capture' \in Machines /\ capture'.pending = "None" /\ capture'.capture = capture.capture
        /\ capture'.phase = phase /\ capture'.record = capture.record /\ capture' # Waveform!NoMachine
    BY <1>1, <1>3, <1>4 DEF Machines, Waveform!Actions, Waveform!NoMachine, phase
  <1>6. OfNewest(capture', captures) /\ (session = boot => KnowsDevice(capture', acquisition))
    BY <1>3, <1>4, <1>5 DEF OfNewest, KnowsDevice, Waveform!NoMachine
  <1>7. request.boot = session /\ request.capture = capture.capture
    BY <1>3 DEF Waveform!RequestOf
  <1>8. WaveformTyped' /\ CaptureOfWorker'
    BY <1>1, <1>2, <1>3, <1>5, <1>6, WaveformNumbers, BoundAssumption DEF WaveformTyped, CaptureOfWorker,
       Waveform!NoRequest, Waveform!NoResponse, Waveform!Response
  <1>9. LateRequests'
    <2>1. capture.capture \in Waveform!Captures
      BY <1>3 DEF Machines
    <2>2. \A q \in late' : q \in late \/ q = request
      BY <1>1
    <2> QED
      BY <1>1, <1>2, <1>5, <1>7, <2>1, <2>2, WaveformNumbers DEF LateRequests
  <1>10. CaptureOfDevice'
    BY <1>1, <1>2, <1>3, <1>5, <1>6 DEF CaptureOfDevice
  <1>11. RequestOfCapture' /\ AnswerHolds'
    BY <1>1, <1>5, RecordTypes DEF RequestOfCapture, AnswerHolds, Waveform!NoResponse, Waveform!Response
  <1>12. RecordsSent' /\ Waveform!ShownIsExact'
    BY <1>1, <1>2, <1>3, <1>5 DEF RecordsSent, LastSent, Waveform!ShownIsExact
  <1> QED
    BY <1>8, <1>9, <1>10, <1>11, <1>12 DEF WaveformParts

\* finish_device_step: a record is posted before the snapshot, once.
LEMMA WaveformFinishes ==
    ASSUME WaveformParts, Waveform!FinishStep
    PROVE  WaveformParts'
  <1>1. /\ burst = 0 /\ burst' = -1 /\ published' = (published \/ Waveform!Due)
        /\ posted' = posted \o (IF Waveform!Due THEN <<Waveform!Document(capture.capture, capture.record)>> ELSE <<>>)
                            \o <<Waveform!Snapshot(capture.capture)>>
        /\ UNCHANGED <<capture, want, captures, session, request, response, late, record, acquisition, boot>>
    BY DEF Waveform!FinishStep, Waveform!Idle, Waveform!wire, Waveform!env
  <1>2. /\ WaveformTyped /\ Waveform!ShownIsExact /\ CaptureOfWorker /\ RequestOfCapture
        /\ LateRequests /\ CaptureOfDevice /\ AnswerHolds /\ RecordsSent
    BY DEF WaveformParts
  <1>3. /\ capture.pending = "None" /\ response = Waveform!NoResponse
        /\ capture # Waveform!NoMachine /\ Len(posted) + 2 <= MaxQueue
        /\ capture.capture \in Waveform!Captures /\ capture.capture = captures
    BY <1>1, <1>2, WaveformIdle, WaveformNumbers DEF WaveformTyped, Machines, CaptureOfWorker, OfNewest
  <1>4. posted \in Seq(Transfers)
    BY <1>2 DEF RecordsSent, SentInOrder
  <1> DEFINE snapshot == Waveform!Snapshot(capture.capture)
             document_ == Waveform!Document(capture.capture, capture.record)
  <1>5. /\ published' \in BOOLEAN
        /\ Waveform!Due => published' = TRUE
        /\ ~ Waveform!Due => published' = published
    <2>1. published \in BOOLEAN /\ Waveform!Due \in BOOLEAN
      BY <1>2 DEF WaveformTyped, Waveform!Due
    <2> QED
      BY <1>1, <2>1, Zenon
  <1>6. RecordsSent' /\ Len(posted') <= MaxQueue
    <2>1. CASE Waveform!Due
      <3>1. capture.record = Waveform!RecordOf(captures) /\ published = FALSE
        BY <1>2, <1>3, <2>1 DEF Waveform!Due, CaptureOfWorker, OfNewest, WaveformTyped
      <3> DEFINE before == Append(posted, document_)
      <3>2. LastSent = captures - 1 /\ LastSent' = captures
        BY <1>1, <1>3, <1>5, <2>1, <3>1 DEF LastSent
      <3>3. /\ SentInOrder(record, before) /\ Len(before) = Len(posted) + 1
            /\ SentUpTo(record, before, captures)
        BY <1>2, <1>3, <3>1, <3>2, WaveformNumbers, RecordFollows DEF RecordsSent
      <3>4. posted' = Append(before, snapshot)
        <4>1. posted' = posted \o <<document_>> \o <<snapshot>>
          BY <1>1, <2>1
        <4>2. document_ \in Transfers /\ snapshot \in Transfers
          BY <1>3, <3>1, RecordTypes, RecordOfTypes DEF Transfers, Waveform!Document, Waveform!Snapshot
        <4> HIDE DEF document_, snapshot
        <4>3. before = posted \o <<document_>> /\ before \in Seq(Transfers)
          BY <1>4, <4>2
        <4>4. posted' = before \o <<snapshot>>
          BY <4>1, <4>3
        <4> HIDE DEF before
        <4> QED
          BY <4>2, <4>3, <4>4, AppendIsConcat
      <3> HIDE DEF before
      <3>5. /\ SentInOrder(record, posted') /\ Len(posted') = Len(before) + 1
            /\ SentUpTo(record, posted', captures)
        BY <1>3, <3>3, <3>4, WaveformNumbers, SnapshotFollows
      <3> QED
        BY <1>1, <1>3, <3>2, <3>3, <3>5, WaveformNumbers, BoundAssumption DEF RecordsSent
    <2>2. CASE ~ Waveform!Due
      <3>1. posted' = Append(posted, snapshot)
        <4>1. posted' = posted \o <<>> \o <<snapshot>>
          BY <1>1, <2>2
        <4>2. snapshot \in Transfers
          BY <1>3, RecordTypes DEF Transfers, Waveform!Snapshot
        <4> HIDE DEF snapshot
        <4> QED
          BY <1>4, <4>1, <4>2
      <3>2. LastSent' = LastSent
        BY <1>1, <1>5, <2>2 DEF LastSent
      <3>3. /\ SentInOrder(record, posted') /\ Len(posted') = Len(posted) + 1
            /\ SentUpTo(record, posted', LastSent)
        BY <1>2, <1>3, <3>1, WaveformNumbers, SnapshotFollows DEF RecordsSent
      <3> QED
        BY <1>1, <1>3, <3>2, <3>3, WaveformNumbers, BoundAssumption DEF RecordsSent
    <2> QED
      BY <2>1, <2>2
  <1>7. WaveformTyped' /\ CaptureOfWorker'
    BY <1>1, <1>2, <1>3, <1>5, <1>6, BoundAssumption DEF WaveformTyped, CaptureOfWorker, Waveform!Idle
  <1>8. LateRequests' /\ CaptureOfDevice' /\ RequestOfCapture' /\ AnswerHolds' /\ Waveform!ShownIsExact'
    BY <1>1, <1>2, <1>3 DEF LateRequests, CaptureOfDevice, RequestOfCapture, AnswerHolds, Waveform!ShownIsExact
  <1> QED
    BY <1>6, <1>7, <1>8 DEF WaveformParts

LEMMA WaveformReceives ==
    ASSUME WaveformParts, Waveform!PageReceives
    PROVE  WaveformParts'
  <1>1. /\ posted # <<>> /\ posted' = Tail(posted)
        /\ UNCHANGED <<capture, want, published, captures, burst, session, request, response, late,
                       acquisition, boot>>
    BY DEF Waveform!PageReceives, Waveform!worker, Waveform!wire, Waveform!env
  <1>2. /\ WaveformTyped /\ Waveform!ShownIsExact /\ CaptureOfWorker /\ RecordsSent
    BY DEF WaveformParts
  <1>3. record' = AfterTransfer(record, Head(posted))
    BY DEF Waveform!PageReceives, AfterTransfer, IsRecord, Waveform!Admits
  <1>4. /\ SentInOrder(record', posted') /\ SentUpTo(record', posted', LastSent)
        /\ Len(posted') <= Len(posted)
        /\ record'.shown # <<>> => record'.shown = Waveform!RecordOf(record'.snapshot)
    BY <1>1, <1>2, <1>3, TransferTaken, WaveformNumbers DEF RecordsSent, Waveform!ShownIsExact
  <1>5. LastSent' = LastSent
    BY <1>1 DEF LastSent
  <1>6. RecordsSent' /\ Waveform!ShownIsExact'
    BY <1>4, <1>5 DEF RecordsSent, Waveform!ShownIsExact
  <1>7. Len(posted') \in Nat
    BY <1>4 DEF SentInOrder
  <1>8. WaveformTyped' /\ CaptureOfWorker'
    BY <1>1, <1>2, <1>4, <1>7, WaveformNumbers, BoundAssumption DEF WaveformTyped, CaptureOfWorker
  <1>9. LateRequests' /\ CaptureOfDevice' /\ RequestOfCapture' /\ AnswerHolds'
    BY <1>1 DEF WaveformParts, LateRequests, CaptureOfDevice, RequestOfCapture, AnswerHolds,
       Waveform!NextAction, Waveform!RequestOf
  <1> QED
    BY <1>6, <1>8, <1>9 DEF WaveformParts

\* A request that reaches the device is of its boot, so the worker still speaks for it.
LEMMA WaveformArrives ==
    ASSUME WaveformParts, NEW q \in late \cup {request}, Waveform!Arrive(q)
    PROVE  WaveformParts'
  <1>1. /\ q.boot = boot /\ Waveform!Effect(q) # "None"
        /\ acquisition' = [capture |-> q.capture, phase |-> Waveform!Effect(q)]
        /\ UNCHANGED <<capture, want, published, captures, burst, session, request, response, late, posted,
                       record, boot>>
    BY DEF Waveform!Arrive, Waveform!worker, Waveform!wire
  <1>2. /\ WaveformTyped /\ Waveform!ShownIsExact /\ CaptureOfWorker /\ RequestOfCapture
        /\ LateRequests /\ CaptureOfDevice /\ AnswerHolds /\ RecordsSent
    BY DEF WaveformParts
  <1>3. q \in late \/ (q = request /\ capture.pending # "None")
    BY <1>1, <1>2 DEF WaveformTyped, Waveform!Effect, Waveform!NoRequest
  <1>4. /\ q.capture \in Waveform!Captures /\ q.capture \in Nat /\ session = boot
        /\ q.capture <= acquisition.capture \/ q.capture = capture.capture
    <2>1. CASE q \in late
      BY <1>1, <1>2, <2>1, WaveformNumbers DEF LateRequests
    <2>2. CASE q = request /\ capture.pending # "None"
      <3>1. q.capture = capture.capture /\ q.boot = session
        BY <1>2, <2>2 DEF RequestOfCapture, Waveform!RequestOf
      <3> QED
        BY <1>1, <1>2, <3>1, WaveformNumbers DEF WaveformTyped, Machines
    <2> QED
      BY <1>3, <2>1, <2>2
  <1>5. /\ acquisition.capture = 0 <=> acquisition.phase = "None"
        /\ acquisition \in Acquisitions /\ acquisition.capture \in Nat /\ capture.capture \in Nat
    BY <1>2, WaveformNumbers DEF CaptureOfDevice
  <1>6. \/ /\ Waveform!Effect(q) = "Configured" /\ q.capture > acquisition.capture
           /\ acquisition.phase \in {"None", "Stopped"}
        \/ /\ Waveform!Effect(q) = "Armed" /\ q.capture = acquisition.capture
           /\ acquisition.phase = "Configured"
        \/ /\ Waveform!Effect(q) = "Stopped" /\ q.capture = acquisition.capture
           /\ acquisition.phase \notin {"None", "Stopped"}
    BY <1>1 DEF Waveform!Effect
  <1>7. capture # Waveform!NoMachine /\ KnowsDevice(capture, acquisition)
    <2>1. capture # Waveform!NoMachine
      <3> SUFFICES ASSUME capture = Waveform!NoMachine
                   PROVE  FALSE
        OBVIOUS
      <3>1. acquisition.capture = 0 /\ acquisition.phase = "None" /\ capture.capture = 0
        BY <1>2 DEF CaptureOfDevice, Waveform!NoCapture, Waveform!NoMachine
      <3> QED
        BY <1>4, <1>6, <3>1
    <2> QED
      BY <1>2, <1>4, <2>1 DEF CaptureOfDevice
  <1>8. /\ acquisition' \in Acquisitions /\ acquisition'.capture = q.capture
        /\ acquisition'.phase = Waveform!Effect(q)
    BY <1>1, <1>4, <1>6 DEF Acquisitions
  <1>9. /\ acquisition.capture <= q.capture
        /\ acquisition.capture = capture.capture => q.capture = capture.capture
        /\ acquisition.phase = "Stopped" /\ acquisition.capture = capture.capture => FALSE
    BY <1>4, <1>5, <1>6
  <1>10. KnowsDevice(capture, acquisition') /\ acquisition'.capture # 0 /\ acquisition'.phase # "None"
    BY <1>4, <1>5, <1>6, <1>7, <1>8, <1>9 DEF KnowsDevice, Held, Waveform!Phases
  <1>11. CaptureOfDevice'
    BY <1>1, <1>4, <1>7, <1>8, <1>10 DEF CaptureOfDevice
  <1>12. LateRequests'
    <2>1. \A r \in late : r.boot = boot => r.capture <= acquisition'.capture \/ r.capture = capture.capture
      <3> SUFFICES ASSUME NEW r \in late, r.boot = boot, r.capture # capture.capture
                   PROVE  r.capture <= q.capture
        BY <1>8
      <3>1. r.capture <= acquisition.capture /\ r.capture \in Nat
        BY <1>2, WaveformNumbers DEF LateRequests
      <3> QED
        BY <1>4, <1>5, <1>9, <3>1
    <2> QED
      BY <1>1, <1>2, <2>1 DEF LateRequests
  <1>13. AnswerHolds'
    BY <1>1, <1>2, <1>8, <1>9 DEF AnswerHolds
  <1>14. WaveformTyped' /\ CaptureOfWorker' /\ RequestOfCapture' /\ RecordsSent' /\ Waveform!ShownIsExact'
    BY <1>1, <1>2 DEF WaveformTyped, CaptureOfWorker, RequestOfCapture, RecordsSent, LastSent,
       Waveform!ShownIsExact, Waveform!NextAction, Waveform!RequestOf
  <1> QED
    BY <1>11, <1>12, <1>13, <1>14 DEF WaveformParts

LEMMA WaveformAnswers ==
    ASSUME WaveformParts, Waveform!DeviceAnswers
    PROVE  WaveformParts'
  <1>1. /\ request # Waveform!NoRequest /\ request.boot = boot /\ response' \in Waveform!Answers(request)
        /\ UNCHANGED <<capture, want, published, captures, burst, session, request, late, posted,
                       record, acquisition, boot>>
    BY DEF Waveform!DeviceAnswers, Waveform!worker
  <1>2. /\ WaveformTyped /\ Waveform!ShownIsExact /\ CaptureOfWorker /\ RequestOfCapture
        /\ LateRequests /\ CaptureOfDevice /\ AnswerHolds /\ RecordsSent
    BY DEF WaveformParts
  <1>3. /\ capture.pending # "None" /\ capture.pending = Waveform!NextAction
        /\ request = Waveform!RequestOf(capture.pending) /\ capture \in Machines
        /\ OfNewest(capture, captures)
    BY <1>1, <1>2 DEF WaveformTyped, RequestOfCapture, CaptureOfWorker
  <1>4. request.boot = session /\ request.capture = capture.capture /\ session = boot
    BY <1>1, <1>3 DEF Waveform!RequestOf
  <1>5. request.op = "Read" => request.offset + 1 \in 0..Chunks
    <2> SUFFICES ASSUME request.op = "Read"
                 PROVE  request.offset + 1 \in 0..Chunks
      OBVIOUS
    <2>1. capture.pending = "Read" /\ request.offset = Len(capture.record)
      BY <1>3 DEF Waveform!RequestOf
    <2>2. capture.phase = "Downloading"
      BY <1>3, <2>1 DEF Waveform!NextAction, Machines, Waveform!Phases
    <2>3. Len(capture.record) < Chunks /\ Len(capture.record) \in 0..Chunks
      BY <1>3, <2>2, RecordTypes DEF OfNewest, Machines
    <2> QED
      BY <2>1, <2>3, BoundAssumption
  <1>6. /\ response'.range \in Waveform!Ranges /\ response'.status \in {"Ok", "NotFound", "Refused"}
        /\ response'.status = "Ok" => acquisition.capture = capture.capture
        /\ response'.status = "NotFound" => acquisition.capture # capture.capture
        /\ response'.status = "Ok" /\ response'.phase = "Stopped" => acquisition.phase = "Stopped"
    <2>1. CASE request.capture # acquisition.capture
      <3>1. response' = Waveform!Response(IF request.op = "Configure" THEN "Refused" ELSE "NotFound", "None",
                                          Waveform!NoRange)
        BY <1>1, <2>1 DEF Waveform!Answers
      <3> QED
        BY <1>4, <2>1, <3>1, RecordTypes DEF Waveform!Response
    <2>2. CASE request.capture = acquisition.capture /\ request.op # "Read"
      <3>1. response' = Waveform!Response("Ok", acquisition.phase, Waveform!NoRange)
        BY <1>1, <2>2 DEF Waveform!Answers
      <3> QED
        BY <1>4, <2>2, <3>1, RecordTypes DEF Waveform!Response
    <2>3. CASE /\ request.capture = acquisition.capture /\ request.op = "Read"
               /\ acquisition.phase # "Complete"
      <3>1. response' = Waveform!Response("Refused", "None", Waveform!NoRange)
        BY <1>1, <2>3 DEF Waveform!Answers
      <3> QED
        BY <3>1, RecordTypes DEF Waveform!Response
    <2>4. CASE /\ request.capture = acquisition.capture /\ request.op = "Read"
               /\ acquisition.phase = "Complete"
      <3>1. PICK place \in {request.offset + 1} \cup (IF glitches < MaxGlitches THEN {0} ELSE {}) :
              response' = Waveform!Response("Ok", "None", [capture |-> request.capture, place |-> place])
        BY <1>1, <2>4 DEF Waveform!Answers
      <3>2. place \in 0..Chunks
        BY <1>5, <2>4, BoundAssumption
      <3>3. request.capture \in Waveform!Captures
        BY <1>3, <1>4 DEF Machines
      <3> QED
        BY <1>4, <2>4, <3>1, <3>2, <3>3 DEF Waveform!Response, Waveform!Ranges
    <2> QED
      BY <2>1, <2>2, <2>3, <2>4
  <1>7. response'.status = "NotFound" => capture.phase \notin Held
    <2> SUFFICES ASSUME response'.status = "NotFound"
                 PROVE  capture.phase \notin Held
      OBVIOUS
    <2>1. capture # Waveform!NoMachine
      BY <1>3 DEF Waveform!NoMachine
    <2>2. KnowsDevice(capture, acquisition)
      BY <1>2, <1>4, <2>1 DEF CaptureOfDevice
    <2> QED
      BY <1>6, <2>2 DEF KnowsDevice
  <1>8. AnswerHolds'
    BY <1>1, <1>6, <1>7 DEF AnswerHolds
  <1>9. WaveformTyped' /\ CaptureOfWorker' /\ LateRequests' /\ CaptureOfDevice' /\ RecordsSent'
        /\ Waveform!ShownIsExact'
    BY <1>1, <1>2, <1>6 DEF WaveformTyped, CaptureOfWorker, LateRequests, CaptureOfDevice, RecordsSent,
       LastSent, Waveform!ShownIsExact
  <1>10. RequestOfCapture'
    BY <1>1, <1>2, <1>3, <1>4, <1>6 DEF RequestOfCapture, Waveform!NextAction, Waveform!RequestOf
  <1> QED
    BY <1>8, <1>9, <1>10 DEF WaveformParts

LEMMA WaveformEnds ==
    ASSUME WaveformParts, Waveform!AcquisitionEnds
    PROVE  WaveformParts'
  <1>1. /\ acquisition.phase = "Armed"
        /\ \E phase \in {"Complete", "Faulted"} : acquisition' = [acquisition EXCEPT !.phase = phase]
        /\ UNCHANGED <<capture, want, published, captures, burst, session, request, response, late, posted,
                       record, boot>>
    BY DEF Waveform!AcquisitionEnds, Waveform!worker, Waveform!wire
  <1>2. /\ acquisition' \in Acquisitions /\ acquisition'.capture = acquisition.capture
        /\ acquisition'.phase \in {"Complete", "Faulted"}
    BY <1>1 DEF WaveformParts, CaptureOfDevice, Acquisitions
  <1>3. CaptureOfDevice' /\ AnswerHolds' /\ LateRequests'
    BY <1>1, <1>2 DEF WaveformParts, CaptureOfDevice, KnowsDevice, AnswerHolds, LateRequests, Waveform!NoCapture
  <1>4. WaveformTyped' /\ CaptureOfWorker' /\ RequestOfCapture' /\ RecordsSent' /\ Waveform!ShownIsExact'
    BY <1>1 DEF WaveformParts, WaveformTyped, CaptureOfWorker, RequestOfCapture, RecordsSent, LastSent,
       Waveform!ShownIsExact, Waveform!NextAction, Waveform!RequestOf
  <1> QED
    BY <1>3, <1>4 DEF WaveformParts

\* A new boot has no capture and has seen no request.
LEMMA WaveformRestarts ==
    ASSUME WaveformParts, Waveform!Restart
    PROVE  WaveformParts'
  <1>1. /\ boot < MaxBoots /\ boot' = boot + 1 /\ acquisition' = Waveform!NoCapture
        /\ response' = Waveform!NoResponse
        /\ UNCHANGED <<capture, want, published, captures, burst, session, request, late, posted, record>>
    BY DEF Waveform!Restart, Waveform!worker
  <1>2. /\ WaveformTyped /\ LateRequests
    BY DEF WaveformParts
  <1>3. session <= boot /\ session # boot' /\ boot' \in 1..MaxBoots /\ session <= boot'
    BY <1>1, <1>2, WaveformNumbers, BoundAssumption DEF LateRequests
  <1>4. LateRequests'
    BY <1>1, <1>2, <1>3, WaveformNumbers DEF LateRequests
  <1>5. acquisition' \in Acquisitions
    BY <1>1, BoundAssumption DEF Acquisitions, Waveform!NoCapture, Waveform!Captures
  <1>6. CaptureOfDevice'
    BY <1>1, <1>3, <1>5 DEF CaptureOfDevice, Waveform!NoCapture
  <1>7. AnswerHolds' /\ RequestOfCapture'
    BY <1>1, RecordTypes DEF WaveformParts, AnswerHolds, RequestOfCapture, Waveform!NoResponse, Waveform!Response,
       Waveform!NextAction, Waveform!RequestOf
  <1>8. WaveformTyped' /\ CaptureOfWorker' /\ RecordsSent' /\ Waveform!ShownIsExact'
    BY <1>1 DEF WaveformParts, WaveformTyped, CaptureOfWorker, RecordsSent, LastSent,
       Waveform!ShownIsExact, Waveform!NoResponse, Waveform!Response
  <1> QED
    BY <1>4, <1>6, <1>7, <1>8 DEF WaveformParts

LEMMA WaveformInit ==
    ASSUME Waveform!Init
    PROVE  WaveformParts
  <1>1. /\ capture = Waveform!NoMachine /\ want = FALSE /\ published = FALSE /\ captures = 0
        /\ burst = Waveform!Idle /\ request = Waveform!NoRequest /\ response = Waveform!NoResponse
        /\ late = {} /\ session = 1 /\ boot = 1 /\ posted = <<>>
        /\ record = [snapshot |-> 0, shown |-> <<>>, received |-> <<>>]
        /\ acquisition = Waveform!NoCapture
    BY DEF Waveform!Init
  <1>2. 0 \in Waveform!Captures /\ 1 \in 1..MaxBoots
    BY BoundAssumption DEF Waveform!Captures
  <1>3. WaveformTyped
    <2>1. capture \in Machines /\ capture.pending = "None"
      BY <1>1, MachineTypes DEF Waveform!NoMachine
    <2>2. burst \in Waveform!Idle..BurstOps
      BY <1>1, BoundAssumption DEF Waveform!Idle
    <2>3. request.op = "None" /\ response.status = "None"
      BY <1>1 DEF Waveform!NoRequest, Waveform!NoResponse, Waveform!Response
    <2>4. Len(posted) <= MaxQueue
      BY <1>1, BoundAssumption
    <2> QED
      BY <1>1, <1>2, <2>1, <2>2, <2>3, <2>4 DEF WaveformTyped
  <1>4. CaptureOfWorker /\ RequestOfCapture /\ LateRequests /\ CaptureOfDevice /\ AnswerHolds
    BY <1>1, <1>2, RecordTypes DEF CaptureOfWorker, OfNewest, RequestOfCapture, LateRequests, CaptureOfDevice,
       AnswerHolds, Waveform!NoMachine, Waveform!NoCapture, Waveform!NoResponse, Waveform!Response, Acquisitions
  <1>5. RecordsSent /\ Waveform!ShownIsExact
    BY <1>1, <1>2, RecordTypes DEF RecordsSent, SentInOrder, SentUpTo, Waveform!ShownIsExact
  <1> QED
    BY <1>3, <1>4, <1>5 DEF WaveformParts

LEMMA WaveformStep ==
    ASSUME WaveformParts, Waveform!Next
    PROVE  WaveformParts'
  BY WaveformRequests, WaveformBegins, WaveformBootChanges, WaveformDrives, WaveformAccepts,
     WaveformAbandons, WaveformFinishes, WaveformReceives, WaveformArrives, WaveformAnswers,
     WaveformEnds, WaveformRestarts DEF Waveform!Next

\* Every received record is of another capture, and an unreleased one has no successor.
LEMMA WaveformPromises ==
    ASSUME WaveformParts
    PROVE  Waveform!TypeOK /\ Waveform!ShownIsExact /\ Waveform!PostedOnce /\ Waveform!ReleasedFirst
  <1>1. Waveform!TypeOK
    BY WaveformTypes DEF WaveformParts, CaptureOfDevice, Acquisitions
  <1>2. Waveform!PostedOnce
    <2>1. /\ record.received \in Seq(Nat)
          /\ \A i, j \in 1..Len(record.received) : i < j => record.received[i] < record.received[j]
      BY DEF WaveformParts, RecordsSent, SentInOrder
    <2>2. DOMAIN record.received = 1..Len(record.received) /\ Len(record.received) \in Nat
      BY <2>1
    <2>3. \A i \in 1..Len(record.received) : record.received[i] \in Nat
      BY <2>1
    <2> QED
      BY <2>1, <2>2, <2>3 DEF Waveform!PostedOnce
  <1>3. Waveform!ReleasedFirst
    <2> SUFFICES ASSUME session = boot, acquisition.capture # 0, capture.capture > acquisition.capture
                 PROVE  acquisition.phase = "Stopped"
      BY DEF Waveform!ReleasedFirst
    <2>1. capture # Waveform!NoMachine
      BY WaveformNumbers DEF Waveform!NoMachine
    <2>2. KnowsDevice(capture, acquisition) /\ acquisition.phase # "None"
      BY <2>1 DEF WaveformParts, CaptureOfDevice
    <2> QED
      BY <2>2, WaveformNumbers DEF KnowsDevice
  <1> QED
    BY <1>1, <1>2, <1>3 DEF WaveformParts

\* A record shown is exact and posted once, and a capture gives way to the next only when the
\* device has released it, whatever was lost, late or wrong (accept_range,
\* validate_waveform_transfer, install_pending_waveform).
THEOREM WaveformAlwaysTrue == Spec => []WaveformIsTrue
  <1>1. Init => WaveformInv
    BY WaveformInit DEF Init, WaveformInv
  <1>2. WaveformInv /\ [Next]_vars => WaveformInv'
    <2> SUFFICES ASSUME WaveformInv, [Next]_vars, service' = "Waveform"
                 PROVE  WaveformParts'
      BY DEF WaveformInv
    <2>1. service = "Waveform" /\ WaveformParts
      BY DEF WaveformInv, Next, vars, Telemetry_, Waveform_, Document_
    <2>2. CASE Waveform!Next
      BY <2>1, <2>2, WaveformStep
    <2>3. CASE UNCHANGED vars
      BY <2>1, <2>3 DEF vars, waveform, wire, WaveformParts, WaveformTyped, Waveform!ShownIsExact,
         CaptureOfWorker, RequestOfCapture, LateRequests, CaptureOfDevice, AnswerHolds, RecordsSent,
         LastSent, Waveform!NextAction, Waveform!RequestOf
    <2> QED
      BY <2>1, <2>2, <2>3 DEF Next, Telemetry_, Waveform_, Document_
  <1>3. WaveformInv => WaveformIsTrue
    BY WaveformPromises DEF WaveformInv, WaveformIsTrue
  <1> QED
    BY <1>1, <1>2, <1>3, PTL DEF Spec
-----------------------------------------------------------------------------
(* Capability and visual documents.                                         *)

Known == Firmwares \cup {0}
Declarable == DOMAIN AssetRanges \ {0}
VisualDownloads ==
    [asset : Declarable, limit : Int, received : Nat, right : BOOLEAN, complete : BOOLEAN]
States ==
    [session : 0..MaxBoots, clock : 0..MaxBoots, identity : Known, capability : Document!Download,
     of : Known, announced : BOOLEAN, failed : BOOLEAN, assets : Seq(Declarable \cup {0}),
     downloads : Seq(VisualDownloads), visualsPublished : Nat]
Notices ==
    [kind : {"Snapshot", "Capability", "Visual"}, identity : Known, capability : Known,
     complete : BOOLEAN, failed : BOOLEAN, asset : Declarable \cup {0}]
Shelves == [capability : Known, visuals : SUBSET (Firmwares \X Document!Assets)]

Declared(f, asset) == \E i \in DOMAIN Visuals[f] : Visuals[f][i] = asset

\* A capability is of the device whose identity is known; what depends on it waits until all
\* of it is there and right.
CapabilityWhole(s) ==
    /\ s.of \in {0, s.identity}
    /\ s.of = 0 => s.capability.received = 0
    /\ s.capability.complete = TRUE =>
         /\ s.of # 0 /\ s.capability.right = TRUE /\ s.failed = FALSE
         /\ s.capability.received = CapabilityRanges[s.of]
    /\ s.capability.complete = FALSE =>
         /\ s.announced = FALSE /\ s.assets = Document!NoAssets /\ s.downloads = <<>>
         /\ s.visualsPublished = 0
         /\ s.of # 0 => s.capability.received < CapabilityRanges[s.of]

\* The visuals are declared, and all that precede the last are complete.  The last is within
\* what the complete ones leave of the bound.
VisualsWhole(d) ==
    /\ \A i \in 1..Len(d) : i < Len(d) => d[i].complete = TRUE
    /\ \A i \in 1..Len(d) : d[i].complete = TRUE => d[i].right = TRUE /\ d[i].received = AssetRanges[d[i].asset]
    /\ \A i \in 1..Len(d) : d[i].complete = FALSE =>
         d[i].received < AssetRanges[d[i].asset] /\ d[i].limit <= MaxTotal - Document!Retained(d)
    /\ Document!Retained(d) <= MaxTotal
VisualsDeclared(s) ==
    /\ s.assets = Document!NoAssets => s.downloads = <<>>
    /\ s.assets # Document!NoAssets => s.assets = Document!Distinct(Visuals[s.of])
    /\ Len(s.downloads) <= Len(s.assets)
    /\ \A i \in 1..Len(s.downloads) : Declared(s.of, s.downloads[i].asset)

\* Only complete visuals are published, after the capability.
PublishedWhole(s) ==
    /\ s.visualsPublished <= Len(s.downloads)
    /\ s.visualsPublished # 0 => s.announced = TRUE
    /\ \A i \in 1..s.visualsPublished : s.downloads[i].complete = TRUE

Whole(s) ==
    s \in States /\ CapabilityWhole(s) /\ VisualsWhole(s.downloads) /\ VisualsDeclared(s) /\ PublishedWhole(s)

\* A session of the present boot knows the present firmware.
SessionKnown(s) == s.session <= boot /\ (s.session = boot => s.identity = firmware)

\* The exchange under way is one the state calls for.
ExchangeFits(s, e) ==
    \/ e \in {Document!Idle, Document!Finishing, Document!Step("Heartbeat", 0)}
    \/ \E left \in 1..boot : e = Document!Step("Identity", left)
    \/ \E left \in 1..RangesPerHeartbeat :
         e = Document!Step("Capability", left) /\ s.capability.complete = FALSE
    \/ \E left \in 1..RangesPerHeartbeat :
         /\ e = Document!Step("Visual", left) /\ s.capability.complete = TRUE
         /\ s.downloads # <<>> /\ s.downloads[Len(s.downloads)].complete = FALSE

\* The page after a message.
AfterNotice(p, m) ==
    IF m.kind = "Capability" THEN [p EXCEPT !.capability = m.capability]
    ELSE IF m.kind = "Visual"
      THEN IF p.capability = m.capability /\ p.capability # 0 /\ Declared(p.capability, m.asset)
             THEN [p EXCEPT !.visuals = @ \cup {<<m.capability, m.asset>>}] ELSE p
    ELSE IF ~ Document!Valid(m) \/ (m.complete = TRUE /\ m.capability = p.capability) THEN p
    ELSE [capability |-> 0, visuals |-> {}]

WholeShelf(p) ==
    p \in Shelves /\ \A v \in p.visuals : v[1] = p.capability /\ Declared(v[1], v[2])

\* The messages, taken in their order, lead from a page to the last, over whole pages.
Takes(p, messages, last) ==
    \E views \in [0..Len(messages) -> Shelves] :
        /\ views[0] = p
        /\ \A k \in 1..Len(messages) : views[k] = AfterNotice(views[k - 1], messages[k])
        /\ \A k \in 0..Len(messages) : WholeShelf(views[k])
        /\ views[Len(messages)] = last

\* The page shows what the worker has published.
Agrees(p, s) ==
    /\ p.capability = IF s.announced = TRUE THEN s.of ELSE 0
    /\ p.visuals = {<<s.of, s.downloads[i].asset>> : i \in 1..s.visualsPublished}

\* The page that has taken all messages agrees, or the snapshot to be posted clears it.
PageFollows ==
    \E last \in Shelves :
        /\ Takes(documents, posted, last)
        /\ Agrees(last, state) \/ (exchange = Document!Finishing /\ state.capability.complete = FALSE)

Notified ==
    /\ posted \in Seq(Notices) /\ Len(posted) <= MaxTransfers
    /\ \A i \in 1..Len(posted) : posted[i].kind = "Snapshot" => Document!Valid(posted[i])

DocumentParts ==
    /\ boot \in 1..MaxBoots /\ firmware \in Firmwares
    /\ Whole(state) /\ SessionKnown(state) /\ ExchangeFits(state, exchange)
    /\ Notified /\ PageFollows
DocumentInv == service = "Document" => DocumentParts

-----------------------------------------------------------------------------
(* Sums, and the assets of a capability.                                    *)

\* The sum of the first n of a sequence of numbers is the nth value of this function.
IsSum(sum, f, n) ==
    sum = [k \in 0..n |-> IF k = 0 THEN 0 ELSE sum[k - 1] + f[k]]

LEMMA SumExists ==
    ASSUME NEW f, NEW n \in Nat
    PROVE  \E sum : IsSum(sum, f, n)
  <1> DEFINE T == {m \in Nat : ~ \E sum : IsSum(sum, f, m)}
  <1> SUFFICES ASSUME T # {} PROVE FALSE
    OBVIOUS
  <1>1. PICK m \in T : \A k \in T : m <= k
    BY SmallestOf
  <1>2. m # 0
    <2>1. IsSum([k \in 0..0 |-> 0], f, 0)
      BY DEF IsSum
    <2> QED
      BY <2>1
  <1>3. m - 1 \in Nat /\ m - 1 \notin T
    BY <1>1, <1>2
  <1>4. PICK sum : IsSum(sum, f, m - 1)
    BY <1>3
  <1> DEFINE more == [k \in 0..m |-> IF k = m THEN sum[m - 1] + f[m] ELSE sum[k]]
  <1>5. more = [k \in 0..m |-> IF k = 0 THEN 0 ELSE more[k - 1] + f[k]]
    <2> SUFFICES ASSUME NEW k \in 0..m
                 PROVE  more[k] = IF k = 0 THEN 0 ELSE more[k - 1] + f[k]
      OBVIOUS
    <2>1. CASE k = m
      <3>1. k # 0 /\ m - 1 \in 0..m /\ m - 1 # m
        BY <1>2, <1>3, <2>1
      <3> QED
        BY <2>1, <3>1
    <2>2. CASE k # m
      <3>1. k \in 0..(m - 1)
        BY <1>3, <2>2
      <3>2. sum[k] = IF k = 0 THEN 0 ELSE sum[k - 1] + f[k]
        BY <1>4, <3>1 DEF IsSum
      <3>3. more[k] = sum[k]
        BY <2>2
      <3>4. k # 0 => more[k - 1] = sum[k - 1]
        BY <1>3, <3>1
      <3> QED
        BY <3>2, <3>3, <3>4
    <2> QED
      BY <2>1, <2>2
  <1> HIDE DEF more
  <1> QED
    BY <1>1, <1>5 DEF IsSum

\* Two sums, of sequences that agree up to n.
Agree(s, f, a, t, g, b, n) ==
    /\ a \in Nat /\ b \in Nat /\ n \in Nat /\ n <= a /\ n <= b
    /\ IsSum(s, f, a) /\ IsSum(t, g, b)
    /\ \A k \in 1..n : f[k] = g[k]

LEMMA SumUnique ==
    ASSUME NEW f, NEW g, NEW a, NEW b, NEW n, NEW s, NEW t, Agree(s, f, a, t, g, b, n)
    PROVE  s[n] = t[n]
  <1> USE DEF Agree
  <1> DEFINE T == {k \in Nat : k <= n /\ s[k] # t[k]}
  <1> SUFFICES ASSUME T # {} PROVE FALSE
    OBVIOUS
  <1>1. PICK m \in T : \A k \in T : m <= k
    BY SmallestOf
  <1>2. m \in 0..a /\ m \in 0..b /\ (m # 0 => m \in 1..n /\ m - 1 \in Nat)
    BY <1>1
  <1>3. /\ s[m] = IF m = 0 THEN 0 ELSE s[m - 1] + f[m]
        /\ t[m] = IF m = 0 THEN 0 ELSE t[m - 1] + g[m]
    BY <1>2 DEF IsSum
  <1>4. m # 0 => s[m - 1] = t[m - 1]
    BY <1>1, <1>2
  <1> QED
    BY <1>1, <1>2, <1>3, <1>4

LEMMA SumTyped ==
    ASSUME NEW f, NEW a \in Nat, NEW s, IsSum(s, f, a), \A k \in 1..a : f[k] \in Nat
    PROVE  /\ s[0] = 0
           /\ \A n \in 0..a : s[n] \in Nat
           /\ \A n \in 1..a : s[n] = s[n - 1] + f[n]
  <1>1. /\ s[0] = 0
        /\ \A n \in 1..a : s[n] = s[n - 1] + f[n]
    BY DEF IsSum
  <1> DEFINE T == {n \in Nat : n <= a /\ s[n] \notin Nat}
  <1>2. T = {}
    <2> SUFFICES ASSUME T # {} PROVE FALSE
      OBVIOUS
    <2>1. PICK m \in T : \A k \in T : m <= k
      BY SmallestOf
    <2>2. m # 0
      BY <1>1, <2>1
    <2>3. m \in 1..a /\ m - 1 \in Nat /\ m - 1 <= a /\ m - 1 \notin T
      BY <2>1, <2>2
    <2>4. s[m - 1] \in Nat /\ f[m] \in Nat
      BY <2>3
    <2> QED
      BY <1>1, <2>1, <2>3, <2>4
  <1> QED
    BY <1>1, <1>2

\* What a download retains.
Bytes(d) == [i \in DOMAIN d |-> IF d[i].complete THEN AssetRanges[d[i].asset] ELSE 0]

LEMMA BytesTyped ==
    ASSUME NEW d \in Seq(VisualDownloads)
    PROVE  /\ Len(d) \in Nat /\ DOMAIN d = 1..Len(d)
           /\ \A i \in 1..Len(d) :
                /\ d[i] \in VisualDownloads /\ AssetRanges[d[i].asset] \in Nat \ {0}
                /\ Bytes(d)[i] \in Nat
                /\ Bytes(d)[i] = IF d[i].complete = TRUE THEN AssetRanges[d[i].asset] ELSE 0
  <1>1. Len(d) \in Nat /\ DOMAIN d = 1..Len(d)
    OBVIOUS
  <1> SUFFICES ASSUME NEW i \in 1..Len(d)
               PROVE  /\ d[i] \in VisualDownloads /\ AssetRanges[d[i].asset] \in Nat \ {0}
                      /\ Bytes(d)[i] \in Nat
                      /\ Bytes(d)[i] = IF d[i].complete = TRUE THEN AssetRanges[d[i].asset] ELSE 0
    BY <1>1
  <1>2. d[i] \in VisualDownloads
    OBVIOUS
  <1>3. d[i].asset \in DOMAIN AssetRanges /\ d[i].complete \in BOOLEAN
    BY <1>2 DEF VisualDownloads, Declarable
  <1>4. AssetRanges[d[i].asset] \in Nat \ {0}
    BY <1>3, DocumentAssumption
  <1>5. Bytes(d)[i] = IF d[i].complete THEN AssetRanges[d[i].asset] ELSE 0
    BY <1>1 DEF Bytes
  <1>6. Bytes(d)[i] = IF d[i].complete = TRUE THEN AssetRanges[d[i].asset] ELSE 0
    BY <1>3, <1>5
  <1> HIDE DEF Bytes
  <1> QED
    BY <1>2, <1>4, <1>6

LEMMA RetainedIsSum ==
    ASSUME NEW d \in Seq(VisualDownloads)
    PROVE  \E sum : IsSum(sum, Bytes(d), Len(d)) /\ Document!Retained(d) = sum[Len(d)]
  <1> DEFINE f == Bytes(d)
             Made(sum) == sum = [n \in 0..Len(d) |-> IF n = 0 THEN 0 ELSE sum[n - 1] + f[n]]
  <1>1. \A sum : Made(sum) <=> IsSum(sum, f, Len(d))
    BY DEF IsSum
  <1>2. Len(d) \in Nat
    OBVIOUS
  <1>3. \E sum : Made(sum)
    BY <1>1, <1>2, SumExists
  <1>4. Made(CHOOSE sum : Made(sum))
    BY <1>3
  <1>5. Document!Retained(d) = (CHOOSE sum : Made(sum))[Len(d)]
    BY DEF Document!Retained, Document!SumTo, Bytes
  <1> HIDE DEF Made
  <1> QED
    BY <1>1, <1>4, <1>5

\* The last download adds what it retains.
LEMMA RetainedOfMore ==
    ASSUME NEW d \in Seq(VisualDownloads), NEW x \in VisualDownloads
    PROVE  /\ Document!Retained(d) \in Nat
           /\ Document!Retained(Append(d, x)) =
                Document!Retained(d) + (IF x.complete = TRUE THEN AssetRanges[x.asset] ELSE 0)
  <1> DEFINE more == Append(d, x)
             n == Len(d)
  <1>1. /\ more \in Seq(VisualDownloads) /\ Len(more) = n + 1 /\ n \in Nat
        /\ more[n + 1] = x /\ \A i \in 1..n : more[i] = d[i]
    OBVIOUS
  <1>2. PICK sum : IsSum(sum, Bytes(d), n) /\ Document!Retained(d) = sum[n]
    BY RetainedIsSum
  <1>3. PICK next : IsSum(next, Bytes(more), n + 1) /\ Document!Retained(more) = next[n + 1]
    BY <1>1, RetainedIsSum
  <1> HIDE DEF more
  <1>4. \A i \in 1..n : Bytes(d)[i] = Bytes(more)[i]
    <2> SUFFICES ASSUME NEW i \in 1..n
                 PROVE  Bytes(d)[i] = Bytes(more)[i]
      OBVIOUS
    <2>1. i \in 1..(n + 1)
      BY <1>1
    <2>2. Bytes(d)[i] = IF d[i].complete = TRUE THEN AssetRanges[d[i].asset] ELSE 0
      BY BytesTyped
    <2>3. Bytes(more)[i] = IF more[i].complete = TRUE THEN AssetRanges[more[i].asset] ELSE 0
      BY <1>1, <2>1, BytesTyped
    <2> QED
      BY <1>1, <2>2, <2>3
  <1>5. sum[n] = next[n]
    <2>1. Agree(sum, Bytes(d), n, next, Bytes(more), n + 1, n)
      BY <1>1, <1>2, <1>3, <1>4 DEF Agree
    <2> QED
      BY <2>1, SumUnique
  <1>6. \A i \in 1..(n + 1) : Bytes(more)[i] \in Nat
    BY <1>1, BytesTyped
  <1>7. next[n] \in Nat /\ next[n + 1] = next[n] + Bytes(more)[n + 1]
    <2>1. n + 1 \in Nat /\ n + 1 \in 1..(n + 1) /\ n \in 0..(n + 1) /\ (n + 1) - 1 = n
      BY <1>1
    <2> QED
      BY <1>3, <1>6, <2>1, SumTyped
  <1>8. Bytes(more)[n + 1] = IF x.complete = TRUE THEN AssetRanges[x.asset] ELSE 0
    <2>1. n + 1 \in 1..(n + 1)
      BY <1>1
    <2> QED
      BY <1>1, <2>1, BytesTyped
  <1> QED
    BY <1>2, <1>3, <1>5, <1>7, <1>8 DEF more

LEMMA RetainedOfNone == Document!Retained(<<>>) = 0
  <1>1. <<>> \in Seq(VisualDownloads) /\ Len(<<>>) = 0
    OBVIOUS
  <1>2. PICK sum : IsSum(sum, Bytes(<<>>), 0) /\ Document!Retained(<<>>) = sum[0]
    BY <1>1, RetainedIsSum
  <1> QED
    BY <1>2 DEF IsSum

\* The assets of a capability, each once, as the values of this function.
IsDistinct(found, assets, n) ==
    found = [k \in 0..n |-> IF k = 0 THEN <<>>
                            ELSE IF assets[k] \in Document!ToSet(found[k - 1]) THEN found[k - 1]
                            ELSE Append(found[k - 1], assets[k])]

LEMMA DistinctExists ==
    ASSUME NEW assets, NEW n \in Nat
    PROVE  \E found : IsDistinct(found, assets, n)
  <1> DEFINE Next_(found, k) == IF assets[k] \in Document!ToSet(found) THEN found ELSE Append(found, assets[k])
             T == {m \in Nat : ~ \E found : IsDistinct(found, assets, m)}
  <1> SUFFICES ASSUME T # {} PROVE FALSE
    OBVIOUS
  <1>1. PICK m \in T : \A k \in T : m <= k
    BY SmallestOf
  <1>2. m # 0
    <2>1. IsDistinct([k \in 0..0 |-> <<>>], assets, 0)
      BY DEF IsDistinct
    <2> QED
      BY <2>1
  <1>3. m - 1 \in Nat /\ m - 1 \notin T
    BY <1>1, <1>2
  <1>4. PICK found : IsDistinct(found, assets, m - 1)
    BY <1>3
  <1> DEFINE more == [k \in 0..m |-> IF k = m THEN Next_(found[m - 1], m) ELSE found[k]]
  <1> HIDE DEF Next_
  <1>5. more = [k \in 0..m |-> IF k = 0 THEN <<>> ELSE Next_(more[k - 1], k)]
    <2> SUFFICES ASSUME NEW k \in 0..m
                 PROVE  more[k] = IF k = 0 THEN <<>> ELSE Next_(more[k - 1], k)
      OBVIOUS
    <2>1. CASE k = m
      <3>1. k # 0 /\ m - 1 \in 0..m /\ m - 1 # m
        BY <1>2, <1>3, <2>1
      <3> QED
        BY <2>1, <3>1
    <2>2. CASE k # m
      <3>1. k \in 0..(m - 1)
        BY <1>3, <2>2
      <3>2. found[k] = IF k = 0 THEN <<>> ELSE Next_(found[k - 1], k)
        BY <1>4, <3>1 DEF IsDistinct, Next_
      <3>3. more[k] = found[k]
        BY <2>2
      <3>4. k # 0 => more[k - 1] = found[k - 1]
        BY <1>3, <3>1
      <3> QED
        BY <3>2, <3>3, <3>4
    <2> QED
      BY <2>1, <2>2
  <1> HIDE DEF more
  <1>6. IsDistinct(more, assets, m)
    BY <1>5 DEF IsDistinct, Next_
  <1> QED
    BY <1>1, <1>6

\* The distinct assets are among those declared, and there is one if any is declared.
LEMMA DistinctTyped ==
    ASSUME NEW S, NEW assets \in Seq(S)
    PROVE  Document!Distinct(assets) \in Seq(S)
  <1> DEFINE n == Len(assets)
             Made(found) ==
                found = [k \in 0..n |-> IF k = 0 THEN <<>>
                            ELSE IF assets[k] \in Document!ToSet(found[k - 1]) THEN found[k - 1]
                            ELSE Append(found[k - 1], assets[k])]
  <1>1. \A found : Made(found) <=> IsDistinct(found, assets, n)
    BY DEF IsDistinct
  <1>2. n \in Nat
    OBVIOUS
  <1>3. \E found : Made(found)
    BY <1>1, <1>2, DistinctExists
  <1>4. Document!Distinct(assets) = (CHOOSE found : Made(found))[n]
    BY DEF Document!Distinct
  <1>5. PICK found : IsDistinct(found, assets, n) /\ Document!Distinct(assets) = found[n]
    BY <1>1, <1>3, <1>4
  <1> HIDE DEF Made
  <1> DEFINE T == {k \in Nat : k <= n /\ found[k] \notin Seq(S)}
  <1> SUFFICES ASSUME T # {} PROVE FALSE
    BY <1>2, <1>5
  <1>6. PICK m \in T : \A k \in T : m <= k
    BY SmallestOf
  <1>7. m # 0
    <2>1. found[0] = <<>> /\ <<>> \in Seq(S)
      BY <1>2, <1>5 DEF IsDistinct
    <2> QED
      BY <1>6, <2>1
  <1>8. m \in 1..n /\ m - 1 \in Nat /\ m - 1 \notin T /\ m - 1 <= n
    BY <1>2, <1>6, <1>7
  <1>9. found[m - 1] \in Seq(S) /\ assets[m] \in S
    BY <1>8
  <1>10. found[m] = found[m - 1] \/ found[m] = Append(found[m - 1], assets[m])
    <2>1. m \in 0..n /\ m # 0
      BY <1>2, <1>7, <1>8
    <2>2. found[m] = IF m = 0 THEN <<>>
                     ELSE IF assets[m] \in Document!ToSet(found[m - 1]) THEN found[m - 1]
                     ELSE Append(found[m - 1], assets[m])
      BY <1>5, <2>1 DEF IsDistinct
    <2> QED
      BY <2>1, <2>2
  <1>11. found[m] \in Seq(S)
    <2>1. \A q \in Seq(S), x \in S : Append(q, x) \in Seq(S)
      OBVIOUS
    <2>2. Append(found[m - 1], assets[m]) \in Seq(S)
      BY <1>9, <2>1
    <2> QED
      BY <1>9, <1>10, <2>2
  <1> QED
    BY <1>6, <1>11

-----------------------------------------------------------------------------
(* The worker's state.                                                      *)

\* What a capability declares, and the assets to be read of it.
LEMMA DistinctDeclared ==
    ASSUME NEW f \in Firmwares
    PROVE  /\ Document!Distinct(Visuals[f]) \in Seq(Declarable)
           /\ Document!Distinct(Visuals[f]) # Document!NoAssets
           /\ \A i \in 1..Len(Document!Distinct(Visuals[f])) : Declared(f, Document!Distinct(Visuals[f])[i])
  <1> DEFINE all == Visuals[f]
             S == {all[j] : j \in DOMAIN all}
             a == Document!Distinct(all)
  <1>1. all \in Seq(Declarable)
    BY DocumentAssumption DEF Declarable
  <1>2. DOMAIN all = 1..Len(all) /\ Len(all) \in Nat /\ \A j \in 1..Len(all) : all[j] \in Declarable /\ all[j] \in S
    BY <1>1
  <1>3. all \in Seq(S)
    BY <1>1, <1>2
  <1>4. a \in Seq(Declarable) /\ a \in Seq(S)
    BY <1>1, <1>3, DistinctTyped
  <1> HIDE DEF a
  <1>5. \A i \in 1..Len(a) : a[i] \in S
    BY <1>4
  <1>6. \A i \in 1..Len(a) : Declared(f, a[i])
    BY <1>5 DEF Declared
  <1>7. a # Document!NoAssets
    <2> SUFFICES ASSUME a = << 0 >> PROVE FALSE
      BY DEF Document!NoAssets
    <2>1. a[1] \in Declarable
      BY <1>4
    <2> QED
      BY <2>1 DEF Declarable
  <1> QED
    BY <1>4, <1>6, <1>7 DEF a

\* The downloads, one by one.
LEMMA DownloadsTyped ==
    ASSUME NEW d \in Seq(VisualDownloads), NEW i \in 1..Len(d)
    PROVE  /\ d[i] \in VisualDownloads
           /\ d[i].asset \in DOMAIN AssetRanges /\ d[i].asset \in Declarable /\ d[i].limit \in Int
           /\ d[i].received \in Nat
           /\ d[i].right \in BOOLEAN /\ d[i].complete \in BOOLEAN
           /\ AssetRanges[d[i].asset] \in Nat /\ AssetRanges[d[i].asset] >= 1
  <1>1. d[i] \in VisualDownloads
    OBVIOUS
  <1>2. d[i].asset \in DOMAIN AssetRanges
    BY <1>1 DEF VisualDownloads, Declarable
  <1> QED
    BY <1>1, <1>2, DocumentAssumption DEF VisualDownloads

LEMMA StateTyped ==
    ASSUME NEW s \in States
    PROVE  /\ s.session \in 0..MaxBoots /\ s.clock \in 0..MaxBoots
           /\ s.identity \in Known /\ s.of \in Known
           /\ s.capability \in Document!Download
           /\ s.capability.received \in Nat /\ s.capability.right \in BOOLEAN
           /\ s.capability.complete \in BOOLEAN
           /\ s.announced \in BOOLEAN /\ s.failed \in BOOLEAN
           /\ s.assets \in Seq(Declarable \cup {0}) /\ s.downloads \in Seq(VisualDownloads)
           /\ Len(s.downloads) \in Nat /\ DOMAIN s.downloads = 1..Len(s.downloads)
           /\ s.visualsPublished \in Nat
  BY DEF States, Document!Download

\* What the page is to show of a state is the same of another.
SameShown(s, t) ==
    /\ t.announced = s.announced /\ t.visualsPublished = s.visualsPublished
    /\ s.announced = TRUE => t.of = s.of
    /\ \A i \in 1..s.visualsPublished : t.downloads[i].asset = s.downloads[i].asset

\* Sessions, clocks and errors are no part of the documents.
LEMMA WholeElsewhere ==
    ASSUME NEW s, NEW t, Whole(s), t \in States,
           t.identity = s.identity, t.capability = s.capability, t.of = s.of,
           t.announced = s.announced, t.failed = s.failed \/ s.capability.complete = FALSE,
           t.assets = s.assets, t.downloads = s.downloads, t.visualsPublished = s.visualsPublished
    PROVE  Whole(t) /\ SameShown(s, t)
  <1>1. CapabilityWhole(t)
    BY DEF Whole, CapabilityWhole
  <1>2. VisualsWhole(t.downloads)
    BY DEF Whole
  <1>3. VisualsDeclared(t) /\ PublishedWhole(t) /\ SameShown(s, t)
    BY DEF Whole, VisualsDeclared, PublishedWhole, SameShown
  <1> QED
    BY <1>1, <1>2, <1>3 DEF Whole

LEMMA NoneWhole == VisualsWhole(<<>>)
  <1>1. Len(<<>>) = 0
    OBVIOUS
  <1> QED
    BY <1>1, RetainedOfNone, DocumentAssumption DEF VisualsWhole

\* A state with nothing read is whole, whatever it knows of the device.
LEMMA FreshWhole ==
    ASSUME NEW t, t.session \in 0..MaxBoots, t.clock \in 0..MaxBoots, t.identity \in Known,
           t = [session |-> t.session, clock |-> t.clock, identity |-> t.identity,
                capability |-> Document!NewDownload, of |-> 0, announced |-> FALSE,
                failed |-> FALSE, assets |-> Document!NoAssets, downloads |-> <<>>,
                visualsPublished |-> 0]
    PROVE  Whole(t)
  <1>1. t \in States
    <2>1. <<>> \in Seq(VisualDownloads) /\ <<0>> \in Seq(Declarable \cup {0}) /\ 0 \in Known
      BY DEF Known
    <2>2. Document!NewDownload \in Document!Download
      BY DEF Document!NewDownload, Document!Download
    <2>3. \A n, c, i : n \in 0..MaxBoots /\ c \in 0..MaxBoots /\ i \in Known =>
            [session |-> n, clock |-> c, identity |-> i,
             capability |-> Document!NewDownload, of |-> 0, announced |-> FALSE,
             failed |-> FALSE, assets |-> <<0>>, downloads |-> <<>>,
             visualsPublished |-> 0] \in States
      BY <2>1, <2>2 DEF States
    <2> QED
      BY <2>3 DEF Document!NoAssets
  <1>2. /\ t.of = 0 /\ t.capability.received = 0 /\ t.capability.complete = FALSE
        /\ t.announced = FALSE /\ t.assets = Document!NoAssets /\ t.downloads = <<>>
        /\ t.visualsPublished = 0
    BY DEF Document!NewDownload
  <1>3. CapabilityWhole(t)
    BY <1>2 DEF CapabilityWhole
  <1>4. VisualsWhole(t.downloads)
    BY <1>2, NoneWhole
  <1>5. Len(t.downloads) = 0 /\ Len(t.assets) = 1
    BY <1>2 DEF Document!NoAssets
  <1>6. VisualsDeclared(t) /\ PublishedWhole(t)
    BY <1>2, <1>5 DEF VisualsDeclared, PublishedWhole
  <1> QED
    BY <1>1, <1>3, <1>4, <1>6 DEF Whole

\* The assets of a complete capability are to be read.
LEMMA InitializedWhole ==
    ASSUME NEW s, Whole(s), s.capability.complete = TRUE,
           NEW t, t = IF Document!Initialized(s) THEN s ELSE Document!InitializeVisuals(s)
    PROVE  /\ Whole(t) /\ SameShown(s, t) /\ Document!Initialized(t)
           /\ t.session = s.session /\ t.identity = s.identity /\ t.capability = s.capability
  <1>1. CASE Document!Initialized(s)
    BY <1>1 DEF SameShown
  <1>2. CASE ~ Document!Initialized(s)
    <2> DEFINE a == Document!Distinct(Visuals[s.of])
    <2>1. s.assets = Document!NoAssets /\ s.downloads = <<>> /\ Len(s.downloads) = 0
      BY <1>2 DEF Document!Initialized, Whole, VisualsDeclared
    <2>2. s.of \in Firmwares
      BY StateTyped DEF Whole, CapabilityWhole, Known
    <2>3. a \in Seq(Declarable) /\ a # Document!NoAssets
      BY <2>2, DistinctDeclared
    <2>4. a \in Seq(Declarable \cup {0}) /\ Len(a) \in Nat
      BY <2>3
    <2>5. t = [s EXCEPT !.assets = a]
      BY <1>2, <2>2 DEF Document!InitializeVisuals, Document!Declares
    <2> HIDE DEF a
    <2>6. /\ t \in States /\ t.assets = a /\ t.identity = s.identity /\ t.capability = s.capability
          /\ t.of = s.of /\ t.announced = s.announced /\ t.failed = s.failed
          /\ t.downloads = s.downloads /\ t.visualsPublished = s.visualsPublished
          /\ t.session = s.session
      BY <2>4, <2>5 DEF Whole, States
    <2>7. CapabilityWhole(t)
      BY <2>6 DEF Whole, CapabilityWhole
    <2>8. VisualsWhole(t.downloads) /\ PublishedWhole(t) /\ SameShown(s, t)
      BY <2>6 DEF Whole, PublishedWhole, SameShown
    <2>9. VisualsDeclared(t)
      BY <2>1, <2>3, <2>4, <2>6 DEF VisualsDeclared, a
    <2> QED
      BY <2>3, <2>6, <2>7, <2>8, <2>9 DEF Whole, Document!Initialized
  <1> QED
    BY <1>1, <1>2

\* The last download, when it is under way.
UnderwayIn(s) == s.downloads # <<>> /\ s.downloads[Len(s.downloads)].complete = FALSE

LEMMA UnderwayLast ==
    ASSUME NEW s, Whole(s)
    PROVE  /\ Document!Underway(s) <=> UnderwayIn(s)
           /\ s.downloads = <<>> <=> Len(s.downloads) = 0
           /\ UnderwayIn(s) => Len(s.downloads) \in 1..Len(s.downloads)
  <1>1. s.downloads \in Seq(VisualDownloads)
    BY StateTyped DEF Whole
  <1>2. s.downloads = <<>> <=> Len(s.downloads) = 0
    BY <1>1
  <1>3. s.downloads # <<>> => Len(s.downloads) \in 1..Len(s.downloads)
    BY <1>1, <1>2
  <1>4. s.downloads # <<>> => s.downloads[Len(s.downloads)].complete \in BOOLEAN
    BY <1>1, <1>3, DownloadsTyped
  <1> QED
    BY <1>2, <1>3, <1>4 DEF Document!Underway, Document!Last, UnderwayIn

\* The next visual begins within what the complete ones leave of the bound.
LEMMA VisualBegins ==
    ASSUME NEW s, Whole(s), s.capability.complete = TRUE, Document!Initialized(s), Document!NextVisual(s),
           NEW t, t = Document!EnsureNextVisual(s)
    PROVE  /\ Whole(t) /\ SameShown(s, t) /\ UnderwayIn(t)
           /\ t.session = s.session /\ t.identity = s.identity /\ t.capability = s.capability
  <1>1. CASE UnderwayIn(s)
    BY <1>1, UnderwayLast DEF SameShown, Document!EnsureNextVisual
  <1>2. CASE ~ UnderwayIn(s)
    <2> DEFINE d == s.downloads
               n == Len(d)
               x == Document!NewVisual(s.assets[n + 1], Document!Limit(d))
               more == Append(d, x)
    <2>1. d \in Seq(VisualDownloads) /\ n \in Nat
      BY StateTyped DEF Whole
    <2>2. n < Len(s.assets) /\ t = [s EXCEPT !.downloads = more]
      BY <1>2, UnderwayLast DEF Document!NextVisual, Document!EnsureNextVisual
    <2>3. s.of \in Firmwares /\ s.assets = Document!Distinct(Visuals[s.of])
      BY StateTyped DEF Whole, CapabilityWhole, Known, VisualsDeclared, Document!Initialized
    <2>4. s.assets[n + 1] \in Declarable /\ Declared(s.of, s.assets[n + 1])
      <3>1. Len(s.assets) \in Nat
        BY <2>3, DistinctDeclared
      <3>2. n + 1 \in 1..Len(s.assets)
        BY <2>1, <2>2, <3>1
      <3>3. \A q \in Seq(Declarable) : \A i \in 1..Len(q) : q[i] \in Declarable
        OBVIOUS
      <3> QED
        BY <2>3, <3>2, <3>3, DistinctDeclared
    <2>5. Document!Retained(d) \in Nat /\ Document!Retained(d) <= MaxTotal
      <3>1. Document!Retained(d) <= MaxTotal
        BY DEF Whole, VisualsWhole
      <3>2. Document!NewVisual(s.assets[n + 1], 0) \in VisualDownloads
        BY <2>4 DEF Document!NewVisual, VisualDownloads
      <3>3. Document!Retained(d) \in Nat
        BY <2>1, <3>2, RetainedOfMore
      <3> QED
        BY <3>1, <3>3
    <2>6. Document!Limit(d) \in Int /\ Document!Limit(d) <= MaxTotal - Document!Retained(d)
      BY <2>5, DocumentAssumption DEF Document!Limit
    <2>7. /\ x \in VisualDownloads /\ x.complete = FALSE /\ x.received = 0
          /\ x.asset = s.assets[n + 1] /\ x.limit = Document!Limit(d)
      BY <2>4, <2>6 DEF Document!NewVisual, VisualDownloads
    <2>8. Document!Retained(more) = Document!Retained(d)
      <3> HIDE DEF x
      <3>1. Document!Retained(more) = Document!Retained(d) + (IF x.complete = TRUE THEN AssetRanges[x.asset] ELSE 0)
        BY <2>1, <2>7, RetainedOfMore
      <3> QED
        BY <2>5, <2>7, <3>1
    <2> HIDE DEF x
    <2>9. /\ more \in Seq(VisualDownloads) /\ Len(more) = n + 1 /\ more[n + 1] = x
          /\ \A i \in 1..n : more[i] = d[i]
      BY <2>1, <2>7
    <2> HIDE DEF more
    <2>10. /\ t \in States /\ t.downloads = more /\ t.assets = s.assets /\ t.identity = s.identity
           /\ t.capability = s.capability /\ t.of = s.of /\ t.announced = s.announced
           /\ t.failed = s.failed /\ t.visualsPublished = s.visualsPublished /\ t.session = s.session
      BY <2>2, <2>9 DEF Whole, States
    <2>11. CapabilityWhole(t)
      BY <2>10 DEF Whole, CapabilityWhole
    <2>12. \A i \in 1..n : d[i].complete = TRUE
      <3>1. \A i \in 1..n : i < n => d[i].complete = TRUE
        BY DEF Whole, VisualsWhole
      <3>2. n # 0 => n \in 1..n /\ d # <<>>
        BY <2>1
      <3>3. n # 0 => d[n].complete \in BOOLEAN /\ d[n].complete # FALSE
        BY <1>2, <2>1, <3>2, DownloadsTyped DEF UnderwayIn
      <3>4. n # 0 => d[n].complete = TRUE
        BY <3>3
      <3>5. \A i \in 1..n : i < n \/ (i = n /\ n # 0)
        BY <2>1
      <3> QED
        BY <3>1, <3>4, <3>5
    <2>13. VisualsWhole(more)
      <3>1. \A i \in 1..(n + 1) : i \in 1..n \/ i = n + 1
        BY <2>1
      <3>2. \A i \in 1..(n + 1) : i < n + 1 => more[i].complete = TRUE
        BY <2>9, <2>12, <3>1
      <3>3. \A i \in 1..(n + 1) : more[i].complete = TRUE => more[i].right = TRUE /\ more[i].received = AssetRanges[more[i].asset]
        BY <2>7, <2>9, <3>1 DEF Whole, VisualsWhole
      <3>4. 0 < AssetRanges[x.asset]
        BY <2>4, <2>7, DocumentAssumption DEF Declarable
      <3>5. \A i \in 1..(n + 1) : more[i].complete = FALSE =>
               more[i].received < AssetRanges[more[i].asset] /\ more[i].limit <= MaxTotal - Document!Retained(more)
        BY <2>6, <2>7, <2>8, <2>9, <2>12, <3>1, <3>4
      <3> QED
        BY <2>5, <2>8, <2>9, <3>2, <3>3, <3>5 DEF VisualsWhole
    <2>14. VisualsDeclared(t)
      <3>1. s.assets # Document!NoAssets
        BY DEF Document!Initialized
      <3>2. Len(more) <= Len(s.assets)
        <4>1. Len(s.assets) \in Nat
          BY <2>3, DistinctDeclared
        <4> QED
          BY <2>1, <2>2, <2>9, <4>1
      <3>3. \A i \in 1..(n + 1) : i \in 1..n \/ i = n + 1
        BY <2>1
      <3>4. \A i \in 1..(n + 1) : Declared(s.of, more[i].asset)
        BY <2>4, <2>7, <2>9, <3>3 DEF Whole, VisualsDeclared
      <3> QED
        BY <2>3, <2>9, <2>10, <3>1, <3>2, <3>4 DEF VisualsDeclared
    <2>15. PublishedWhole(t) /\ SameShown(s, t)
      <3>1. s.visualsPublished \in Nat /\ s.visualsPublished <= n
        BY StateTyped DEF Whole, PublishedWhole
      <3>2. \A i \in 1..s.visualsPublished : i \in 1..n
        BY <2>1, <3>1
      <3> QED
        BY <2>1, <2>9, <2>10, <3>1, <3>2 DEF Whole, PublishedWhole, SameShown
    <2>16. UnderwayIn(t)
      BY <2>1, <2>7, <2>9, <2>10 DEF UnderwayIn
    <2> QED
      BY <2>10, <2>11, <2>13, <2>14, <2>15, <2>16 DEF Whole
  <1> QED
    BY <1>1, <1>2

\* A range is refused or counts, the last one only if all are right.
Counted(download, after, total) ==
    \/ after = download
    \/ \E r, c \in BOOLEAN :
         /\ after = [download EXCEPT !.received = download.received + 1, !.right = r, !.complete = c]
         /\ c = TRUE => r = TRUE /\ download.received + 1 = total
         /\ c = FALSE => download.received + 1 < total

LEMMA RangeCounts ==
    ASSUME NEW download, NEW total \in Nat, NEW right \in BOOLEAN,
           download.received \in Nat, download.right \in BOOLEAN, download.received < total,
           NEW after, after = Document!AfterRange(download, total, right)
    PROVE  Counted(download, after, total)
  <1> DEFINE r == download.right /\ right
             c == (download.received + 1 = total)
  <1>1. r \in BOOLEAN /\ c \in BOOLEAN
    OBVIOUS
  <1>2. \/ after = download /\ c /\ ~ r
        \/ after = [download EXCEPT !.received = download.received + 1, !.right = r, !.complete = c] /\ ~ (c /\ ~ r)
    BY DEF Document!AfterRange
  <1>3. CASE after = download
    BY <1>3 DEF Counted
  <1>4. CASE after = [download EXCEPT !.received = download.received + 1, !.right = r, !.complete = c] /\ ~ (c /\ ~ r)
    <2>1. c = TRUE => r = TRUE
      BY <1>1, <1>4, Zenon
    <2>2. c = TRUE => download.received + 1 = total
      OBVIOUS
    <2>3. c = FALSE => download.received + 1 < total
      OBVIOUS
    <2> HIDE DEF r, c
    <2> QED
      BY <1>1, <1>4, <2>1, <2>2, <2>3 DEF Counted
  <1> QED
    BY <1>2, <1>3, <1>4

\* A range of the capability of a device that is known (download_capability).
ReadsCapability(s, f, right, after, t) ==
    /\ after = Document!AfterRange(s.capability, CapabilityRanges[f], right)
    /\ t = [s EXCEPT !.capability = after, !.of = f,
                     !.failed = Document!IsError(s.capability, after)]

LEMMA CapabilityRead ==
    ASSUME NEW s, Whole(s), s.capability.complete = FALSE,
           NEW f \in Firmwares, s.identity = f, NEW right \in BOOLEAN, NEW after, NEW t,
           ReadsCapability(s, f, right, after, t)
    PROVE  /\ Whole(t) /\ SameShown(s, t)
           /\ t.session = s.session /\ t.identity = s.identity /\ t.capability = after
  <1> DEFINE total == CapabilityRanges[f]
             before == s.capability
  <1>1. /\ s \in States /\ before \in Document!Download /\ before.received \in Nat
        /\ before.right \in BOOLEAN /\ total \in Nat /\ total >= 1 /\ f # 0
    BY StateTyped, DocumentAssumption DEF Whole
  <1>2. before.received < total
    BY <1>1 DEF Whole, CapabilityWhole
  <1>3. Counted(before, after, total)
    <2>1. after = Document!AfterRange(before, total, right)
      BY DEF ReadsCapability
    <2> HIDE DEF total, before
    <2> QED
      BY <1>1, <1>2, <2>1, RangeCounts
  <1>4. /\ after \in Document!Download
        /\ after.complete = TRUE => /\ after.right = TRUE /\ after.received = total
                                    /\ ~ Document!IsError(before, after)
        /\ after.complete = FALSE => after.received < total
    <2>1. CASE after = before
      BY <1>1, <1>2, <2>1
    <2>2. ASSUME NEW r \in BOOLEAN, NEW c \in BOOLEAN,
                 after = [before EXCEPT !.received = before.received + 1, !.right = r, !.complete = c],
                 c = TRUE => r = TRUE /\ before.received + 1 = total,
                 c = FALSE => before.received + 1 < total
          PROVE  <1>4
      <3>1. after.received = before.received + 1 /\ after.right = r /\ after.complete = c
        BY <1>1, <2>2 DEF Document!Download
      <3>2. after \in Document!Download
        <4>1. before.received + 1 \in Nat
          BY <1>1
        <4> HIDE DEF before
        <4> QED
          BY <1>1, <2>2, <4>1 DEF Document!Download
      <3>3. ~ Document!IsError(before, after)
        BY <1>1, <3>1 DEF Document!IsError
      <3> QED
        BY <2>2, <3>1, <3>2, <3>3
    <2> QED
      BY <1>3, <2>1, <2>2 DEF Counted
  <1> DEFINE error == Document!IsError(before, after)
  <1>5. error \in BOOLEAN /\ f \in Known
    BY DEF Document!IsError, Known
  <1>6. after.complete = TRUE => error = FALSE
    BY <1>4, <1>5, Zenon
  <1> HIDE DEF error, total, before
  <1>7. /\ t \in States /\ t.of = f /\ t.failed = error /\ t.capability = after
        /\ t.identity = f /\ t.announced = s.announced /\ t.assets = s.assets
        /\ t.downloads = s.downloads /\ t.visualsPublished = s.visualsPublished
        /\ t.session = s.session
    BY <1>1, <1>4, <1>5 DEF States, error, before, ReadsCapability
  <1>8. /\ s.announced = FALSE /\ s.assets = Document!NoAssets /\ s.downloads = <<>>
        /\ s.visualsPublished = 0
    BY DEF Whole, CapabilityWhole
  <1>9. CapabilityWhole(t)
    <2>1. t.capability.complete = TRUE => t.capability.right = TRUE /\ t.failed = FALSE /\ t.capability.received = total
      BY <1>4, <1>6, <1>7 DEF before
    <2>2. t.capability.complete = FALSE => t.capability.received < total
      BY <1>4, <1>7 DEF before
    <2> QED
      BY <1>1, <1>7, <1>8, <2>1, <2>2 DEF CapabilityWhole, total
  <1>10. VisualsWhole(t.downloads)
    BY <1>7 DEF Whole
  <1>11. Len(t.downloads) = 0 /\ Len(t.assets) = 1
    <2>1. t.downloads = <<>> /\ t.assets = <<0>>
      BY <1>7, <1>8 DEF Document!NoAssets
    <2> QED
      BY <2>1
  <1>12. VisualsDeclared(t) /\ PublishedWhole(t) /\ SameShown(s, t)
    BY <1>7, <1>8, <1>11 DEF VisualsDeclared, PublishedWhole, SameShown
  <1> QED
    BY <1>7, <1>9, <1>10, <1>12 DEF Whole

\* The downloads with another in the place of the last.
LEMMA LastReplaced ==
    ASSUME NEW d \in Seq(VisualDownloads), d # <<>>, NEW x \in VisualDownloads,
           d[Len(d)].complete = FALSE
    PROVE  LET e == [d EXCEPT ![Len(d)] = x]
           IN  /\ e \in Seq(VisualDownloads) /\ Len(e) = Len(d) /\ e[Len(d)] = x
               /\ \A i \in 1..Len(d) : i # Len(d) => e[i] = d[i]
               /\ Document!Retained(d) \in Nat
               /\ Document!Retained(e) =
                    Document!Retained(d) + (IF x.complete = TRUE THEN AssetRanges[x.asset] ELSE 0)
  <1> DEFINE e == [d EXCEPT ![Len(d)] = x]
             n == Len(d)
             front == [i \in 1..(n - 1) |-> d[i]]
  <1>1. n \in Nat /\ n >= 1 /\ n - 1 \in Nat /\ n \in 1..n
    OBVIOUS
  <1>2. d[n] \in VisualDownloads
    BY <1>1
  <1>3. /\ e \in Seq(VisualDownloads) /\ Len(e) = n /\ e[n] = x
        /\ \A i \in 1..n : i # n => e[i] = d[i]
    BY <1>1, ExceptSeq
  <1>4. front \in Seq(VisualDownloads) /\ Len(front) = n - 1
    <2>1. \A i \in 1..(n - 1) : d[i] \in VisualDownloads
      BY <1>1
    <2>2. front \in [1..(n - 1) -> VisualDownloads]
      BY <2>1
    <2> QED
      BY <1>1, <2>2
  <1>5. \A i \in 1..(n - 1) : front[i] = d[i]
    OBVIOUS
  <1> HIDE DEF front, e
  <1>6. ASSUME NEW y \in VisualDownloads
        PROVE  /\ Append(front, y) \in Seq(VisualDownloads) /\ Len(Append(front, y)) = n
               /\ Append(front, y)[n] = y
               /\ \A i \in 1..n : i # n => Append(front, y)[i] = d[i]
    <2>1. /\ Append(front, y) \in Seq(VisualDownloads) /\ Len(Append(front, y)) = Len(front) + 1
          /\ \A i \in 1..Len(front) : Append(front, y)[i] = front[i]
          /\ Append(front, y)[Len(front) + 1] = y
      BY <1>4, AppendProperties
    <2>2. Len(front) + 1 = n
      BY <1>1, <1>4
    <2>3. \A i \in 1..n : i # n => i \in 1..(n - 1)
      BY <1>1
    <2> QED
      BY <1>4, <1>5, <2>1, <2>2, <2>3
  <1>7. e = Append(front, x)
    <2>1. \A i \in 1..n : e[i] = Append(front, x)[i]
      BY <1>3, <1>6
    <2> QED
      BY <1>3, <1>6, <2>1, SeqEqual
  <1>8. d = Append(front, d[n])
    <2>1. /\ Append(front, d[n]) \in Seq(VisualDownloads) /\ Len(Append(front, d[n])) = n
          /\ \A i \in 1..n : d[i] = Append(front, d[n])[i]
      BY <1>2, <1>6
    <2> QED
      BY <2>1, SeqEqual
  <1>9. Document!Retained(front) \in Nat /\ Document!Retained(d) = Document!Retained(front) + 0
    <2>1. Document!Retained(Append(front, d[n])) = Document!Retained(front) + (IF d[n].complete = TRUE THEN AssetRanges[d[n].asset] ELSE 0)
      BY <1>2, <1>4, RetainedOfMore
    <2>2. Document!Retained(Append(front, d[n])) = Document!Retained(front) + 0
      BY <2>1
    <2> QED
      BY <1>2, <1>4, <1>8, <2>2, RetainedOfMore
  <1>10. Document!Retained(e) = Document!Retained(front) + (IF x.complete = TRUE THEN AssetRanges[x.asset] ELSE 0)
    BY <1>4, <1>7, RetainedOfMore
  <1>11. Document!Retained(d) = Document!Retained(front)
    BY <1>9
  <1> QED
    BY <1>3, <1>9, <1>10, <1>11 DEF e

\* A range of the visual under way, which counts only if the whole is within its bound
\* (download_visual_assets).
ReadsVisual(s, right, before, after, t) ==
    /\ before = s.downloads[Len(s.downloads)]
    /\ after = IF AssetRanges[before.asset] > before.limit THEN before
               ELSE Document!AfterRange(before, AssetRanges[before.asset], right)
    /\ t = [s EXCEPT !.downloads[Len(s.downloads)] = after]

LEMMA VisualRead ==
    ASSUME NEW s, Whole(s), s.capability.complete = TRUE, UnderwayIn(s), NEW right \in BOOLEAN,
           NEW before, NEW after, NEW t, ReadsVisual(s, right, before, after, t)
    PROVE  /\ Whole(t) /\ SameShown(s, t) /\ Document!Initialized(t)
           /\ t.session = s.session /\ t.identity = s.identity /\ t.capability = s.capability
           /\ Document!IsError(before, after) => UnderwayIn(t)
           /\ t.downloads # <<>> /\ s.of \in Firmwares
  <1> DEFINE d == s.downloads
             n == Len(d)
             total == AssetRanges[before.asset]
             e == [d EXCEPT ![n] = after]
  <1>1. d \in Seq(VisualDownloads) /\ n \in Nat /\ n \in 1..n /\ d # <<>> /\ d[n].complete = FALSE
    BY StateTyped, UnderwayLast DEF Whole, UnderwayIn
  <1>2. /\ before \in VisualDownloads /\ before.complete = FALSE
        /\ before.received \in Nat /\ before.right \in BOOLEAN /\ before.limit \in Int
        /\ before.asset \in Declarable /\ total \in Nat
    BY <1>1, DownloadsTyped DEF ReadsVisual
  <1>3. before.received < total /\ before.limit <= MaxTotal - Document!Retained(d)
    BY <1>1, <1>2 DEF Whole, VisualsWhole, ReadsVisual
  <1>4. Counted(before, after, total) /\ (after # before => total <= before.limit)
    <2>1. CASE AssetRanges[before.asset] > before.limit
      BY <2>1 DEF Counted, ReadsVisual
    <2>2. CASE ~ (AssetRanges[before.asset] > before.limit)
      <3>1. after = Document!AfterRange(before, total, right) /\ total <= before.limit
        BY <1>2, <2>2 DEF ReadsVisual
      <3> HIDE DEF total
      <3> QED
        BY <1>2, <1>3, <3>1, RangeCounts
    <2> QED
      BY <2>1, <2>2
  <1> HIDE DEF total
  <1>5. /\ after \in VisualDownloads /\ after.asset = before.asset /\ after.limit = before.limit
        /\ after.complete = TRUE => /\ after.right = TRUE /\ after.received = total
                                    /\ total <= before.limit
        /\ after.complete = FALSE => after.received < total
        /\ Document!IsError(before, after) => after.complete = FALSE
    <2>1. CASE after = before
      BY <1>2, <1>3, <2>1
    <2>2. ASSUME NEW r \in BOOLEAN, NEW c \in BOOLEAN,
                 after = [before EXCEPT !.received = before.received + 1, !.right = r, !.complete = c],
                 c = TRUE => r = TRUE /\ before.received + 1 = total,
                 c = FALSE => before.received + 1 < total
          PROVE  <1>5
      <3>1. /\ after.received = before.received + 1 /\ after.right = r /\ after.complete = c
            /\ after.asset = before.asset /\ after.limit = before.limit
        BY <1>2, <2>2 DEF VisualDownloads
      <3>2. after \in VisualDownloads
        <4>1. before.received + 1 \in Nat
          BY <1>2
        <4> QED
          BY <1>2, <2>2, <4>1 DEF VisualDownloads
      <3>3. ~ Document!IsError(before, after) /\ after # before
        BY <1>2, <3>1 DEF Document!IsError
      <3> QED
        BY <1>4, <2>2, <3>1, <3>2, <3>3
    <2> QED
      BY <1>4, <2>1, <2>2 DEF Counted
  <1>6. /\ e \in Seq(VisualDownloads) /\ Len(e) = n /\ e[n] = after
        /\ \A i \in 1..n : i # n => e[i] = d[i]
        /\ Document!Retained(d) \in Nat
        /\ Document!Retained(e) =
             Document!Retained(d) + (IF after.complete = TRUE THEN AssetRanges[after.asset] ELSE 0)
    BY <1>1, <1>5, LastReplaced
  <1>7. t = [s EXCEPT !.downloads = e]
    BY DEF Whole, States, ReadsVisual
  <1> HIDE DEF e
  <1>8. /\ t \in States /\ t.downloads = e /\ t.assets = s.assets /\ t.identity = s.identity
        /\ t.capability = s.capability /\ t.of = s.of /\ t.announced = s.announced
        /\ t.failed = s.failed /\ t.visualsPublished = s.visualsPublished /\ t.session = s.session
    BY <1>6, <1>7 DEF Whole, States
  <1>9. CapabilityWhole(t)
    BY <1>8 DEF Whole, CapabilityWhole
  <1>10. Document!Retained(e) <= MaxTotal /\ (after.complete = FALSE => after.limit <= MaxTotal - Document!Retained(e))
    <2> DEFINE kept == Document!Retained(d)
               now == Document!Retained(e)
    <2>1. kept \in Nat /\ kept <= MaxTotal /\ before.limit <= MaxTotal - kept /\ MaxTotal \in Nat
      BY <1>3, <1>6, DocumentAssumption DEF Whole, VisualsWhole
    <2>2. before.limit \in Int /\ total \in Nat
      BY <1>2
    <2>3. after.complete = TRUE => now = kept + total /\ total <= before.limit
      BY <1>5, <1>6 DEF total
    <2>4. after.complete = FALSE => now = kept + 0 /\ after.limit = before.limit
      BY <1>5, <1>6
    <2>5. after.complete = TRUE \/ after.complete = FALSE
      BY <1>5 DEF VisualDownloads
    <2> HIDE DEF kept, now
    <2>6. CASE after.complete = TRUE
      <3>1. now <= MaxTotal
        BY <2>1, <2>2, <2>3, <2>6
      <3> QED
        BY <2>6, <3>1 DEF now
    <2>7. CASE after.complete = FALSE
      <3>1. now <= MaxTotal /\ after.limit <= MaxTotal - now
        BY <2>1, <2>2, <2>4, <2>7
      <3> QED
        BY <2>7, <3>1 DEF now
    <2> QED
      BY <2>5, <2>6, <2>7
  <1>11. VisualsWhole(e)
    <2>1. \A i \in 1..n : i < n => e[i].complete = TRUE
      BY <1>1, <1>6 DEF Whole, VisualsWhole
    <2>2. \A i \in 1..n : e[i].complete = TRUE => e[i].right = TRUE /\ e[i].received = AssetRanges[e[i].asset]
      <3>1. after.complete = TRUE => after.right = TRUE /\ after.received = AssetRanges[after.asset]
        BY <1>5 DEF total
      <3> QED
        BY <1>6, <3>1 DEF Whole, VisualsWhole
    <2>3. \A i \in 1..n : e[i].complete = FALSE =>
             e[i].received < AssetRanges[e[i].asset] /\ e[i].limit <= MaxTotal - Document!Retained(e)
      <3>1. \A i \in 1..n : e[i].complete = FALSE => i = n
        BY <1>1, <2>1
      <3>2. after.complete = FALSE => after.received < AssetRanges[after.asset]
        BY <1>5 DEF total
      <3> QED
        BY <1>6, <1>10, <3>1, <3>2
    <2> QED
      BY <1>6, <1>10, <2>1, <2>2, <2>3 DEF VisualsWhole
  <1>12. \A i \in 1..n : e[i].asset = d[i].asset
    BY <1>5, <1>6 DEF ReadsVisual
  <1>13. VisualsDeclared(t) /\ Document!Initialized(t)
    <2>1. s.assets # Document!NoAssets
      BY <1>1 DEF Whole, VisualsDeclared
    <2> QED
      BY <1>6, <1>8, <1>12, <2>1 DEF Whole, VisualsDeclared, Document!Initialized
  <1>14. s.visualsPublished \in Nat /\ s.visualsPublished < n
    <2>1. s.visualsPublished \in Nat /\ s.visualsPublished <= n
      BY StateTyped DEF Whole, PublishedWhole
    <2>2. s.visualsPublished # n
      <3>1. \A i \in 1..s.visualsPublished : d[i].complete = TRUE
        BY DEF Whole, PublishedWhole
      <3> QED
        BY <1>1, <3>1
    <2> QED
      BY <1>1, <2>1, <2>2
  <1>15. PublishedWhole(t) /\ SameShown(s, t)
    <2>1. \A i \in 1..s.visualsPublished : i \in 1..n /\ i # n
      BY <1>1, <1>14
    <2> QED
      BY <1>6, <1>8, <1>12, <1>14, <2>1 DEF Whole, PublishedWhole, SameShown
  <1>16. t.downloads # <<>> /\ t.downloads[Len(t.downloads)] = after
    <2>1. Len(e) # 0
      BY <1>1, <1>6
    <2> QED
      BY <1>6, <1>8, <2>1
  <1>17. Document!IsError(before, after) => UnderwayIn(t)
    BY <1>5, <1>16 DEF UnderwayIn
  <1>18. s.of \in Firmwares
    BY StateTyped DEF Whole, CapabilityWhole, Known
  <1> QED
    BY <1>8, <1>9, <1>11, <1>13, <1>15, <1>16, <1>17, <1>18 DEF Whole

\* What follows a capability that is complete, or not: it is of the connection's device, so
\* that a burst of visual ranges begins if there is a visual to read (probe_device).
LEMMA CapabilityLeads ==
    ASSUME NEW s, Whole(s), NEW c, c = Document!AfterCapability(s)
    PROVE  /\ Whole(c.state) /\ SameShown(s, c.state)
           /\ c.state.session = s.session /\ c.state.identity = s.identity
           /\ c.state.capability = s.capability
           /\ c.step # Document!Finishing =>
                /\ c.step = Document!Step("Visual", RangesPerHeartbeat)
                /\ s.capability.complete = TRUE /\ UnderwayIn(c.state)
  <1>1. CASE s.capability.complete # TRUE
    <2>1. ~ s.capability.complete
      BY <1>1, StateTyped DEF Whole
    <2>2. c.state = s /\ c.step = Document!Finishing
      BY <2>1 DEF Document!AfterCapability
    <2> QED
      BY <2>2 DEF SameShown
  <1>2. CASE s.capability.complete = TRUE
    <2>1. Document!Reconciles(s)
      BY <1>2 DEF Whole, CapabilityWhole, Document!Reconciles
    <2> DEFINE t == IF Document!Initialized(s) THEN s ELSE Document!InitializeVisuals(s)
    <2>2. /\ Whole(t) /\ SameShown(s, t) /\ Document!Initialized(t)
          /\ t.session = s.session /\ t.identity = s.identity /\ t.capability = s.capability
      BY <1>2, InitializedWhole
    <2>3. /\ c.state = IF Document!NextVisual(t) THEN Document!EnsureNextVisual(t) ELSE t
          /\ c.step = IF Document!NextVisual(t) THEN Document!Step("Visual", RangesPerHeartbeat)
                                                ELSE Document!Finishing
      BY <1>2, <2>1 DEF Document!AfterCapability
    <2> HIDE DEF t
    <2>4. CASE ~ Document!NextVisual(t)
      BY <2>2, <2>3, <2>4
    <2>5. CASE Document!NextVisual(t)
      <3> DEFINE u == Document!EnsureNextVisual(t)
      <3>1. /\ Whole(u) /\ SameShown(t, u) /\ UnderwayIn(u)
            /\ u.session = t.session /\ u.identity = t.identity /\ u.capability = t.capability
        BY <1>2, <2>2, <2>5, VisualBegins
      <3>2. c.state = u /\ c.step = Document!Step("Visual", RangesPerHeartbeat)
        BY <2>3, <2>5
      <3> HIDE DEF u
      <3>3. SameShown(s, u)
        <4>1. s.visualsPublished = t.visualsPublished
          BY <2>2 DEF SameShown
        <4> QED
          BY <2>2, <3>1, <4>1 DEF SameShown
      <3> QED
        BY <1>2, <2>2, <3>1, <3>2, <3>3
    <2> QED
      BY <2>4, <2>5
  <1> QED
    BY <1>1, <1>2

-----------------------------------------------------------------------------
(* The page, message by message.                                            *)

LEMMA TakesNone ==
    ASSUME NEW p, WholeShelf(p)
    PROVE  Takes(p, <<>>, p)
  <1> DEFINE views == [k \in 0..0 |-> p]
  <1>1. views \in [0..0 -> Shelves]
    BY DEF WholeShelf
  <1>2. Len(<<>>) = 0 /\ views[0] = p /\ \A k \in 0..0 : WholeShelf(views[k])
    OBVIOUS
  <1> HIDE DEF views
  <1> QED
    BY <1>1, <1>2 DEF Takes

\* Every page on the way is whole.
LEMMA TakesWhole ==
    ASSUME NEW p, NEW messages \in Seq(Notices), NEW last, Takes(p, messages, last)
    PROVE  WholeShelf(p) /\ WholeShelf(last) /\ (messages = <<>> => last = p)
  <1>1. Len(messages) \in Nat /\ 0 \in 0..Len(messages) /\ Len(messages) \in 0..Len(messages)
    OBVIOUS
  <1> QED
    BY <1>1 DEF Takes

\* Messages are taken one by one...
LEMMA TakesOne ==
    ASSUME NEW p, NEW m \in Notices, WholeShelf(p), WholeShelf(AfterNotice(p, m))
    PROVE  Takes(p, <<m>>, AfterNotice(p, m))
  <1> DEFINE q == AfterNotice(p, m)
             views == [k \in 0..1 |-> IF k = 0 THEN p ELSE q]
  <1>1. p \in Shelves /\ q \in Shelves /\ WholeShelf(q)
    BY DEF WholeShelf
  <1> HIDE DEF q
  <1>2. views \in [0..1 -> Shelves] /\ views[0] = p /\ views[1] = q
    BY <1>1
  <1>3. \A k \in 0..1 : WholeShelf(views[k])
    BY <1>1
  <1>4. Len(<<m>>) = 1 /\ <<m>>[1] = m
    OBVIOUS
  <1> HIDE DEF views
  <1>5. \A k \in 1..1 : views[k] = AfterNotice(views[k - 1], <<m>>[k])
    BY <1>2, <1>4 DEF q
  <1> QED
    BY <1>2, <1>3, <1>4, <1>5 DEF Takes, q

\* ... and those that are posted later after the earlier ones.
LEMMA TakesMore ==
    ASSUME NEW p, NEW q, NEW last, NEW first \in Seq(Notices), NEW more \in Seq(Notices),
           Takes(p, first, q), Takes(q, more, last)
    PROVE  Takes(p, first \o more, last)
  <1> DEFINE a == Len(first)
             b == Len(more)
             all == first \o more
  <1>1. a \in Nat /\ b \in Nat /\ Len(all) = a + b
    OBVIOUS
  <1>2. /\ \A k \in 1..a : all[k] = first[k]
        /\ \A k \in 1..b : all[a + k] = more[k]
    <2>1. \A k \in 1..(a + b) : all[k] = IF k <= a THEN first[k] ELSE more[k - a]
      BY ConcatProperties
    <2>2. \A k \in 1..a : k \in 1..(a + b) /\ k <= a
      BY <1>1
    <2>3. \A k \in 1..b : a + k \in 1..(a + b) /\ ~ (a + k <= a) /\ (a + k) - a = k
      BY <1>1
    <2> QED
      BY <2>1, <2>2, <2>3
  <1>3. PICK f \in [0..a -> Shelves] :
          /\ f[0] = p /\ f[a] = q
          /\ \A k \in 1..a : f[k] = AfterNotice(f[k - 1], first[k])
          /\ \A k \in 0..a : WholeShelf(f[k])
    BY DEF Takes
  <1>4. PICK g \in [0..b -> Shelves] :
          /\ g[0] = q /\ g[b] = last
          /\ \A k \in 1..b : g[k] = AfterNotice(g[k - 1], more[k])
          /\ \A k \in 0..b : WholeShelf(g[k])
    BY DEF Takes
  <1> HIDE DEF all, a, b
  <1> DEFINE views == [k \in 0..(a + b) |-> IF k <= a THEN f[k] ELSE g[k - a]]
  <1>5. /\ \A k \in 0..a : k \in 0..(a + b) /\ views[k] = f[k]
        /\ \A k \in 0..b : a + k \in 0..(a + b) /\ views[a + k] = g[k]
    <2>1. \A k \in 0..a : k \in 0..(a + b) /\ k <= a
      BY <1>1
    <2>2. \A k \in 0..b : a + k \in 0..(a + b) /\ (a + k <= a => k = 0 /\ a + k = a) /\ (a + k) - a = k
      BY <1>1
    <2> QED
      BY <1>3, <1>4, <2>1, <2>2
  <1>6. \A k \in 0..(a + b) : k \in 0..a \/ \E j \in 1..b : k = a + j /\ j \in 0..b
    <2> SUFFICES ASSUME NEW k \in 0..(a + b), k \notin 0..a
                 PROVE  \E j \in 1..b : k = a + j /\ j \in 0..b
      OBVIOUS
    <2>1. k - a \in 1..b /\ k = a + (k - a) /\ k - a \in 0..b
      BY <1>1
    <2> QED
      BY <2>1
  <1>7. views \in [0..(a + b) -> Shelves]
    <2>1. (\A k \in 0..a : f[k] \in Shelves) /\ (\A k \in 0..b : g[k] \in Shelves)
      OBVIOUS
    <2>3. \A k \in 0..(a + b) : views[k] \in Shelves
      <3> HIDE DEF views
      <3> QED
        BY <1>5, <1>6, <2>1
    <2>2. views = [k \in 0..(a + b) |-> views[k]]
      OBVIOUS
    <2> HIDE DEF views
    <2> QED
      BY <2>2, <2>3
  <1> HIDE DEF views
  <1>8. \A k \in 0..(a + b) : WholeShelf(views[k])
    BY <1>3, <1>4, <1>5, <1>6
  <1>9. views[0] = p /\ views[a + b] = last
    BY <1>1, <1>3, <1>4, <1>5
  <1>10. \A k \in 1..(a + b) : views[k] = AfterNotice(views[k - 1], all[k])
    <2> SUFFICES ASSUME NEW k \in 1..(a + b)
                 PROVE  views[k] = AfterNotice(views[k - 1], all[k])
      OBVIOUS
    <2>1. CASE k \in 0..a
      <3>1. k \in 1..a /\ k - 1 \in 0..a
        BY <1>1, <2>1
      <3> QED
        BY <1>2, <1>3, <1>5, <2>1, <3>1
    <2>2. CASE k \notin 0..a
      <3>1. PICK j \in 1..b : k = a + j /\ j \in 0..b
        BY <1>1, <1>6, <2>2
      <3>2. j - 1 \in 0..b /\ k - 1 = a + (j - 1)
        BY <1>1, <3>1
      <3> QED
        BY <1>2, <1>4, <1>5, <3>1, <3>2
    <2> QED
      BY <2>1, <2>2
  <1> QED
    BY <1>1, <1>7, <1>8, <1>9, <1>10 DEF Takes, all

\* Once the first message is taken, the others follow.
LEMMA TakesOn ==
    ASSUME NEW p, NEW messages \in Seq(Notices), messages # <<>>, NEW last, Takes(p, messages, last)
    PROVE  /\ AfterNotice(p, Head(messages)) \in Shelves
           /\ Takes(AfterNotice(p, Head(messages)), Tail(messages), last)
  <1> DEFINE n == Len(messages)
             rest == Tail(messages)
  <1>1. /\ n \in Nat /\ n >= 1 /\ Len(rest) = n - 1 /\ n - 1 \in Nat /\ Head(messages) = messages[1]
        /\ \A k \in 1..(n - 1) : rest[k] = messages[k + 1]
    BY HeadTailProperties
  <1>2. PICK f \in [0..n -> Shelves] :
          /\ f[0] = p /\ f[n] = last
          /\ \A k \in 1..n : f[k] = AfterNotice(f[k - 1], messages[k])
          /\ \A k \in 0..n : WholeShelf(f[k])
    BY DEF Takes
  <1> HIDE DEF n, rest
  <1> DEFINE views == [k \in 0..(n - 1) |-> f[k + 1]]
  <1>3. \A k \in 0..(n - 1) : k + 1 \in 0..n /\ views[k] = f[k + 1]
    BY <1>1
  <1>4. views \in [0..(n - 1) -> Shelves]
    BY <1>2, <1>3
  <1>5. views[0] = AfterNotice(p, Head(messages))
    <2>1. 1 \in 1..n /\ 1 - 1 = 0 /\ 0 \in 0..(n - 1) /\ 0 + 1 = 1
      BY <1>1
    <2>2. views[0] = f[1]
      BY <1>3, <2>1
    <2>3. f[1] = AfterNotice(f[1 - 1], messages[1])
      BY <1>2, <2>1
    <2> QED
      BY <1>1, <1>2, <2>1, <2>2, <2>3
  <1>6. views[n - 1] = last
    <2>1. n - 1 \in 0..(n - 1) /\ (n - 1) + 1 = n
      BY <1>1
    <2> QED
      BY <1>2, <1>3, <2>1
  <1> HIDE DEF views
  <1>7. \A k \in 1..(n - 1) : views[k] = AfterNotice(views[k - 1], rest[k])
    <2> SUFFICES ASSUME NEW k \in 1..(n - 1)
                 PROVE  views[k] = AfterNotice(views[k - 1], rest[k])
      OBVIOUS
    <2>1. k \in 0..(n - 1) /\ k - 1 \in 0..(n - 1) /\ (k - 1) + 1 = k /\ k + 1 \in 1..n /\ (k + 1) - 1 = k
      BY <1>1
    <2>2. f[k + 1] = AfterNotice(f[(k + 1) - 1], messages[k + 1])
      BY <1>2, <2>1
    <2> QED
      BY <1>1, <1>3, <2>1, <2>2
  <1>8. \A k \in 0..(n - 1) : WholeShelf(views[k])
    BY <1>2, <1>3
  <1>9. 0 \in 0..(n - 1)
    BY <1>1
  <1> QED
    BY <1>1, <1>4, <1>5, <1>6, <1>7, <1>8, <1>9 DEF Takes, WholeShelf, rest

\* The visuals that a finished step publishes (publish_visual_asset_documents).
LEMMA PublishedFacts ==
    ASSUME Whole(state)
    PROVE  /\ state.visualsPublished \in Nat /\ Document!PublishedNow \in Nat
           /\ state.visualsPublished <= Document!PublishedNow
           /\ Document!PublishedNow <= Len(state.downloads)
           /\ \A i \in 1..Document!PublishedNow : state.downloads[i].complete = TRUE
  <1> DEFINE v == state.visualsPublished
             d == state.downloads
             P(n) == /\ \A i \in (v + 1)..n : d[i].complete
                     /\ n < Len(d) => ~ d[n + 1].complete
             T == {n \in Nat : n \in v..Len(d) /\ (n = Len(d) \/ ~ d[n + 1].complete)}
  <1>1. /\ v \in Nat /\ Len(d) \in Nat /\ v <= Len(d)
        /\ \A i \in 1..v : d[i].complete = TRUE
        /\ \A i \in 1..Len(d) : d[i].complete \in BOOLEAN
    BY StateTyped, DownloadsTyped DEF Whole, PublishedWhole
  <1>2. \E n \in v..Len(d) : P(n)
    <2>1. Len(d) \in T
      BY <1>1
    <2>2. PICK m \in T : \A n \in T : m <= n
      BY <2>1, SmallestOf
    <2>3. ASSUME NEW i \in (v + 1)..m
          PROVE  d[i].complete
      <3>1. i - 1 \in Nat /\ i - 1 \in v..Len(d) /\ (i - 1) + 1 = i /\ ~ (m <= i - 1)
        BY <1>1, <2>2
      <3>2. i - 1 \notin T
        BY <2>2, <3>1
      <3> QED
        BY <3>1, <3>2
    <2>4. m \in v..Len(d) /\ (m < Len(d) => ~ d[m + 1].complete)
      BY <1>1, <2>2
    <2> QED
      BY <2>3, <2>4
  <1> DEFINE now == CHOOSE n \in v..Len(d) : P(n)
  <1>3. now \in v..Len(d) /\ P(now)
    BY <1>2
  <1>4. Document!PublishedNow = now
    BY DEF Document!PublishedNow
  <1> HIDE DEF now
  <1>5. now \in Nat /\ v <= now /\ now <= Len(d)
    BY <1>1, <1>3
  <1>6. \A i \in 1..now : d[i].complete = TRUE
    <2> SUFFICES ASSUME NEW i \in 1..now
                 PROVE  d[i].complete = TRUE
      OBVIOUS
    <2>0. i <= v => i \in 1..v
      BY <1>1, <1>5
    <2> SUFFICES ASSUME ~ (i <= v)
                 PROVE  d[i].complete = TRUE
      BY <1>1, <2>0
    <2>1. i \in (v + 1)..now /\ i \in 1..Len(d)
      BY <1>1, <1>5
    <2>2. d[i].complete /\ d[i].complete \in BOOLEAN
      BY <1>1, <1>3, <2>1
    <2> QED
      BY <2>2
  <1> QED
    BY <1>1, <1>4, <1>5, <1>6

\* What is said of a whole state the page accepts: an honest device's capability is that of
\* its identity (capability_reconciles_identity, validate).
LEMMA SaidIsValid ==
    ASSUME NEW s, Whole(s)
    PROVE  /\ Document!Snapshot(s) \in Notices /\ Document!Capability(s) \in Notices
           /\ Document!Valid(Document!Snapshot(s))
           /\ Document!Snapshot(s).kind = "Snapshot" /\ Document!Snapshot(s).capability = s.of
           /\ Document!Snapshot(s).complete = s.capability.complete
           /\ Document!Capability(s).kind = "Capability" /\ Document!Capability(s).capability = s.of
  <1>1. /\ s.identity \in Known /\ s.of \in Known /\ s.capability.complete \in BOOLEAN
        /\ s.failed \in BOOLEAN
    BY StateTyped DEF Whole
  <1>2. /\ Document!Snapshot(s) = [kind |-> "Snapshot", identity |-> s.identity, capability |-> s.of,
                                   complete |-> s.capability.complete, failed |-> s.failed, asset |-> 0]
        /\ Document!Capability(s) = [kind |-> "Capability", identity |-> s.identity, capability |-> s.of,
                                   complete |-> s.capability.complete, failed |-> s.failed, asset |-> 0]
    BY DEF Document!Snapshot, Document!Capability
  <1>3. Document!Snapshot(s) \in Notices /\ Document!Capability(s) \in Notices
    BY <1>1, <1>2 DEF Notices
  <1>4. s.capability.complete = TRUE => s.of # 0 /\ s.failed = FALSE
    BY DEF Whole, CapabilityWhole
  <1>5. s.of # 0 => s.identity = s.of
    BY DEF Whole, CapabilityWhole
  <1>6. Document!Valid(Document!Snapshot(s))
    BY <1>1, <1>2, <1>4, <1>5 DEF Document!Valid
  <1> QED
    BY <1>2, <1>3, <1>6

\* Visuals that are published are shown under their capability.
Beyond(s, n, m) == {<<s.of, s.downloads[i].asset>> : i \in (n + 1)..m}

LEMMA VisualsTaken ==
    ASSUME Whole(state), state.capability.complete = TRUE, NEW p, WholeShelf(p), p.capability = state.of,
           NEW now, now = Document!PublishedNow,
           NEW last, last = [capability |-> state.of,
                             visuals |-> p.visuals \cup Beyond(state, state.visualsPublished, now)]
    PROVE  Document!VisualsDue \in Seq(Notices) /\ Takes(p, Document!VisualsDue, last) /\ WholeShelf(last)
  <1> DEFINE v == state.visualsPublished
             d == state.downloads
             f == state.of
             n == now - v
             View(k) == [capability |-> f, visuals |-> p.visuals \cup Beyond(state, v, v + k)]
             Said(i) == [kind |-> "Visual", identity |-> state.identity, capability |-> f,
                         complete |-> TRUE, failed |-> state.failed, asset |-> d[i].asset]
  <1>1. /\ v \in Nat /\ now \in Nat /\ v <= now /\ now <= Len(d)
        /\ n \in Nat /\ Len(d) \in Nat /\ v + n = now
    BY PublishedFacts, StateTyped DEF Whole
  <1>2. /\ f \in Firmwares /\ f # 0 /\ f \in Known /\ state.identity \in Known /\ state.failed \in BOOLEAN
        /\ d \in Seq(VisualDownloads)
    BY StateTyped DEF Whole, CapabilityWhole, Known
  <1>3. \A i \in 1..now : d[i].asset \in Declarable /\ Declared(f, d[i].asset) /\ <<f, d[i].asset>> \in Firmwares \X Document!Assets
    <2> SUFFICES ASSUME NEW i \in 1..now
                 PROVE  d[i].asset \in Declarable /\ Declared(f, d[i].asset) /\ <<f, d[i].asset>> \in Firmwares \X Document!Assets
      OBVIOUS
    <2>1. i \in 1..Len(d)
      BY <1>1
    <2>2. d[i].asset \in Declarable /\ Declared(f, d[i].asset)
      BY <1>2, <2>1, DownloadsTyped DEF Whole, VisualsDeclared
    <2>3. d[i].asset \in Document!Assets
      BY <1>2, <2>2 DEF Document!Assets, Declared
    <2> QED
      BY <1>2, <2>2, <2>3
  <1>4. p \in Shelves /\ \A w \in p.visuals : w[1] = f /\ Declared(w[1], w[2])
    BY DEF WholeShelf
  <1>5. \A k \in 0..n : View(k) \in Shelves /\ WholeShelf(View(k))
    <2> SUFFICES ASSUME NEW k \in 0..n
                 PROVE  View(k) \in Shelves /\ WholeShelf(View(k))
      OBVIOUS
    <2>1. \A i \in (v + 1)..(v + k) : i \in 1..now
      BY <1>1
    <2>2. p.visuals \subseteq Firmwares \X Document!Assets
      BY <1>4 DEF Shelves
    <2>3. Beyond(state, v, v + k) \subseteq Firmwares \X Document!Assets
      BY <1>3, <2>1 DEF Beyond
    <2>4. View(k) \in Shelves
      BY <1>2, <2>2, <2>3 DEF Shelves
    <2>5. \A w \in View(k).visuals : w[1] = f /\ Declared(w[1], w[2])
      <3>1. \A w \in Beyond(state, v, v + k) : w[1] = f /\ Declared(w[1], w[2])
        BY <1>3, <2>1 DEF Beyond
      <3> QED
        BY <1>4, <3>1
    <2> QED
      BY <2>4, <2>5 DEF WholeShelf
  <1>6. ASSUME NEW i \in 1..now
        PROVE  Document!Visual(state, i) = Said(i) /\ Said(i) \in Notices
    <2>1. Document!Visual(state, i) = [Document!Snapshot(state) EXCEPT !.kind = "Visual", !.asset = d[i].asset]
      BY DEF Document!Visual
    <2>2. Document!Visual(state, i) = Said(i)
      BY <2>1 DEF Document!Snapshot
    <2>3. d[i].asset \in Declarable
      BY <1>3
    <2>4. Said(i) \in Notices
      BY <1>2, <2>3 DEF Notices
    <2> QED
      BY <2>2, <2>4
  <1> DEFINE due == Document!VisualsDue
  <1>7. /\ due \in Seq(Notices) /\ Len(due) = n
        /\ \A k \in 1..n : v + k \in 1..now /\ due[k] = Said(v + k)
    <2>1. \A k \in 1..n : v + k \in 1..now
      BY <1>1
    <2>2. due = [k \in 1..n |-> Document!Visual(state, v + k)]
      BY DEF Document!VisualsDue
    <2> HIDE DEF n, Said, due
    <2>3. \A k \in 1..n : due[k] = Said(v + k) /\ due[k] \in Notices
      BY <1>6, <2>1, <2>2
    <2>4. due \in [1..n -> Notices]
      BY <2>2, <2>3
    <2> QED
      BY <1>1, <2>1, <2>3, <2>4
  <1> HIDE DEF due, n
  <1>8. \A k \in 1..n : View(k) = AfterNotice(View(k - 1), due[k])
    <2> SUFFICES ASSUME NEW k \in 1..n
                 PROVE  View(k) = AfterNotice(View(k - 1), due[k])
      OBVIOUS
    <2> DEFINE i == v + k
               m == Said(i)
               q == View(k - 1)
    <2>1. i \in 1..now /\ due[k] = m /\ v + (k - 1) = i - 1
      BY <1>1, <1>7
    <2>2. m.kind = "Visual" /\ m.capability = f /\ m.asset = d[i].asset
      OBVIOUS
    <2>3. q.capability = f /\ q.visuals = p.visuals \cup Beyond(state, v, i - 1)
      BY <2>1
    <2>4. q = [capability |-> f, visuals |-> p.visuals \cup Beyond(state, v, i - 1)]
      BY <2>1
    <2>5. Declared(f, d[i].asset)
      BY <1>3, <2>1
    <2> HIDE DEF m, q
    <2>6. AfterNotice(q, m) = [q EXCEPT !.visuals = q.visuals \cup {<<f, d[i].asset>>}]
      BY <1>2, <2>2, <2>3, <2>5 DEF AfterNotice
    <2>7. Beyond(state, v, i) = Beyond(state, v, i - 1) \cup {<<f, d[i].asset>>}
      <3>1. (v + 1)..i = ((v + 1)..(i - 1)) \cup {i}
        BY <1>1
      <3> HIDE DEF i
      <3> QED
        BY <3>1 DEF Beyond
    <2>8. AfterNotice(q, m) = [capability |-> f, visuals |-> p.visuals \cup Beyond(state, v, i)]
      BY <2>4, <2>6, <2>7
    <2> QED
      BY <2>1, <2>8 DEF q
  <1> DEFINE views == [k \in 0..n |-> View(k)]
  <1>9. views \in [0..n -> Shelves] /\ \A k \in 0..n : views[k] = View(k) /\ WholeShelf(views[k])
    BY <1>5
  <1>10. View(0) = p
    <2>1. (v + 1)..(v + 0) = {}
      BY <1>1
    <2>2. Beyond(state, v, v + 0) = {}
      BY <2>1 DEF Beyond
    <2> QED
      BY <1>4, <2>2 DEF Shelves
  <1>11. View(n) = last
    BY <1>1
  <1> HIDE DEF View
  <1>12. 0 \in 0..n /\ n \in 0..n /\ \A k \in 1..n : k \in 0..n /\ k - 1 \in 0..n
    BY <1>1 DEF n
  <1>13. views[0] = p /\ views[n] = last /\ \A k \in 1..n : views[k] = AfterNotice(views[k - 1], due[k])
    BY <1>8, <1>9, <1>10, <1>11, <1>12
  <1> HIDE DEF views
  <1>14. Takes(p, due, last)
    BY <1>7, <1>9, <1>13 DEF Takes
  <1>15. WholeShelf(last)
    BY <1>9, <1>12, <1>13
  <1> QED
    BY <1>7, <1>14, <1>15 DEF due

-----------------------------------------------------------------------------
(* The steps.                                                               *)

\* What the exchange under way says of the state.
LEMMA ExchangeSays ==
    ASSUME DocumentParts
    PROVE  /\ state \in States /\ state.session \in Nat /\ state.session <= boot
           /\ state.session = boot => state.identity = firmware
           /\ boot \in Nat /\ boot >= 1 /\ boot <= MaxBoots /\ MaxBoots \in Nat
           /\ RangesPerHeartbeat \in 1..RangesPerHeartbeat
           /\ exchange.exchange = "Identity" => exchange.left \in 1..boot
           /\ exchange.exchange = "Capability" =>
                exchange.left \in 1..RangesPerHeartbeat /\ state.capability.complete = FALSE
           /\ exchange.exchange = "Visual" =>
                /\ exchange.left \in 1..RangesPerHeartbeat
                /\ state.capability.complete = TRUE /\ UnderwayIn(state)
           /\ exchange = Document!Finishing <=> exchange.exchange = "Finish"
           /\ exchange = Document!Idle => exchange # Document!Finishing
  <1>1. /\ boot \in Nat /\ boot >= 1 /\ boot <= MaxBoots /\ MaxBoots \in Nat
        /\ RangesPerHeartbeat \in 1..RangesPerHeartbeat
    BY BoundAssumption, DocumentAssumption DEF DocumentParts
  <1>2. state \in States /\ state.session \in Nat
    BY StateTyped DEF DocumentParts, Whole
  <1>3. state.session <= boot /\ (state.session = boot => state.identity = firmware)
    BY DEF DocumentParts, SessionKnown
  <1>4. ExchangeFits(state, exchange)
    BY DEF DocumentParts
  <1> USE DEF Document!Step, Document!Finishing, Document!Idle
  <1>5. exchange.exchange = "Identity" => exchange.left \in 1..boot
    BY <1>4 DEF ExchangeFits
  <1>6. exchange.exchange = "Capability" =>
                exchange.left \in 1..RangesPerHeartbeat /\ state.capability.complete = FALSE
    BY <1>4 DEF ExchangeFits
  <1>7. exchange.exchange = "Visual" =>
                /\ exchange.left \in 1..RangesPerHeartbeat
                /\ state.capability.complete = TRUE /\ UnderwayIn(state)
    BY <1>4 DEF ExchangeFits, UnderwayIn
  <1>8. exchange = Document!Finishing <=> exchange.exchange = "Finish"
    BY <1>4 DEF ExchangeFits
  <1>9. exchange = Document!Idle => exchange # Document!Finishing
    OBVIOUS
  <1> QED
    BY <1>1, <1>2, <1>3, <1>5, <1>6, <1>7, <1>8, <1>9

\* A state that shows the same agrees with the same page.
LEMMA AgreesOn ==
    ASSUME NEW p, NEW s, NEW t, Whole(s), SameShown(s, t), Agrees(p, s)
    PROVE  Agrees(p, t)
  <1>1. CASE s.announced = TRUE
    BY <1>1 DEF SameShown, Agrees
  <1>2. CASE s.announced # TRUE
    <2>1. s.visualsPublished = 0
      BY <1>2 DEF Whole, PublishedWhole
    <2> QED
      BY <1>2, <2>1 DEF SameShown, Agrees
  <1> QED
    BY <1>1, <1>2

\* A step of the worker that posts nothing.
LEMMA WorkerSteps ==
    ASSUME DocumentParts, exchange # Document!Finishing,
           UNCHANGED <<posted, documents, boot, firmware>>,
           Whole(state'), SessionKnown(state'), ExchangeFits(state', exchange'),
           SameShown(state, state') \/ (exchange' = Document!Finishing /\ state'.capability.complete = FALSE)
    PROVE  DocumentParts'
  <1>1. PICK last \in Shelves :
          /\ Takes(documents, posted, last)
          /\ Agrees(last, state) \/ (exchange = Document!Finishing /\ state.capability.complete = FALSE)
    BY DEF DocumentParts, PageFollows
  <1>2. Agrees(last, state)
    BY <1>1
  <1>3. Agrees(last, state') \/ (exchange' = Document!Finishing /\ state'.capability.complete = FALSE)
    BY <1>2, AgreesOn DEF DocumentParts
  <1>4. PageFollows'
    <2>1. Takes(documents', posted', last)
      BY <1>1
    <2> QED
      BY <1>3, <2>1 DEF PageFollows
  <1>5. Notified'
    BY DEF DocumentParts, Notified
  <1>6. SessionKnown(state)' /\ ExchangeFits(state, exchange)' /\ Whole(state)'
    <2>1. SessionKnown(state)'
      BY DEF SessionKnown
    <2>2. ExchangeFits(state, exchange)'
      BY DEF ExchangeFits
    <2> QED
      BY <2>1, <2>2
  <1>7. (boot \in 1..MaxBoots)' /\ (firmware \in Firmwares)'
    BY DEF DocumentParts
  <1> QED
    BY <1>4, <1>5, <1>6, <1>7 DEF DocumentParts

LEMMA Finishes == \A s : ExchangeFits(s, Document!Finishing)
  BY DEF ExchangeFits

LEMMA DocumentConnects ==
    ASSUME DocumentParts, Document!Connect
    PROVE  DocumentParts'
  <1>1. /\ exchange = Document!Idle /\ exchange' = Document!Step("Identity", boot)
        /\ state' = state /\ UNCHANGED <<posted, documents, boot, firmware>>
    BY DEF Document!Connect, Document!device
  <1>2. boot \in 1..boot
    BY ExchangeSays
  <1>3. ExchangeFits(state', exchange')
    BY <1>1, <1>2 DEF ExchangeFits
  <1>4. SameShown(state, state')
    BY <1>1 DEF SameShown
  <1>5. Whole(state') /\ SessionKnown(state')
    BY <1>1 DEF DocumentParts
  <1> QED
    BY <1>1, <1>3, <1>4, <1>5, ExchangeSays, WorkerSteps

LEMMA DocumentProbes ==
    ASSUME DocumentParts, Document!Probe
    PROVE  DocumentParts'
  <1>1. /\ exchange = Document!Idle /\ exchange' = Document!Step("Heartbeat", 0)
        /\ state' = state /\ UNCHANGED <<posted, documents, boot, firmware>>
    BY DEF Document!Probe, Document!device
  <1>2. ExchangeFits(state', exchange')
    BY <1>1 DEF ExchangeFits
  <1>3. SameShown(state, state')
    BY <1>1 DEF SameShown
  <1>4. Whole(state') /\ SessionKnown(state')
    BY <1>1 DEF DocumentParts
  <1> QED
    BY <1>1, <1>2, <1>3, <1>4, ExchangeSays, WorkerSteps

\* Losing the session, and noting an error of the capability, leave the documents.
LEMMA SessionOf ==
    ASSUME DocumentParts, NEW t, NEW session_ \in {0, state.session}, NEW failed_ \in BOOLEAN,
           t = [state EXCEPT !.session = session_, !.failed = failed_],
           failed_ = state.failed \/ state.capability.complete = FALSE
    PROVE  Whole(t) /\ SessionKnown(t) /\ SameShown(state, t)
  <1>1. /\ t \in States /\ t.identity = state.identity /\ t.capability = state.capability
        /\ t.of = state.of /\ t.announced = state.announced /\ t.failed = failed_
        /\ t.assets = state.assets /\ t.downloads = state.downloads
        /\ t.visualsPublished = state.visualsPublished /\ t.session = session_
    <2>1. session_ \in 0..MaxBoots
      BY ExchangeSays
    <2> QED
      BY <2>1, ExchangeSays DEF States
  <1>2. Whole(t) /\ SameShown(state, t)
    <2>1. Whole(state)
      BY DEF DocumentParts
    <2> QED
      BY <1>1, <2>1, WholeElsewhere
  <1>3. SessionKnown(t)
    BY <1>1, ExchangeSays DEF SessionKnown
  <1> QED
    BY <1>2, <1>3

\* The state does not change by setting what it holds already.
LEMMA SameState ==
    ASSUME NEW s \in States
    PROVE  /\ s = [s EXCEPT !.session = s.session, !.failed = s.failed]
           /\ [s EXCEPT !.session = 0] = [s EXCEPT !.session = 0, !.failed = s.failed]
           /\ [s EXCEPT !.failed = TRUE] = [s EXCEPT !.session = s.session, !.failed = TRUE]
           /\ [[s EXCEPT !.failed = TRUE] EXCEPT !.session = 0] = [s EXCEPT !.session = 0, !.failed = TRUE]
  BY DEF States

LEMMA DocumentLosses ==
    ASSUME DocumentParts, Document!IdentityLost \/ Document!HeartbeatLost \/ Document!CapabilityLost \/ Document!VisualLost
    PROVE  DocumentParts'
  <1>1. PICK session_ \in {0, state.session}, failed_ \in BOOLEAN :
          /\ state' = [state EXCEPT !.session = session_, !.failed = failed_]
          /\ failed_ = state.failed \/ state.capability.complete = FALSE
    <2>1. CASE Document!CapabilityLost
      <3>1. state.capability.complete = FALSE
        BY <2>1, ExchangeSays DEF Document!CapabilityLost, Document!Loss
      <3>2. state' \in {[state EXCEPT !.failed = TRUE], [[state EXCEPT !.failed = TRUE] EXCEPT !.session = 0]}
        BY <2>1 DEF Document!CapabilityLost, Document!Loss
      <3>3. \E session_ \in {0, state.session} : state' = [state EXCEPT !.session = session_, !.failed = TRUE]
        BY <3>2, SameState, ExchangeSays
      <3> QED
        BY <3>1, <3>3
    <2>2. CASE Document!IdentityLost \/ Document!HeartbeatLost \/ Document!VisualLost
      <3>1. state' \in {state, [state EXCEPT !.session = 0]}
        BY <2>2 DEF Document!IdentityLost, Document!HeartbeatLost, Document!VisualLost, Document!Loss
      <3>2. \E session_ \in {0, state.session} : state' = [state EXCEPT !.session = session_, !.failed = state.failed]
        BY <3>1, SameState, ExchangeSays
      <3>3. state.failed \in BOOLEAN
        BY ExchangeSays, StateTyped
      <3> QED
        BY <3>2, <3>3
    <2> QED
      BY <2>1, <2>2
  <1>2. /\ exchange.exchange \in {"Identity", "Heartbeat", "Capability", "Visual"}
        /\ exchange' = Document!Finishing /\ UNCHANGED <<posted, documents, boot, firmware>>
    BY DEF Document!IdentityLost, Document!HeartbeatLost, Document!CapabilityLost,
       Document!VisualLost, Document!Loss, Document!device
  <1>3. Whole(state') /\ SessionKnown(state') /\ SameShown(state, state')
    BY <1>1, SessionOf
  <1>4. exchange # Document!Finishing
    BY <1>2, ExchangeSays
  <1> QED
    BY <1>2, <1>3, <1>4, Finishes, WorkerSteps

LEMMA DocumentRefused ==
    ASSUME DocumentParts, Document!Refused
    PROVE  DocumentParts'
  <1>1. /\ exchange.exchange \in {"Heartbeat", "Capability", "Visual"}
        /\ state' = [state EXCEPT !.session = 0, !.failed = @ \/ exchange.exchange = "Capability"]
        /\ exchange' = Document!Finishing /\ UNCHANGED <<posted, documents, boot, firmware>>
    BY DEF Document!Refused, Document!device
  <1>2. PICK failed_ \in BOOLEAN :
          /\ state' = [state EXCEPT !.session = 0, !.failed = failed_]
          /\ failed_ = state.failed \/ state.capability.complete = FALSE
    <2>1. CASE exchange.exchange = "Capability"
      <3>1. state' = [state EXCEPT !.session = 0, !.failed = TRUE]
        BY <1>1, <2>1
      <3> QED
        BY <2>1, <3>1, ExchangeSays
    <2>2. CASE exchange.exchange # "Capability"
      <3>1. state.failed \in BOOLEAN
        BY ExchangeSays, StateTyped
      <3>2. state' = [state EXCEPT !.session = 0, !.failed = state.failed]
        BY <1>1, <2>2, <3>1
      <3> QED
        BY <3>1, <3>2
    <2> QED
      BY <2>1, <2>2
  <1>3. Whole(state') /\ SessionKnown(state') /\ SameShown(state, state')
    BY <1>2, SessionOf
  <1>4. exchange # Document!Finishing
    BY <1>1, ExchangeSays
  <1> QED
    BY <1>1, <1>3, <1>4, Finishes, WorkerSteps

\* Nothing read is of the identity that is new (connect_device, apply_identity).
LEMMA DocumentFetches ==
    ASSUME DocumentParts, Document!FetchIdentity
    PROVE  DocumentParts'
  <1>1. /\ exchange.exchange = "Identity"
        /\ state' = [Document!AfterIdentity(state, firmware) EXCEPT !.identity = firmware, !.session = exchange.left]
        /\ exchange' = Document!Finishing /\ UNCHANGED <<posted, documents, boot, firmware>>
    BY DEF Document!FetchIdentity, Document!device
  <1>2. /\ exchange.left \in Nat /\ exchange.left <= boot /\ exchange.left \in 0..MaxBoots
        /\ firmware \in Firmwares /\ firmware \in Known /\ firmware # 0 /\ exchange # Document!Finishing
    BY <1>1, ExchangeSays, DocumentAssumption DEF DocumentParts, Known
  <1>3. state.of \in {0, state.identity} /\ Whole(state)
    BY DEF DocumentParts, Whole, CapabilityWhole
  <1>4. CASE (state.identity # 0 /\ state.identity # firmware) \/ (state.of # 0 /\ state.of # firmware)
    <2>1. PICK clock \in 0..MaxBoots :
            state' = [session |-> exchange.left, clock |-> clock, identity |-> firmware,
                      capability |-> Document!NewDownload, of |-> 0, announced |-> FALSE,
                      failed |-> FALSE, assets |-> Document!NoAssets, downloads |-> <<>>,
                      visualsPublished |-> 0]
      <3> DEFINE clock == IF state.identity = 0 THEN state.clock ELSE 0
      <3>1. clock \in 0..MaxBoots
        BY ExchangeSays, StateTyped
      <3>2. Document!AfterIdentity(state, firmware) = [Document!ResetCapability(state) EXCEPT !.clock = clock]
        BY <1>4, ExchangeSays DEF Document!AfterIdentity, Document!ResetCapability, States
      <3> HIDE DEF clock
      <3>3. state' = [session |-> exchange.left, clock |-> clock, identity |-> firmware,
                      capability |-> Document!NewDownload, of |-> 0, announced |-> FALSE,
                      failed |-> FALSE, assets |-> Document!NoAssets, downloads |-> <<>>,
                      visualsPublished |-> 0]
        BY <1>1, <3>2, ExchangeSays DEF Document!ResetCapability, States
      <3> QED
        BY <3>1, <3>3
    <2>2. Whole(state')
      BY <1>2, <2>1, FreshWhole
    <2>3. SessionKnown(state') /\ state'.capability.complete = FALSE
      <3>1. state'.session = exchange.left /\ state'.identity = firmware /\ state'.capability = Document!NewDownload
        BY <2>1
      <3> QED
        BY <1>1, <1>2, <3>1 DEF SessionKnown, Document!NewDownload
    <2> QED
      BY <1>1, <1>2, <2>2, <2>3, Finishes, WorkerSteps
  <1>5. CASE ~ ((state.identity # 0 /\ state.identity # firmware) \/ (state.of # 0 /\ state.of # firmware))
    <2>1. state' = [state EXCEPT !.identity = firmware, !.session = exchange.left]
      BY <1>1, <1>5 DEF Document!AfterIdentity
    <2>2. /\ state' \in States /\ state'.identity = firmware /\ state'.session = exchange.left
          /\ state'.capability = state.capability /\ state'.of = state.of /\ state'.failed = state.failed
          /\ state'.announced = state.announced /\ state'.assets = state.assets
          /\ state'.downloads = state.downloads /\ state'.visualsPublished = state.visualsPublished
      BY <1>2, <2>1, ExchangeSays DEF States
    <2>3. CapabilityWhole(state')
      BY <1>3, <1>5, <2>2 DEF Whole, CapabilityWhole
    <2>4. VisualsWhole(state'.downloads) /\ VisualsDeclared(state') /\ PublishedWhole(state') /\ SameShown(state, state')
      BY <1>3, <2>2 DEF Whole, VisualsDeclared, PublishedWhole, SameShown
    <2>5. SessionKnown(state')
      BY <1>2, <2>2 DEF SessionKnown
    <2>6. Whole(state')
      BY <2>2, <2>3, <2>4 DEF Whole
    <2> QED
      BY <1>1, <1>2, <2>4, <2>5, <2>6, Finishes, WorkerSteps
  <1> QED
    BY <1>4, <1>5

\* A burst begins after the heartbeat, or the connection starts over.
LEMMA DocumentBeats ==
    ASSUME DocumentParts, Document!Heartbeat
    PROVE  DocumentParts'
  <1>1. exchange.exchange = "Heartbeat" /\ state.session = boot /\ UNCHANGED <<posted, documents, boot, firmware>>
    BY DEF Document!Heartbeat, Document!device
  <1>2. exchange # Document!Finishing /\ Whole(state) /\ state \in States
    BY <1>1, ExchangeSays DEF DocumentParts
  <1>3. CASE state.clock \notin {0, boot}
    <2>1. /\ state' = [Document!ResetCapability(state) EXCEPT !.clock = 0, !.identity = 0, !.session = 0]
          /\ exchange' = Document!Finishing
      BY <1>3 DEF Document!Heartbeat, Document!Go
    <2>2. state' = [session |-> 0, clock |-> 0, identity |-> 0,
                    capability |-> Document!NewDownload, of |-> 0, announced |-> FALSE,
                    failed |-> FALSE, assets |-> Document!NoAssets, downloads |-> <<>>,
                    visualsPublished |-> 0]
      BY <1>2, <2>1 DEF Document!ResetCapability, States
    <2>3. 0 \in 0..MaxBoots /\ 0 \in Known /\ boot >= 1
      BY ExchangeSays DEF Known
    <2>4. Whole(state')
      BY <2>2, <2>3, FreshWhole
    <2>5. SessionKnown(state') /\ state'.capability.complete = FALSE
      <3>1. state'.session = 0 /\ state'.capability = Document!NewDownload
        BY <2>2
      <3> QED
        BY <1>1, <2>3, <3>1, ExchangeSays DEF SessionKnown, Document!NewDownload
    <2> QED
      BY <1>1, <1>2, <2>1, <2>4, <2>5, Finishes, WorkerSteps
  <1>4. CASE state.clock \in {0, boot}
    <2> DEFINE sampled == [state EXCEPT !.clock = boot]
               c == Document!AfterCapability(sampled)
    <2>1. /\ sampled \in States /\ sampled.identity = state.identity /\ sampled.capability = state.capability
          /\ sampled.of = state.of /\ sampled.announced = state.announced /\ sampled.failed = state.failed
          /\ sampled.assets = state.assets /\ sampled.downloads = state.downloads
          /\ sampled.visualsPublished = state.visualsPublished /\ sampled.session = state.session
      <3>1. boot \in 0..MaxBoots
        BY ExchangeSays
      <3> QED
        BY <1>2, <3>1 DEF States
    <2>2. IF sampled.capability.complete THEN state' = c.state /\ exchange' = c.step
          ELSE state' = sampled /\ exchange' = Document!Step("Capability", RangesPerHeartbeat)
      BY <1>4 DEF Document!Heartbeat, Document!Go
    <2> HIDE DEF sampled
    <2>3. Whole(sampled) /\ SameShown(state, sampled)
      BY <1>2, <2>1, WholeElsewhere
    <2>4. SessionKnown(sampled)
      BY <2>1, ExchangeSays DEF SessionKnown
    <2>5. CASE ~ sampled.capability.complete
      <3>1. state' = sampled /\ exchange' = Document!Step("Capability", RangesPerHeartbeat)
        BY <2>2, <2>5
      <3>2. sampled.capability.complete = FALSE
        BY <2>1, <2>5, StateTyped
      <3>3. ExchangeFits(state', exchange')
        BY <3>1, <3>2, ExchangeSays DEF ExchangeFits
      <3>4. SessionKnown(state')
        BY <1>1, <2>4, <3>1 DEF SessionKnown
      <3> QED
        BY <1>1, <1>2, <2>3, <3>1, <3>3, <3>4, WorkerSteps
    <2>6. CASE sampled.capability.complete
      <3>1. /\ Whole(c.state) /\ SameShown(sampled, c.state)
            /\ c.state.session = sampled.session /\ c.state.identity = sampled.identity
            /\ c.state.capability = sampled.capability
            /\ c.step # Document!Finishing =>
                 /\ c.step = Document!Step("Visual", RangesPerHeartbeat)
                 /\ sampled.capability.complete = TRUE /\ UnderwayIn(c.state)
        BY <2>3, CapabilityLeads
      <3>2. state' = c.state /\ exchange' = c.step
        BY <2>2, <2>6
      <3> HIDE DEF c
      <3>3. ExchangeFits(state', exchange')
        BY <3>1, <3>2, ExchangeSays DEF ExchangeFits, UnderwayIn
      <3>4. SameShown(state, state')
        <4>1. sampled.visualsPublished = state.visualsPublished
          BY <2>1
        <4> QED
          BY <2>3, <3>1, <3>2, <4>1 DEF SameShown
      <3>5. SessionKnown(state')
        BY <1>1, <2>4, <3>1, <3>2 DEF SessionKnown
      <3>6. Whole(state')
        BY <3>1, <3>2
      <3> QED
        BY <1>1, <1>2, <3>3, <3>4, <3>5, <3>6, WorkerSteps
    <2> QED
      BY <2>5, <2>6
  <1> QED
    BY <1>3, <1>4

LEMMA DocumentReadsCapability ==
    ASSUME DocumentParts, NEW right \in BOOLEAN, Document!CapabilityRange(right)
    PROVE  DocumentParts'
  <1>1. /\ exchange.exchange = "Capability" /\ state.session = boot
        /\ UNCHANGED <<posted, documents, boot, firmware>>
    BY DEF Document!CapabilityRange, Document!device
  <1>2. /\ exchange # Document!Finishing /\ Whole(state) /\ firmware \in Firmwares
        /\ state.identity = firmware /\ state.capability.complete = FALSE
        /\ exchange.left \in 1..RangesPerHeartbeat
    BY <1>1, ExchangeSays DEF DocumentParts
  <1>3. PICK after, s :
          /\ ReadsCapability(state, firmware, right, after, s)
          /\ IF Document!IsError(state.capability, after) \/ after.complete \/ exchange.left = 1
               THEN state' = Document!AfterCapability(s).state /\ exchange' = Document!AfterCapability(s).step
               ELSE state' = s /\ exchange' = Document!Step("Capability", exchange.left - 1)
    BY DEF Document!CapabilityRange, Document!Go, ReadsCapability
  <1>4. /\ Whole(s) /\ SameShown(state, s)
        /\ s.session = state.session /\ s.identity = state.identity /\ s.capability = after
    <2>1. Whole(s) /\ SameShown(state, s)
      <3>1. ReadsCapability(state, firmware, right, after, s)
        BY <1>3
      <3>2. Whole(s)
        BY <1>2, <3>1, CapabilityRead
      <3>3. SameShown(state, s)
        BY <1>2, <3>1, CapabilityRead
      <3> QED
        BY <3>2, <3>3
    <2>2. s.session = state.session /\ s.identity = state.identity /\ s.capability = after
      BY <1>2, <1>3 DEF ReadsCapability, Whole, States
    <2> QED
      BY <2>1, <2>2
  <1> DEFINE c == Document!AfterCapability(s)
             error == Document!IsError(state.capability, after)
  <1>5. /\ Whole(c.state) /\ SameShown(s, c.state)
        /\ c.state.session = s.session /\ c.state.identity = s.identity
        /\ c.state.capability = s.capability
        /\ c.step # Document!Finishing =>
             /\ c.step = Document!Step("Visual", RangesPerHeartbeat)
             /\ s.capability.complete = TRUE /\ UnderwayIn(c.state)
    BY <1>4, CapabilityLeads
  <1> HIDE DEF c, error
  <1>6. CASE error \/ after.complete \/ exchange.left = 1
    <2>1. state' = c.state /\ exchange' = c.step
      BY <1>3, <1>6 DEF c, error
    <2>2. ExchangeFits(state', exchange')
      BY <1>5, <2>1, ExchangeSays DEF ExchangeFits, UnderwayIn
    <2>3. SameShown(state, state')
      <3>1. s.visualsPublished = state.visualsPublished
        BY <1>4 DEF SameShown
      <3> QED
        BY <1>4, <1>5, <2>1, <3>1 DEF SameShown
    <2>4. SessionKnown(state')
      BY <1>1, <1>2, <1>4, <1>5, <2>1, ExchangeSays DEF SessionKnown
    <2>5. Whole(state')
      BY <1>5, <2>1
    <2> QED
      BY <1>1, <1>2, <2>2, <2>3, <2>4, <2>5, WorkerSteps
  <1>7. CASE ~ (error \/ after.complete \/ exchange.left = 1)
    <2>1. state' = s /\ exchange' = Document!Step("Capability", exchange.left - 1)
      BY <1>3, <1>7 DEF error
    <2>2. s.capability.complete = FALSE
      BY <1>4, <1>7, StateTyped DEF Whole
    <2>3. exchange.left - 1 \in 1..RangesPerHeartbeat
      BY <1>2, <1>7, DocumentAssumption
    <2>4. ExchangeFits(state', exchange')
      BY <2>1, <2>2, <2>3 DEF ExchangeFits
    <2>5. SessionKnown(state')
      BY <1>1, <1>2, <1>4, <2>1, ExchangeSays DEF SessionKnown
    <2> QED
      BY <1>1, <1>2, <1>4, <2>1, <2>4, <2>5, WorkerSteps
  <1> QED
    BY <1>6, <1>7

LEMMA DocumentReadsVisual ==
    ASSUME DocumentParts, NEW right \in BOOLEAN, Document!VisualRange(right)
    PROVE  DocumentParts'
  <1>1. /\ exchange.exchange = "Visual" /\ state.session = boot
        /\ UNCHANGED <<posted, documents, boot, firmware>>
    BY DEF Document!VisualRange, Document!device
  <1>2. /\ exchange # Document!Finishing /\ Whole(state)
        /\ state.capability.complete = TRUE /\ UnderwayIn(state)
        /\ exchange.left \in 1..RangesPerHeartbeat
    BY <1>1, ExchangeSays DEF DocumentParts
  <1>3. PICK before, after, s :
          /\ ReadsVisual(state, right, before, after, s)
          /\ IF Document!IsError(before, after) \/ exchange.left = 1 \/ ~ Document!NextVisual(s)
               THEN state' = s /\ exchange' = Document!Finishing
               ELSE /\ state' = Document!EnsureNextVisual(s)
                    /\ exchange' = Document!Step("Visual", exchange.left - 1)
    BY DEF Document!VisualRange, Document!Go, ReadsVisual
  <1>4. /\ Whole(s) /\ SameShown(state, s) /\ Document!Initialized(s)
        /\ s.session = state.session /\ s.identity = state.identity /\ s.capability = state.capability
    <2>1. Whole(s) /\ SameShown(state, s)
      BY <1>2, <1>3, VisualRead
    <2>2. Document!Initialized(s)
      BY <1>2, <1>3, VisualRead
    <2>3. s.session = state.session /\ s.identity = state.identity /\ s.capability = state.capability
      BY <1>2, <1>3 DEF ReadsVisual, Whole, States
    <2> QED
      BY <2>1, <2>2, <2>3
  <1> DEFINE u == Document!EnsureNextVisual(s)
             error == Document!IsError(before, after)
             more == Document!NextVisual(s)
  <1>5. more => /\ Whole(u) /\ SameShown(s, u) /\ UnderwayIn(u)
                /\ u.session = s.session /\ u.identity = s.identity /\ u.capability = s.capability
    BY <1>2, <1>4, VisualBegins
  <1> HIDE DEF u, error, more
  <1>6. CASE error \/ exchange.left = 1 \/ ~ more
    <2>1. state' = s /\ exchange' = Document!Finishing
      BY <1>3, <1>6 DEF error, more
    <2>2. SessionKnown(state')
      BY <1>1, <1>4, <2>1, ExchangeSays DEF SessionKnown
    <2> QED
      BY <1>1, <1>2, <1>4, <2>1, <2>2, Finishes, WorkerSteps
  <1>7. CASE ~ (error \/ exchange.left = 1 \/ ~ more)
    <2>1. state' = u /\ exchange' = Document!Step("Visual", exchange.left - 1) /\ more
      BY <1>3, <1>7 DEF u, error, more
    <2>2. exchange.left - 1 \in 1..RangesPerHeartbeat
      BY <1>2, <1>7, DocumentAssumption
    <2>3. ExchangeFits(state', exchange')
      BY <1>2, <1>4, <1>5, <2>1, <2>2 DEF ExchangeFits, UnderwayIn
    <2>4. SameShown(state, state')
      <3>1. s.visualsPublished = state.visualsPublished
        BY <1>4 DEF SameShown
      <3> QED
        BY <1>4, <1>5, <2>1, <3>1 DEF SameShown
    <2>5. SessionKnown(state')
      BY <1>1, <1>4, <1>5, <2>1, ExchangeSays DEF SessionKnown
    <2>6. Whole(state')
      BY <1>5, <2>1
    <2> QED
      BY <1>1, <1>2, <2>3, <2>4, <2>5, <2>6, WorkerSteps
  <1> QED
    BY <1>6, <1>7

\* The page that has taken what a finished step says of a complete capability shows all of it.
LEMMA CompleteTaken ==
    ASSUME DocumentParts, state.capability.complete = TRUE, NEW last, WholeShelf(last), Agrees(last, state),
           NEW first, first = IF state.announced = FALSE THEN <<Document!Capability(state)>> ELSE <<>>,
           NEW t, t.of = state.of, t.announced = TRUE, t.downloads = state.downloads,
           t.visualsPublished = Document!PublishedNow
    PROVE  /\ first \in Seq(Notices) /\ Document!VisualsDue \in Seq(Notices)
           /\ \E shown : Agrees(shown, t) /\ Takes(last, (first \o Document!VisualsDue) \o <<Document!Snapshot(state)>>, shown)
  <1> DEFINE f == state.of
             v == state.visualsPublished
             now == Document!PublishedNow
             before == [capability |-> f, visuals |-> last.visuals]
             shown == [capability |-> f, visuals |-> last.visuals \cup Beyond(state, v, now)]
             snapshot == Document!Snapshot(state)
  <1>1. Whole(state) /\ f # 0 /\ f \in Known
    BY StateTyped DEF DocumentParts, Whole, CapabilityWhole
  <1>2. last \in Shelves /\ \A w \in last.visuals : w[1] = last.capability /\ Declared(w[1], w[2])
    BY DEF WholeShelf
  <1>3. first \in Seq(Notices) /\ Takes(last, first, before) /\ WholeShelf(before)
    <2>1. CASE state.announced = FALSE
      <3> DEFINE m == Document!Capability(state)
      <3>1. v = 0 /\ last.visuals = {}
        <4>1. v = 0
          BY <1>1, <2>1 DEF Whole, PublishedWhole
        <4> QED
          BY <4>1 DEF Agrees
      <3>2. m \in Notices /\ m.kind = "Capability" /\ m.capability = f
        BY <1>1, SaidIsValid
      <3> HIDE DEF m
      <3>3. AfterNotice(last, m) = before
        BY <1>2, <3>2 DEF AfterNotice, Shelves
      <3>4. WholeShelf(before)
        BY <1>1, <3>1 DEF WholeShelf, Shelves
      <3>5. Takes(last, <<m>>, before)
        BY <3>2, <3>3, <3>4, TakesOne
      <3> QED
        BY <2>1, <3>2, <3>4, <3>5 DEF m
    <2>2. CASE state.announced # FALSE
      <3>1. last.capability = f
        <4>1. state.announced = TRUE
          BY <1>1, <2>2, StateTyped DEF Whole
        <4> QED
          BY <4>1 DEF Agrees
      <3>2. before = last /\ first = <<>>
        BY <1>2, <2>2, <3>1 DEF Shelves
      <3>3. WholeShelf(before) /\ <<>> \in Seq(Notices)
        BY <3>2
      <3>4. Takes(before, <<>>, before)
        BY <3>3, TakesNone
      <3> QED
        BY <3>2, <3>3, <3>4
    <2> QED
      BY <2>1, <2>2
  <1>4. /\ Document!VisualsDue \in Seq(Notices) /\ Takes(before, Document!VisualsDue, shown)
        /\ WholeShelf(shown)
    <2>1. before.capability = state.of /\ before.visuals = last.visuals
      OBVIOUS
    <2> HIDE DEF before
    <2> QED
      BY <1>1, <1>3, <2>1, VisualsTaken
  <1>5. Takes(shown, <<snapshot>>, shown) /\ snapshot \in Notices
    <2>1. snapshot \in Notices /\ snapshot.kind = "Snapshot" /\ snapshot.complete = TRUE /\ snapshot.capability = f
      BY <1>1, SaidIsValid
    <2>2. shown.capability = f
      OBVIOUS
    <2> HIDE DEF shown, snapshot
    <2>3. AfterNotice(shown, snapshot) = shown
      BY <2>1, <2>2 DEF AfterNotice
    <2> QED
      BY <1>4, <2>1, <2>3, TakesOne
  <1>6. Agrees(shown, t)
    <2>1. v \in Nat /\ now \in Nat /\ v <= now
      BY <1>1, PublishedFacts
    <2>2. last.visuals = {<<f, state.downloads[i].asset>> : i \in 1..v}
      BY DEF Agrees
    <2> HIDE DEF v, now
    <2>3. 1..now = (1..v) \cup ((v + 1)..now)
      BY <2>1
    <2>4. {<<f, state.downloads[i].asset>> : i \in 1..now} = last.visuals \cup Beyond(state, v, now)
      BY <2>2, <2>3 DEF Beyond
    <2>5. {<<t.of, t.downloads[i].asset>> : i \in 1..t.visualsPublished} = {<<f, state.downloads[i].asset>> : i \in 1..now}
      BY DEF now
    <2> QED
      BY <2>4, <2>5 DEF Agrees
  <1> HIDE DEF shown, before, snapshot
  <1>7. Takes(last, first \o Document!VisualsDue, shown) /\ first \o Document!VisualsDue \in Seq(Notices)
    <2>1. Takes(last, first \o Document!VisualsDue, shown)
      BY <1>3, <1>4, TakesMore
    <2>2. first \o Document!VisualsDue \in Seq(Notices)
      BY <1>3, <1>4, ConcatProperties
    <2> QED
      BY <2>1, <2>2
  <1>8. <<snapshot>> \in Seq(Notices)
    BY <1>5
  <1>9. Takes(last, (first \o Document!VisualsDue) \o <<snapshot>>, shown)
    BY <1>5, <1>7, <1>8, TakesMore
  <1> QED
    BY <1>3, <1>4, <1>6, <1>9 DEF snapshot

\* The page that has taken the snapshot of an incomplete capability shows nothing.
LEMMA IncompleteTaken ==
    ASSUME DocumentParts, state.capability.complete = FALSE, NEW last, WholeShelf(last),
           NEW t, t.announced = FALSE, t.visualsPublished = 0
    PROVE  /\ Document!VisualsDue = <<>> /\ Document!PublishedNow = 0
           /\ \E shown : Agrees(shown, t) /\ Takes(last, <<Document!Snapshot(state)>>, shown)
  <1> DEFINE shown == [capability |-> 0, visuals |-> {}]
             snapshot == Document!Snapshot(state)
  <1>1. Whole(state) /\ state.downloads = <<>>
    BY DEF DocumentParts, Whole, CapabilityWhole
  <1>2. Document!PublishedNow = 0 /\ state.visualsPublished = 0
    <2>1. Len(state.downloads) = 0
      BY <1>1
    <2> QED
      BY <1>1, <2>1, PublishedFacts
  <1>3. Document!VisualsDue = <<>>
    <2>1. Document!VisualsDue = [k \in 1..(0 - 0) |-> Document!Visual(state, 0 + k)]
      BY <1>2 DEF Document!VisualsDue
    <2>2. 1..(0 - 0) = {}
      OBVIOUS
    <2> QED
      BY <2>1, <2>2
  <1>4. snapshot \in Notices /\ snapshot.kind = "Snapshot" /\ snapshot.complete = FALSE /\ Document!Valid(snapshot)
    BY <1>1, SaidIsValid
  <1>5. WholeShelf(shown)
    BY DEF WholeShelf, Shelves, Known
  <1>6. Agrees(shown, t)
    BY DEF Agrees
  <1>7. AfterNotice(last, snapshot) = shown
    BY <1>4 DEF AfterNotice
  <1> HIDE DEF shown, snapshot
  <1>8. Takes(last, <<snapshot>>, shown)
    BY <1>4, <1>5, <1>7, TakesOne
  <1> QED
    BY <1>2, <1>3, <1>6, <1>8 DEF snapshot

\* Messages of which the page accepts each snapshot.
AllValid(messages) ==
    \A i \in 1..Len(messages) : messages[i].kind = "Snapshot" => Document!Valid(messages[i])

LEMMA AllValidMore ==
    ASSUME NEW first \in Seq(Notices), NEW more \in Seq(Notices), AllValid(first), AllValid(more)
    PROVE  AllValid(first \o more) /\ first \o more \in Seq(Notices)
  <1> DEFINE all == first \o more
  <1>1. /\ all \in Seq(Notices) /\ Len(all) = Len(first) + Len(more)
        /\ Len(first) \in Nat /\ Len(more) \in Nat
        /\ \A i \in 1..(Len(first) + Len(more)) :
             all[i] = IF i <= Len(first) THEN first[i] ELSE more[i - Len(first)]
    BY ConcatProperties
  <1> HIDE DEF all
  <1>2. ASSUME NEW i \in 1..Len(all)
        PROVE  \/ i \in 1..Len(first) /\ all[i] = first[i]
               \/ i - Len(first) \in 1..Len(more) /\ all[i] = more[i - Len(first)]
    BY <1>1
  <1>3. AllValid(all)
    BY <1>2 DEF AllValid
  <1> QED
    BY <1>1, <1>3 DEF all

LEMMA AllSaidValid ==
    ASSUME Whole(state)
    PROVE  /\ AllValid(<<Document!Capability(state)>>) /\ AllValid(<<Document!Snapshot(state)>>)
           /\ Document!VisualsDue \in Seq(Notices) => AllValid(Document!VisualsDue)
  <1>1. AllValid(<<Document!Capability(state)>>) /\ AllValid(<<Document!Snapshot(state)>>)
    <2>1. \A m : Len(<<m>>) = 1 /\ <<m>>[1] = m
      OBVIOUS
    <2>2. Document!Capability(state).kind = "Capability" /\ Document!Valid(Document!Snapshot(state))
      BY SaidIsValid
    <2> QED
      BY <2>1, <2>2 DEF AllValid
  <1>2. ASSUME Document!VisualsDue \in Seq(Notices)
        PROVE  AllValid(Document!VisualsDue)
    <2> DEFINE due == Document!VisualsDue
               v == state.visualsPublished
               n == Document!PublishedNow - v
    <2>1. due = [k \in 1..n |-> Document!Visual(state, v + k)]
      BY DEF Document!VisualsDue
    <2>2. \A k : Document!Visual(state, k).kind = "Visual"
      BY DEF Document!Visual, Document!Snapshot
    <2>3. DOMAIN due = 1..Len(due)
      BY <1>2
    <2> HIDE DEF due, n, v
    <2>4. \A k \in 1..Len(due) : due[k].kind = "Visual"
      BY <2>1, <2>2, <2>3
    <2> QED
      BY <2>4 DEF AllValid, due
  <1> QED
    BY <1>1, <1>2

\* A finished step says what it has read: the capability, its visuals, then the snapshot
\* (finish_device_step).
LEMMA DocumentFinishes ==
    ASSUME DocumentParts, Document!FinishStep
    PROVE  DocumentParts'
  <1> DEFINE first == IF state.announced = FALSE /\ state.capability.complete = TRUE
                        THEN <<Document!Capability(state)>> ELSE <<>>
             due == Document!VisualsDue
             now == Document!PublishedNow
             snapshot == Document!Snapshot(state)
             said == state.announced = TRUE \/ state.capability.complete = TRUE
  <1>1. /\ Whole(state) /\ state \in States /\ state.announced \in BOOLEAN
        /\ state.capability.complete \in BOOLEAN /\ exchange = Document!Finishing
    BY StateTyped DEF DocumentParts, Whole, Document!FinishStep
  <1>2. /\ posted' = posted \o (first \o due) \o <<snapshot>> /\ Len(posted') <= MaxTransfers
        /\ state' = [state EXCEPT !.announced = said, !.visualsPublished = now]
        /\ exchange' = Document!Idle /\ UNCHANGED <<documents, boot, firmware>>
    <2>1. (~ state.announced /\ state.capability.complete) <=> (state.announced = FALSE /\ state.capability.complete = TRUE)
      BY <1>1
    <2>2. (state.announced \/ (~ state.announced /\ state.capability.complete)) = said
      BY <1>1, Zenon
    <2>3. state' = [state EXCEPT !.announced = @ \/ (~ state.announced /\ state.capability.complete),
                                 !.visualsPublished = now]
      BY DEF Document!FinishStep
    <2>4. state' = [state EXCEPT !.announced = said, !.visualsPublished = now]
      BY <1>1, <2>2, <2>3 DEF States
    <2>5. posted' = posted \o (first \o due) \o <<snapshot>> /\ Len(posted') <= MaxTransfers
      BY <2>1 DEF Document!FinishStep, Document!Publishes
    <2> QED
      BY <2>4, <2>5 DEF Document!FinishStep, Document!device
  <1>3. /\ now \in Nat /\ now <= Len(state.downloads) /\ said \in BOOLEAN
        /\ \A i \in 1..now : state.downloads[i].complete = TRUE
    BY <1>1, PublishedFacts
  <1> HIDE DEF now, said, due, snapshot, first
  <1>4. /\ state' \in States /\ state'.announced = said /\ state'.visualsPublished = now
        /\ state'.of = state.of /\ state'.capability = state.capability /\ state'.identity = state.identity
        /\ state'.failed = state.failed /\ state'.assets = state.assets
        /\ state'.downloads = state.downloads /\ state'.session = state.session
    BY <1>1, <1>2, <1>3 DEF States
  <1>5. PICK last \in Shelves : Takes(documents, posted, last) /\ (state.capability.complete = TRUE => Agrees(last, state))
    BY DEF DocumentParts, PageFollows
  <1>6. posted \in Seq(Notices) /\ WholeShelf(last) /\ snapshot \in Notices /\ <<snapshot>> \in Seq(Notices)
    <2>1. posted \in Seq(Notices)
      BY DEF DocumentParts, Notified
    <2>2. snapshot \in Notices
      BY <1>1, SaidIsValid DEF snapshot
    <2>3. WholeShelf(last)
      BY <1>5, <2>1, TakesWhole
    <2>4. <<snapshot>> \in Seq(Notices)
      BY <2>2
    <2> QED
      BY <2>1, <2>2, <2>3, <2>4
  <1>7. /\ first \in Seq(Notices) /\ due \in Seq(Notices)
        /\ \E shown : Agrees(shown, state') /\ Takes(last, (first \o due) \o <<snapshot>>, shown)
        /\ state.capability.complete = FALSE => now = 0 /\ said = FALSE
        /\ state.capability.complete = TRUE => said = TRUE
    <2>1. CASE state.capability.complete = TRUE
      <3>1. said = TRUE
        BY <2>1 DEF said
      <3>2. first = IF state.announced = FALSE THEN <<Document!Capability(state)>> ELSE <<>>
        BY <2>1 DEF first
      <3>3. /\ first \in Seq(Notices) /\ due \in Seq(Notices)
            /\ \E shown : Agrees(shown, state') /\ Takes(last, (first \o due) \o <<snapshot>>, shown)
        BY <1>4, <1>5, <1>6, <2>1, <3>1, <3>2, CompleteTaken DEF now, due, snapshot
      <3> QED
        BY <2>1, <3>1, <3>3
    <2>2. CASE state.capability.complete = FALSE
      <3>1. said = FALSE
        BY <1>1, <2>2 DEF said, Whole, CapabilityWhole
      <3>2. first = <<>>
        BY <2>2 DEF first
      <3>3. state.downloads = <<>> /\ Len(state.downloads) = 0
        BY <1>1, <2>2 DEF Whole, CapabilityWhole
      <3>4. now = 0
        BY <1>3, <3>3
      <3>5. due = <<>> /\ \E shown : Agrees(shown, state') /\ Takes(last, <<snapshot>>, shown)
        BY <1>4, <1>6, <2>2, <3>1, <3>4, IncompleteTaken DEF due, snapshot
      <3>6. <<>> \in Seq(Notices) /\ (<<>> \o <<>>) \o <<snapshot>> = <<snapshot>>
        BY <1>6
      <3> QED
        BY <2>2, <3>1, <3>2, <3>4, <3>5, <3>6
    <2> QED
      BY <1>1, <2>1, <2>2
  <1>8. PICK shown : Agrees(shown, state') /\ Takes(last, (first \o due) \o <<snapshot>>, shown)
    BY <1>7
  <1>9. PICK rest \in Seq(Notices) : rest = (first \o due) \o <<snapshot>> /\ posted' = posted \o rest
    <2>1. first \o due \in Seq(Notices)
      BY <1>7
    <2>2. (first \o due) \o <<snapshot>> \in Seq(Notices)
      BY <1>6, <2>1
    <2>3. posted \o (first \o due) \o <<snapshot>> = posted \o ((first \o due) \o <<snapshot>>)
      BY <1>6, <2>1, ConcatAssociative
    <2> QED
      BY <1>2, <2>2, <2>3
  <1>10. PageFollows'
    <2>1. Takes(documents, posted \o rest, shown)
      BY <1>5, <1>6, <1>8, <1>9, TakesMore
    <2>2. shown \in Shelves
      BY <1>6, <1>8, <1>9, TakesWhole DEF WholeShelf
    <2>3. Takes(documents', posted', shown)
      BY <1>2, <1>9, <2>1
    <2> QED
      BY <1>8, <2>2, <2>3 DEF PageFollows
  <1>11. Whole(state')
    <2>1. CapabilityWhole(state')
      BY <1>1, <1>4, <1>7 DEF Whole, CapabilityWhole
    <2>2. VisualsWhole(state'.downloads) /\ VisualsDeclared(state')
      BY <1>1, <1>4 DEF Whole, VisualsDeclared
    <2>3. PublishedWhole(state')
      BY <1>1, <1>3, <1>4, <1>7 DEF PublishedWhole
    <2> QED
      BY <1>4, <2>1, <2>2, <2>3 DEF Whole
  <1>12. SessionKnown(state)' /\ ExchangeFits(state, exchange)'
    BY <1>2, <1>4 DEF SessionKnown, ExchangeFits, DocumentParts
  <1>13. posted' \in Seq(Notices) /\ AllValid(posted')
    <2>1. AllValid(posted)
      BY DEF DocumentParts, Notified, AllValid
    <2>2. AllValid(first)
      <3>1. AllValid(<<>>)
        BY DEF AllValid
      <3> QED
        BY <1>1, <3>1, AllSaidValid DEF first
    <2>3. AllValid(due) /\ AllValid(<<snapshot>>)
      BY <1>1, <1>7, AllSaidValid DEF due, snapshot
    <2>4. AllValid(first \o due) /\ first \o due \in Seq(Notices)
      BY <1>7, <2>2, <2>3, AllValidMore
    <2>5. AllValid((first \o due) \o <<snapshot>>)
      BY <1>6, <2>3, <2>4, AllValidMore
    <2>6. AllValid(posted \o rest) /\ posted \o rest \in Seq(Notices)
      BY <1>6, <1>9, <2>1, <2>5, AllValidMore
    <2> QED
      BY <1>9, <2>6
  <1>14. Notified'
    BY <1>2, <1>13 DEF Notified, AllValid
  <1> QED
    BY <1>2, <1>10, <1>11, <1>12, <1>14 DEF DocumentParts

\* The page takes the first message.
LEMMA DocumentReceives ==
    ASSUME DocumentParts, Document!PageReceives
    PROVE  DocumentParts'
  <1> DEFINE m == Head(posted)
             p == documents
  <1>1. /\ posted # <<>> /\ posted' = Tail(posted) /\ UNCHANGED <<state, exchange, boot, firmware>>
        /\ documents' =
             CASE m.kind = "Capability" -> [p EXCEPT !.capability = m.capability]
               [] m.kind = "Visual" /\ Document!Admits(m) ->
                    [p EXCEPT !.visuals = @ \cup {<<m.capability, m.asset>>}]
               [] m.kind = "Snapshot" /\ Document!Valid(m) ->
                    IF Document!Keeps(m) THEN p ELSE [capability |-> 0, visuals |-> {}]
               [] OTHER -> p
    BY DEF Document!PageReceives, Document!device
  <1>2. /\ posted \in Seq(Notices) /\ Len(posted) <= MaxTransfers
        /\ \A i \in 1..Len(posted) : posted[i].kind = "Snapshot" => Document!Valid(posted[i])
    BY DEF DocumentParts, Notified
  <1>3. /\ m \in Notices /\ Tail(posted) \in Seq(Notices) /\ Len(posted) \in Nat
        /\ Len(Tail(posted)) = Len(posted) - 1
        /\ \A i \in 1..(Len(posted) - 1) : Tail(posted)[i] = posted[i + 1]
    BY <1>1, <1>2, HeadTailProperties
  <1>4. m.kind \in {"Snapshot", "Capability", "Visual"} /\ m.complete \in BOOLEAN
    BY <1>3 DEF Notices
  <1> HIDE DEF m
  <1>5. documents' = AfterNotice(documents, m)
    <2>1. CASE m.kind = "Capability"
      BY <1>1, <2>1 DEF AfterNotice
    <2>2. CASE m.kind = "Visual"
      <3>1. Document!Admits(m) <=> p.capability = m.capability /\ p.capability # 0 /\ Declared(p.capability, m.asset)
        BY DEF Document!Admits, Declared
      <3>2. m.kind # "Capability" /\ m.kind # "Snapshot"
        BY <2>2
      <3>3. CASE Document!Admits(m)
        <4>1. documents' = [p EXCEPT !.visuals = @ \cup {<<m.capability, m.asset>>}]
          BY <1>1, <2>2, <3>2, <3>3
        <4> QED
          BY <2>2, <3>1, <3>2, <3>3, <4>1 DEF AfterNotice
      <3>4. CASE ~ Document!Admits(m)
        <4>1. documents' = p
          BY <1>1, <3>2, <3>4
        <4> QED
          BY <2>2, <3>1, <3>2, <3>4, <4>1 DEF AfterNotice
      <3> QED
        BY <3>3, <3>4
    <2>3. CASE m.kind = "Snapshot"
      <3>1. m.kind # "Capability" /\ m.kind # "Visual"
        BY <2>3
      <3>2. Document!Keeps(m) <=> m.complete = TRUE /\ m.capability = p.capability
        BY <1>4 DEF Document!Keeps
      <3>3. CASE Document!Valid(m)
        <4>1. documents' = IF Document!Keeps(m) THEN p ELSE [capability |-> 0, visuals |-> {}]
          BY <1>1, <2>3, <3>1, <3>3
        <4> QED
          BY <3>1, <3>2, <3>3, <4>1 DEF AfterNotice
      <3>4. CASE ~ Document!Valid(m)
        <4>1. documents' = p
          BY <1>1, <3>1, <3>4
        <4> QED
          BY <3>1, <3>4, <4>1 DEF AfterNotice
      <3> QED
        BY <3>3, <3>4
    <2> QED
      BY <1>4, <2>1, <2>2, <2>3
  <1>6. PICK last \in Shelves :
          /\ Takes(documents, posted, last)
          /\ Agrees(last, state) \/ (exchange = Document!Finishing /\ state.capability.complete = FALSE)
    BY DEF DocumentParts, PageFollows
  <1>7. Takes(documents', posted', last)
    BY <1>1, <1>2, <1>5, <1>6, TakesOn DEF m
  <1>8. PageFollows'
    BY <1>1, <1>6, <1>7 DEF PageFollows
  <1>9. Notified'
    <2>1. Len(posted') <= MaxTransfers
      BY <1>1, <1>2, <1>3, DocumentAssumption
    <2>2. \A i \in 1..Len(posted') : i + 1 \in 1..Len(posted) /\ posted'[i] = posted[i + 1]
      BY <1>1, <1>3
    <2> QED
      BY <1>1, <1>2, <1>3, <2>1, <2>2 DEF Notified
  <1> QED
    BY <1>1, <1>8, <1>9 DEF DocumentParts, SessionKnown, ExchangeFits

\* After a restart no session is of the device's boot.
LEMMA DocumentRestarts ==
    ASSUME DocumentParts, Document!Restart
    PROVE  DocumentParts'
  <1>1. /\ boot < MaxBoots /\ boot' = boot + 1 /\ firmware' \in Firmwares
        /\ UNCHANGED <<state, exchange, posted, documents>>
    BY DEF Document!Restart
  <1>2. SessionKnown(state)' /\ boot' \in 1..MaxBoots
    BY <1>1, ExchangeSays DEF SessionKnown
  <1>3. ExchangeFits(state, exchange)'
    <2>1. \A left \in 1..boot : left \in 1..boot'
      BY <1>1, ExchangeSays
    <2> QED
      BY <1>1, <2>1 DEF DocumentParts, ExchangeFits
  <1>4. PageFollows'
    BY <1>1 DEF DocumentParts, PageFollows
  <1>5. Notified'
    BY <1>1 DEF DocumentParts, Notified
  <1> QED
    BY <1>1, <1>2, <1>3, <1>4, <1>5 DEF DocumentParts

LEMMA DocumentInit ==
    ASSUME Document!Init
    PROVE  DocumentParts
  <1>1. /\ state = Document!NewState /\ exchange = Document!Idle /\ posted = <<>>
        /\ documents = [capability |-> 0, visuals |-> {}] /\ boot = 1 /\ firmware \in Firmwares
    BY DEF Document!Init
  <1>2. boot \in 1..MaxBoots /\ 0 \in 0..MaxBoots /\ 0 \in Known
    BY <1>1, BoundAssumption DEF Known
  <1>3. state = [session |-> 0, clock |-> 0, identity |-> 0,
                 capability |-> Document!NewDownload, of |-> 0, announced |-> FALSE,
                 failed |-> FALSE, assets |-> Document!NoAssets, downloads |-> <<>>,
                 visualsPublished |-> 0]
    BY <1>1 DEF Document!NewState
  <1>4. Whole(state)
    BY <1>2, <1>3, FreshWhole
  <1>5. SessionKnown(state) /\ ExchangeFits(state, exchange)
    BY <1>1, <1>3 DEF SessionKnown, ExchangeFits
  <1>6. WholeShelf(documents) /\ documents \in Shelves
    BY <1>1, <1>2 DEF WholeShelf, Shelves
  <1>7. Agrees(documents, state)
    BY <1>1, <1>3 DEF Agrees
  <1>8. Takes(documents, posted, documents)
    BY <1>1, <1>6, TakesNone
  <1>9. PageFollows
    BY <1>6, <1>7, <1>8 DEF PageFollows
  <1>10. Notified
    <2>1. posted \in Seq(Notices) /\ Len(posted) = 0
      BY <1>1
    <2> QED
      BY <2>1, DocumentAssumption DEF Notified
  <1> QED
    BY <1>1, <1>2, <1>4, <1>5, <1>9, <1>10 DEF DocumentParts

LEMMA DocumentStep ==
    ASSUME DocumentParts, Document!Next
    PROVE  DocumentParts'
  BY DocumentConnects, DocumentProbes, DocumentFinishes, DocumentReceives, DocumentRestarts,
     DocumentFetches, DocumentRefused, DocumentBeats, DocumentReadsCapability, DocumentReadsVisual,
     DocumentLosses DEF Document!Next, Document!Answered

\* What the invariant says of the page and of the worker.
LEMMA DocumentPromises ==
    ASSUME DocumentParts
    PROVE  /\ Document!TypeOK /\ Document!ShownBelongs /\ Document!CompleteIsRight
           /\ Document!EverySnapshotIsValid /\ Document!ShownAtRest
  <1>1. PICK last \in Shelves :
          /\ Takes(documents, posted, last)
          /\ Agrees(last, state) \/ (exchange = Document!Finishing /\ state.capability.complete = FALSE)
    BY DEF DocumentParts, PageFollows
  <1>2. posted \in Seq(Notices) /\ Len(posted) <= MaxTransfers
    BY DEF DocumentParts, Notified
  <1>3. WholeShelf(documents) /\ (posted = <<>> => last = documents)
    BY <1>1, <1>2, TakesWhole
  <1>4. Whole(state) /\ state \in States
    BY DEF DocumentParts, Whole
  <1>5. Document!ShownBelongs
    BY <1>3 DEF Document!ShownBelongs, WholeShelf, Declared
  <1>6. Document!CompleteIsRight
    <2>1. state.capability.complete =>
            state.capability.right /\ state.capability.received = CapabilityRanges[state.of]
      BY <1>4, StateTyped DEF Whole, CapabilityWhole
    <2>2. ASSUME NEW i \in 1..Len(state.downloads), state.downloads[i].complete
          PROVE  state.downloads[i].right /\ state.downloads[i].received = AssetRanges[state.downloads[i].asset]
      <3>1. state.downloads[i].complete = TRUE
        BY <1>4, <2>2, StateTyped, DownloadsTyped
      <3> QED
        BY <1>4, <3>1 DEF Whole, VisualsWhole
    <2>3. DOMAIN state.downloads = 1..Len(state.downloads)
      BY <1>4, StateTyped
    <2> QED
      BY <2>1, <2>2, <2>3 DEF Document!CompleteIsRight
  <1>7. Document!EverySnapshotIsValid
    <2>1. DOMAIN posted = 1..Len(posted)
      BY <1>2
    <2> QED
      BY <2>1 DEF DocumentParts, Notified, Document!EverySnapshotIsValid
  <1>8. Document!ShownAtRest
    <2> SUFFICES ASSUME posted = <<>>, exchange.exchange # "Finish"
                 PROVE  /\ documents.capability = (IF state.announced THEN state.of ELSE 0)
                        /\ documents.visuals = {<<state.of, state.downloads[i].asset>> : i \in 1..state.visualsPublished}
      BY DEF Document!ShownAtRest
    <2>1. Agrees(documents, state)
      BY <1>1, <1>3, ExchangeSays
    <2>2. state.announced \in BOOLEAN
      BY <1>4, StateTyped
    <2> QED
      BY <2>1, <2>2 DEF Agrees
  <1>9. Document!TypeOK
    <2>1. exchange.left \in 0..(IF exchange.exchange = "Identity" THEN MaxBoots ELSE RangesPerHeartbeat)
      <3>1. ExchangeFits(state, exchange)
        BY DEF DocumentParts
      <3> USE DEF Document!Step, Document!Idle, Document!Finishing
      <3>2. CASE exchange \in {Document!Idle, Document!Finishing, Document!Step("Heartbeat", 0)}
        <4>1. exchange.left = 0 /\ exchange.exchange # "Identity"
          BY <3>2
        <4> QED
          BY <4>1, DocumentAssumption
      <3>3. CASE \E left \in 1..boot : exchange = Document!Step("Identity", left)
        <4>1. exchange.exchange = "Identity" /\ exchange.left \in 1..boot
          BY <3>3
        <4> QED
          BY <4>1, ExchangeSays
      <3>4. CASE \E left \in 1..RangesPerHeartbeat :
                    exchange = Document!Step("Capability", left) \/ exchange = Document!Step("Visual", left)
        <4>1. exchange.exchange # "Identity" /\ exchange.left \in 1..RangesPerHeartbeat
          BY <3>4
        <4> QED
          BY <4>1, DocumentAssumption
      <3> QED
        BY <3>1, <3>2, <3>3, <3>4 DEF ExchangeFits
    <2>2. Document!Initialized(state) \/ state.downloads = <<>>
      BY <1>4 DEF Whole, VisualsDeclared, Document!Initialized
    <2>3. state.visualsPublished \in 0..Len(state.downloads) /\ Document!Retained(state.downloads) <= MaxTotal
      BY <1>4, StateTyped DEF Whole, PublishedWhole, VisualsWhole
    <2>4. documents.capability \in Firmwares \cup {0} /\ documents.visuals \subseteq (Firmwares \X Document!Assets)
      BY <1>3 DEF WholeShelf, Shelves, Known
    <2>5. /\ state.session \in 0..MaxBoots /\ state.clock \in 0..MaxBoots
          /\ state.identity \in Firmwares \cup {0} /\ state.of \in Firmwares \cup {0}
          /\ state.capability \in Document!Download
      BY <1>4, StateTyped DEF Known
    <2> QED
      BY <1>2, <2>1, <2>2, <2>3, <2>4, <2>5 DEF Document!TypeOK
  <1> QED
    BY <1>5, <1>6, <1>7, <1>8, <1>9

\* What the page shows is of one capability, whole and right, and at rest all that is complete,
\* whatever restarts, updates, lost and wrong ranges come between; and the page never rejects
\* an honest device's snapshot (finish_device_step, apply_snapshot, apply_visual_transfer,
\* accept_response).
THEOREM DocumentAlwaysTrue == Spec => []DocumentIsTrue
  <1>1. Init => DocumentInv
    BY DocumentInit DEF Init, DocumentInv
  <1>2. DocumentInv /\ [Next]_vars => DocumentInv'
    <2> SUFFICES ASSUME DocumentInv, [Next]_vars, service' = "Document"
                 PROVE  DocumentParts'
      BY DEF DocumentInv
    <2>1. service = "Document" /\ DocumentParts
      BY DEF DocumentInv, Next, vars, Telemetry_, Waveform_, Document_
    <2>2. CASE Document!Next
      BY <2>1, <2>2, DocumentStep
    <2>3. CASE UNCHANGED vars
      <3>1. UNCHANGED <<state, exchange, documents, firmware, posted, boot>>
        BY <2>3 DEF vars, document
      <3> QED
        BY <2>1, <3>1 DEF DocumentParts, SessionKnown, ExchangeFits, Notified, PageFollows
    <2> QED
      BY <2>1, <2>2, <2>3 DEF Next, Telemetry_, Waveform_, Document_
  <1>3. DocumentInv => DocumentIsTrue
    BY DocumentPromises DEF DocumentInv, DocumentIsTrue
  <1> QED
    BY <1>1, <1>2, <1>3, PTL DEF Spec
=============================================================================

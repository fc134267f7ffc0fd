--------------------------- MODULE ClockProbe_proofs ---------------------------
(***************************************************************************)
(* Proofs about the clock of a device, for every timer error, time and     *)
(* number of boots.                                                        *)
(*                                                                         *)
(* The argument: a reading widened by the error and rounded outward lies   *)
(* on the right side of the instant it was taken, the device's counter     *)
(* lies between, so the start of the boot is inside what one exchange      *)
(* allows; and the model intersects only exchanges of one boot.            *)
(***************************************************************************)
EXTENDS MCClockProbe, SequenceTheorems, TLAPS

-----------------------------------------------------------------------------
(* The inductive invariant, in named parts.                                *)

\* What is named is a boot there was, and no boot started in the future.
BootsKnown ==
    /\ clock.boot <= device.boot /\ session <= device.boot /\ exchange.boot <= device.boot
    /\ \A b \in Boots : origin[b] <= now

\* An exchange belongs to the task that probes, and its instants are ordered: the
\* reading, the receipt, the transmission, the present.
ExchangeTrue ==
    /\ step # "Probing" => exchange.stage = "None"
    /\ step = "Probing" => /\ 2 * clock.pending.send <= now
                           /\ clock.pending.probe # 0
                           /\ exchange.boot \in Boots
    /\ exchange.stage \in {"Received", "Transmitted"} =>
          2 * clock.pending.send <= 2 * exchange.received + 1 + origin[exchange.boot]
    /\ exchange.stage = "Transmitted" =>
          2 * exchange.transmitted + origin[exchange.boot] <= now

IInv == TypeOK /\ PendingHasTask /\ OffsetInside /\ BootsKnown /\ ExchangeTrue

-----------------------------------------------------------------------------
(* Readings and cycles.                                                    *)

\* Halving loses less than one.
LEMMA Halving ==
    \A n \in Int : /\ n \div 2 \in Int
                   /\ 2 * (n \div 2) <= n /\ n <= 2 * (n \div 2) + 1
  OBVIOUS

\* The bounds of a reading lie on either side of the instant it was taken at.
LEMMA BoundsHold ==
    ASSUME NEW t \in Nat, NEW reading \in Readings(t)
    PROVE  /\ Earliest(reading) \in Nat /\ Latest(reading) \in Nat
           /\ 2 * Earliest(reading) <= t /\ t <= 2 * Latest(reading)
<1> DEFINE low == reading \div 2
           high == (reading + 1) \div 2
<1>1. /\ reading \in Nat /\ TimerError \in Nat
      /\ reading <= t + 2 * TimerError /\ t <= reading + 2 * TimerError
  BY ClockAssumption DEF Readings
<1>2. /\ low \in Int /\ 2 * low <= reading
      /\ high \in Int /\ reading + 1 <= 2 * high + 1
  BY <1>1, Halving
<1>3. Latest(reading) = high + TimerError
  BY DEF Latest
<1>4. Earliest(reading) = IF low - TimerError < 0 THEN 0 ELSE low - TimerError
  BY DEF Earliest, Atleast0
<1> HIDE DEF low, high
<1> QED
  BY <1>1, <1>2, <1>3, <1>4

\* What one answered exchange allows holds the start of the boot that answered it.
LEMMA ExchangeAllows ==
    ASSUME IInv, step = "Probing", exchange.stage = "Transmitted",
           NEW reading \in PossibleReadings
    PROVE  LET low == FromLow(clock.pending.send, exchange.received)
               high == FromHigh(Latest(reading), exchange.transmitted)
           IN  /\ low \in Int /\ high \in Int
               /\ low <= origin[exchange.boot] /\ origin[exchange.boot] <= high
<1>1. /\ reading \in Readings(now) /\ now \in Nat
  BY DEF PossibleReadings, IInv, TypeOK
<1>2. Latest(reading) \in Nat /\ now <= 2 * Latest(reading)
  BY <1>1, BoundsHold
<1>3. /\ clock.pending.send \in Int /\ exchange.received \in Int /\ exchange.transmitted \in Int
      /\ origin[exchange.boot] \in Int
  BY DEF IInv, TypeOK, ExchangeTrue, Clocks, Pending, Exchanges
<1>4. /\ 2 * clock.pending.send <= 2 * exchange.received + 1 + origin[exchange.boot]
      /\ 2 * exchange.transmitted + origin[exchange.boot] <= now
  BY DEF IInv, ExchangeTrue
<1> QED
  BY <1>1, <1>2, <1>3, <1>4 DEF FromLow, FromHigh

\* Intersecting intervals that hold an instant leaves it inside.
LEMMA NarrowedHolds ==
    ASSUME NEW c \in Clocks, NEW low \in Int, NEW high \in Int, NEW o \in Int,
           low <= o, o <= high, c.boot # 0 => c.low <= o /\ o <= c.high
    PROVE  /\ Narrowed(c, low, high) \in Clocks
           /\ Narrowed(c, low, high).low <= o /\ o <= Narrowed(c, low, high).high
           /\ Narrowed(c, low, high).boot = c.boot /\ Narrowed(c, low, high).next = c.next
           /\ Narrowed(c, low, high).pending = c.pending
  BY DEF Narrowed, Clocks

LEMMA ResetTyped ==
    ASSUME NEW c \in Clocks
    PROVE  /\ AbandonPending(c) \in Clocks /\ AbandonPending(c).pending = NoProbe
           /\ AbandonPending(c).boot = c.boot /\ AbandonPending(c).low = c.low
           /\ AbandonPending(c).high = c.high
           /\ NewClock \in Clocks /\ NewClock.boot = 0 /\ NewClock.pending = NoProbe
           /\ c.pending = NoProbe => Reset(c) = NewClock
           /\ Reset(AbandonPending(c)) = NewClock
<1>1. NoProbe \in Pending
  BY DEF NoProbe, Pending
<1>2. /\ AbandonPending(c) \in Clocks /\ AbandonPending(c).pending = NoProbe
      /\ AbandonPending(c).boot = c.boot /\ AbandonPending(c).low = c.low
      /\ AbandonPending(c).high = c.high
  BY <1>1 DEF AbandonPending, Clocks
<1>3. NewClock \in Clocks /\ NewClock.boot = 0 /\ NewClock.pending = NoProbe
  BY <1>1, ClockAssumption DEF NewClock, Clocks
<1> QED
  BY <1>2, <1>3 DEF Reset

LEMMA RecordedTyped ==
    ASSUME NEW record \in [boot : Boots, probe : Nat \ {0}],
           history \in Seq([boot : Boots, probe : Nat \ {0}]), Len(history) <= MaxHistory
    PROVE  /\ Recorded(record) \in Seq([boot : Boots, probe : Nat \ {0}])
           /\ Len(Recorded(record)) <= MaxHistory
<1> DEFINE R == [boot : Boots, probe : Nat \ {0}]
<1> HIDE DEF R
<1>1. history \in Seq(R) /\ record \in R /\ Len(history) <= MaxHistory
      /\ MaxHistory \in Nat \ {0} /\ Len(history) \in Nat
  BY ClockAssumption DEF R
<1>2. CASE Len(history) = MaxHistory
  <2>1. Tail(history) \in Seq(R) /\ Len(Tail(history)) = Len(history) - 1
    BY <1>1, <1>2
  <2> QED BY <1>1, <1>2, <2>1 DEF Recorded, R
<1>3. CASE Len(history) # MaxHistory
  BY <1>1, <1>3 DEF Recorded, R
<1> QED BY <1>2, <1>3

-----------------------------------------------------------------------------
(* The invariant is inductive.                                             *)

LEMMA InitEstablishes == Init => IInv
<1> SUFFICES ASSUME Init PROVE IInv
  OBVIOUS
<1>1. TypeOK
  <2>1. NewClock \in Clocks
    BY ClockAssumption DEF NewClock, NoProbe, Clocks, Pending
  <2>2. NoExchange \in Exchanges
    BY ClockAssumption DEF NoExchange, Exchanges
  <2>3. 1 \in Boots /\ MaxHistory \in Nat
    BY ClockAssumption DEF Boots
  <2>4. /\ <<>> \in Seq([boot : Boots, probe : Nat \ {0}]) /\ Len(<<>>) <= MaxHistory
    BY <2>3
  <2>5. 0 \in 0..MaxBoots
    BY ClockAssumption
  <2> QED
    BY <2>1, <2>2, <2>3, <2>4, <2>5 DEF Init, TypeOK
<1>2. PendingHasTask /\ OffsetInside /\ BootsKnown /\ ExchangeTrue
  BY ClockAssumption DEF Init, PendingHasTask, OffsetInside, BootsKnown, ExchangeTrue,
     NewClock, NoProbe, NoExchange, Boots
<1> QED BY <1>1, <1>2 DEF IInv

\* Steps that leave the model, or leave it without a pending probe, and move no instant.
LEMMA ConnectionStep ==
    ASSUME IInv, Connect \/ Connected \/ ConnectFails \/ ProbeUnread \/ ProbeFails
                 \/ ProbeRefused \/ SessionDropped
    PROVE  IInv'
<1> USE DEF IInv
<1>0. /\ clock \in Clocks /\ device.boot \in Boots /\ Boots \subseteq Nat
      /\ device.boot \in 0..MaxBoots /\ exchange.boot \in 0..MaxBoots
      /\ <<>> \in Seq([boot : Boots, probe : Nat \ {0}]) /\ Len(<<>>) <= MaxHistory
      /\ NoExchange \in Exchanges
      /\ [NoExchange EXCEPT !.boot = device.boot] \in Exchanges
      /\ device.identity \in Identities
  BY ClockAssumption DEF TypeOK, Boots, Exchanges, NoExchange
<1>1. CASE Connect
  <2>1. TypeOK' BY <1>0, <1>1 DEF Connect, TypeOK
  <2>2. (PendingHasTask /\ OffsetInside)'
    BY <1>1 DEF Connect, PendingHasTask, OffsetInside
  <2>3. (BootsKnown /\ ExchangeTrue)'
    BY <1>0, <1>1 DEF Connect, BootsKnown, ExchangeTrue, NoExchange
  <2> QED BY <2>1, <2>2, <2>3
<1>2. CASE Connected
  <2>1. clock.pending = NoProbe BY <1>2 DEF Connected, PendingHasTask
  <2>2. /\ clock' \in Clocks /\ clock'.pending = NoProbe
        /\ clock' = clock \/ clock'.boot = 0
    BY <1>0, <1>2, <2>1, ResetTyped DEF Connected
  <2>3. TypeOK'
    <3>1. /\ history' \in Seq([boot : Boots, probe : Nat \ {0}]) /\ Len(history') <= MaxHistory
      BY <1>0, <1>2 DEF Connected, TypeOK
    <3>2. estimate' \in BOOLEAN
      <4>1. \/ estimate' = (estimate /\ ~(identity \notin {0, device.identity}))
            \/ estimate' = FALSE
        BY <1>2 DEF Connected
      <4> QED BY <4>1
    <3>4. session' \in 0..MaxBoots
      <4>1. session' = exchange.boot \/ session' = 0
        BY <1>2 DEF Connected
      <4> QED BY <1>0, <4>1, ClockAssumption
    <3>3. /\ identity' \in Identities \cup {0} /\ step' = "Idle" /\ exchange' = NoExchange
          /\ UNCHANGED <<device, origin, now>>
      BY <1>0, <1>2 DEF Connected
    <3> QED BY <1>0, <2>2, <3>1, <3>2, <3>3, <3>4 DEF TypeOK
  <2>4. PendingHasTask' BY <2>2 DEF PendingHasTask
  <2>5. OffsetInside' BY <1>2, <2>2 DEF Connected, OffsetInside
  <2>6. (BootsKnown /\ ExchangeTrue)'
    BY <1>0, <1>2, <2>2 DEF Connected, BootsKnown, ExchangeTrue, NoExchange
  <2> QED BY <2>3, <2>4, <2>5, <2>6
<1>3. CASE ConnectFails
  <2>1. TypeOK' BY <1>0, <1>3 DEF ConnectFails, ScheduleFailure, TypeOK
  <2>2. (PendingHasTask /\ OffsetInside)'
    BY <1>3 DEF ConnectFails, ScheduleFailure, PendingHasTask, OffsetInside
  <2>3. (BootsKnown /\ ExchangeTrue)'
    BY <1>0, <1>3 DEF ConnectFails, ScheduleFailure, BootsKnown, ExchangeTrue, NoExchange
  <2> QED BY <2>1, <2>2, <2>3
<1>4. CASE ProbeUnread
  BY <1>4 DEF ProbeUnread, ScheduleFailure, TypeOK, PendingHasTask, OffsetInside,
     BootsKnown, ExchangeTrue
<1>5. CASE ProbeFails \/ ProbeRefused
  <2>1. /\ clock' = AbandonPending(clock) /\ step' = "Idle" /\ estimate' = FALSE
        /\ session' \in {session, 0} /\ exchange' = NoExchange
        /\ UNCHANGED <<history, identity, device, origin, now>>
    BY <1>5 DEF ProbeFails, ProbeRefused, AfterFailure, ScheduleFailure
  <2>2. /\ clock' \in Clocks /\ clock'.pending = NoProbe /\ clock'.boot = clock.boot
        /\ clock'.low = clock.low /\ clock'.high = clock.high
    BY <1>0, <2>1, ResetTyped
  <2>3. session' \in 0..MaxBoots
    BY <2>1, ClockAssumption DEF TypeOK
  <2>6. TypeOK' BY <1>0, <2>1, <2>2, <2>3 DEF TypeOK
  <2>4. (PendingHasTask /\ OffsetInside)' BY <2>1, <2>2 DEF PendingHasTask, OffsetInside
  <2>5. (BootsKnown /\ ExchangeTrue)'
    BY <1>0, <2>1, <2>2 DEF BootsKnown, ExchangeTrue, NoExchange
  <2> QED BY <2>4, <2>5, <2>6
<1>6. CASE SessionDropped
  <2>1. 0 \in 0..MaxBoots /\ device.boot \in Nat
    BY <1>0, ClockAssumption
  <2>2. TypeOK' BY <1>6, <2>1 DEF SessionDropped, TypeOK
  <2>3. (PendingHasTask /\ OffsetInside)' BY <1>6 DEF SessionDropped, PendingHasTask, OffsetInside
  <2>4. (BootsKnown /\ ExchangeTrue)' BY <1>6, <2>1 DEF SessionDropped, BootsKnown, ExchangeTrue
  <2> QED BY <2>2, <2>3, <2>4
<1> QED BY <1>1, <1>2, <1>3, <1>4, <1>5, <1>6

\* A probe begins with a reading of the present, widened downward.
LEMMA ProbeStep == ASSUME IInv, Probe PROVE IInv'
<1> USE DEF IInv
<1>1. PICK reading \in PossibleReadings : clock' = BeginProbe(clock, Earliest(reading))
  BY DEF Probe
<1>2. /\ Earliest(reading) \in Nat /\ 2 * Earliest(reading) <= now
  BY BoundsHold DEF PossibleReadings, TypeOK
<1>3. /\ clock' \in Clocks /\ clock'.pending.send = Earliest(reading)
      /\ clock'.pending.probe # 0
      /\ clock'.boot = clock.boot /\ clock'.low = clock.low /\ clock'.high = clock.high
  <2> DEFINE pending == [probe |-> clock.next, send |-> Earliest(reading)]
  <2>1. clock \in Clocks /\ clock.next \in Nat \ {0} /\ clock.next + 1 \in Nat \ {0}
    BY DEF TypeOK, Clocks
  <2>2. pending \in Pending /\ pending.send = Earliest(reading) /\ pending.probe # 0
    BY <1>2, <2>1 DEF Pending
  <2>3. clock' = [clock EXCEPT !.pending = pending, !.next = clock.next + 1]
    BY <1>1 DEF BeginProbe
  <2> HIDE DEF pending
  <2> QED BY <2>1, <2>2, <2>3 DEF Clocks
<1>4. session \in Boots /\ session \in 0..MaxBoots
  BY ClockAssumption DEF Probe, TypeOK, Boots
<1>5. exchange' = [NoExchange EXCEPT !.stage = "Sent", !.boot = session] /\ step' = "Probing"
  BY DEF Probe
<1>6. /\ exchange' \in Exchanges /\ exchange'.boot = session /\ exchange'.stage = "Sent"
  <2>1. NoExchange \in Exchanges
    BY ClockAssumption DEF NoExchange, Exchanges
  <2> QED BY <1>4, <1>5, <2>1 DEF Exchanges
<1>7. TypeOK'
  BY <1>3, <1>5, <1>6 DEF Probe, TypeOK
<1>8. (PendingHasTask /\ OffsetInside)'
  BY <1>3, <1>5 DEF Probe, PendingHasTask, OffsetInside
<1>9. (BootsKnown /\ ExchangeTrue)'
  BY <1>2, <1>3, <1>4, <1>5, <1>6 DEF Probe, BootsKnown, ExchangeTrue
<1> QED BY <1>7, <1>8, <1>9

\* An answer is accepted, rejected by the estimator, or voids the model.
LEMMA AnsweredStep == ASSUME IInv, Answered PROVE IInv'
<1> USE DEF IInv
<1>1. PICK reading \in PossibleReadings :
        LET receive == Latest(reading) IN
        IF BootChanged(clock, exchange.boot)
        THEN /\ clock' = Reset(AbandonPending(clock))
             /\ history' = Forgotten(history)
             /\ session' = 0 /\ identity' = 0
             /\ ScheduleFailure
        ELSE /\ UNCHANGED <<session, identity>>
             /\ step' = "Idle"
             /\ IF Observes(clock, exchange, receive)
                THEN /\ clock' = Observed(clock, exchange, receive)
                     /\ history' = Recorded([boot |-> exchange.boot,
                                             probe |-> clock.pending.probe])
                     /\ estimate' \in BOOLEAN
                ELSE /\ clock' = AbandonPending(clock)
                     /\ estimate' = FALSE
                     /\ UNCHANGED history
  BY DEF Answered
<1> DEFINE low == FromLow(clock.pending.send, exchange.received)
           high == FromHigh(Latest(reading), exchange.transmitted)
<1>2. /\ step = "Probing" /\ exchange.stage = "Transmitted"
      /\ exchange' = NoExchange /\ UNCHANGED <<device, origin, now>>
  BY DEF Answered
<1>3. /\ low \in Int /\ high \in Int
      /\ low <= origin[exchange.boot] /\ origin[exchange.boot] <= high
  BY <1>2, ExchangeAllows
<1>4. /\ exchange.boot \in Boots /\ exchange.boot <= device.boot /\ clock \in Clocks
      /\ origin[exchange.boot] \in Int /\ 0 \in 0..MaxBoots
      /\ exchange.boot \in 0..MaxBoots
      /\ NoExchange \in Exchanges /\ NoExchange.boot = 0 /\ NoExchange.stage = "None"
  BY <1>2, ClockAssumption DEF TypeOK, ExchangeTrue, BootsKnown, Boots, NoExchange, Exchanges
<1> HIDE DEF low, high
<1>5. /\ step' = "Idle" /\ clock' \in Clocks /\ OffsetInside'
      /\ clock'.pending = NoProbe /\ clock'.boot <= device.boot
      /\ session' \in {0, session} /\ identity' \in {0, identity}
      /\ estimate' \in BOOLEAN
      /\ history' \in Seq([boot : Boots, probe : Nat \ {0}]) /\ Len(history') <= MaxHistory
  <2>1. CASE BootChanged(clock, exchange.boot)
    <3>1. clock' = NewClock /\ NewClock \in Clocks /\ NewClock.boot = 0
          /\ NewClock.pending = NoProbe
      BY <1>1, <1>4, <2>1, ResetTyped
    <3>2. /\ history' = <<>> /\ session' = 0 /\ identity' = 0
          /\ estimate' = FALSE /\ step' = "Idle"
      BY <1>1, <2>1 DEF Forgotten, ScheduleFailure
    <3>3. history' \in Seq([boot : Boots, probe : Nat \ {0}]) /\ Len(history') <= MaxHistory
      BY <3>2, ClockAssumption
    <3>4. device.boot \in Nat /\ 0 <= device.boot
      BY DEF TypeOK, Boots
    <3>5. OffsetInside'
      BY <3>1 DEF OffsetInside
    <3>6. step' = "Idle" /\ session' \in {0, session} /\ identity' \in {0, identity}
          /\ estimate' \in BOOLEAN
      BY <3>2
    <3> QED BY <3>1, <3>3, <3>4, <3>5, <3>6
  <2>2. CASE ~BootChanged(clock, exchange.boot) /\ Observes(clock, exchange, Latest(reading))
    <3> DEFINE c == AbandonPending(clock)
               n == Narrowed(c, low, high)
    <3>1. /\ c \in Clocks /\ c.pending = NoProbe
          /\ c.boot = clock.boot /\ c.low = clock.low /\ c.high = clock.high
      BY <1>4, ResetTyped
    <3>2. clock.boot = 0 \/ clock.boot = exchange.boot
      BY <2>2 DEF BootChanged
    <3>3. c.boot # 0 => c.low <= origin[exchange.boot] /\ origin[exchange.boot] <= c.high
      BY <3>1, <3>2 DEF OffsetInside
    <3> HIDE DEF c
    <3>4. /\ n \in Clocks /\ n.low <= origin[exchange.boot] /\ origin[exchange.boot] <= n.high
          /\ n.pending = NoProbe
      BY <1>3, <1>4, <3>1, <3>3, NarrowedHolds
    <3>5. clock' = [n EXCEPT !.boot = exchange.boot]
      BY <1>1, <2>2 DEF Observed, low, high, c
    <3> HIDE DEF n
    <3>6. /\ clock' \in Clocks /\ clock'.boot = exchange.boot /\ clock'.pending = NoProbe
          /\ clock'.low = n.low /\ clock'.high = n.high
      BY <1>4, <3>4, <3>5 DEF Clocks
    <3>7. OffsetInside'
      BY <1>2, <3>4, <3>6 DEF OffsetInside
    <3>8. [boot |-> exchange.boot, probe |-> clock.pending.probe]
             \in [boot : Boots, probe : Nat \ {0}]
      BY <1>2, <1>4 DEF ExchangeTrue, TypeOK, Clocks, Pending
    <3>9. /\ history' \in Seq([boot : Boots, probe : Nat \ {0}]) /\ Len(history') <= MaxHistory
      BY <1>1, <2>2, <3>8, RecordedTyped DEF TypeOK
    <3> QED BY <1>1, <1>4, <2>2, <3>6, <3>7, <3>9
  <2>3. CASE ~BootChanged(clock, exchange.boot) /\ ~Observes(clock, exchange, Latest(reading))
    <3>1. /\ clock' = AbandonPending(clock) /\ step' = "Idle" /\ estimate' = FALSE
          /\ UNCHANGED <<session, identity, history>>
      BY <1>1, <2>3
    <3>2. /\ clock' \in Clocks /\ clock'.pending = NoProbe
          /\ clock'.boot = clock.boot /\ clock'.low = clock.low /\ clock'.high = clock.high
      BY <1>4, <3>1, ResetTyped
    <3>3. OffsetInside'
      BY <1>2, <3>2 DEF OffsetInside
    <3> QED BY <3>1, <3>2, <3>3 DEF TypeOK, BootsKnown
  <2> QED BY <2>1, <2>2, <2>3
<1>6. TypeOK'
  BY <1>2, <1>4, <1>5 DEF TypeOK
<1>7. (PendingHasTask /\ BootsKnown /\ ExchangeTrue)'
  BY <1>2, <1>4, <1>5 DEF PendingHasTask, BootsKnown, ExchangeTrue, TypeOK, Boots
<1> QED BY <1>5, <1>6, <1>7

\* The device reads its counter between the two readings of the worker.
LEMMA DeviceStep == ASSUME IInv, DeviceReceives \/ DeviceTransmits PROVE IInv'
<1> USE DEF IInv
<1> DEFINE cycles == (now - origin[device.boot]) \div 2
           o == origin[device.boot]
<1>1. /\ now \in Nat /\ o \in Nat /\ cycles \in Int
      /\ 2 * cycles <= now - o /\ now - o <= 2 * cycles + 1
  <2>1. now \in Nat /\ o \in Nat
    BY DEF TypeOK
  <2> QED BY <2>1, Halving
<1>2. Cycle(device.boot, now) = cycles
  BY DEF Cycle
<1> HIDE DEF cycles, o
<1>3. step = "Probing"
  BY DEF DeviceReceives, DeviceTransmits, ExchangeTrue
<1>4. /\ UNCHANGED <<worker, device, origin, now>>
      /\ exchange'.boot = exchange.boot /\ exchange.boot = device.boot
      /\ exchange' \in Exchanges
  BY <1>1, <1>2 DEF DeviceReceives, DeviceTransmits, TypeOK, Exchanges
<1>5. TypeOK' /\ PendingHasTask' /\ OffsetInside' /\ BootsKnown'
  BY <1>4 DEF worker, TypeOK, PendingHasTask, OffsetInside, BootsKnown
<1>6. CASE DeviceReceives
  <2>1. exchange'.stage = "Received" /\ exchange'.received = cycles
    BY <1>2, <1>6 DEF DeviceReceives, TypeOK, Exchanges
  <2>2. clock.pending.send \in Nat /\ 2 * clock.pending.send <= now
    BY <1>3 DEF TypeOK, Clocks, Pending, ExchangeTrue
  <2>3. 2 * clock.pending.send <= 2 * exchange'.received + 1 + o
    BY <1>1, <2>1, <2>2
  <2> QED BY <1>3, <1>4, <1>5, <2>1, <2>3 DEF worker, ExchangeTrue, o
<1>7. CASE DeviceTransmits
  <2>1. /\ exchange'.stage = "Transmitted" /\ exchange'.transmitted = cycles
        /\ exchange'.received = exchange.received /\ exchange.stage = "Received"
    BY <1>2, <1>7 DEF DeviceTransmits, TypeOK, Exchanges
  <2>2. 2 * exchange'.transmitted + o <= now
    BY <1>1, <2>1
  <2> QED BY <1>3, <1>4, <1>5, <2>1, <2>2 DEF worker, ExchangeTrue, o
<1> QED BY <1>6, <1>7

\* A restart gives a new boot its start and leaves the starts of the known ones.
LEMMA TimeStep == ASSUME IInv, Restart \/ Elapse PROVE IInv'
<1> USE DEF IInv
<1>1. CASE Restart
  <2>1. /\ device'.boot = device.boot + 1 /\ device' \in [boot : Boots, identity : Identities]
        /\ origin' = [origin EXCEPT ![device.boot + 1] = now]
        /\ UNCHANGED <<worker, exchange, now>>
    BY <1>1, ClockAssumption DEF Restart, TypeOK, Boots
  <2>2. device.boot \in Nat /\ now \in Nat /\ clock.boot \in 0..MaxBoots
        /\ exchange.boot \in 0..MaxBoots /\ session \in 0..MaxBoots
    BY DEF TypeOK, Boots, Clocks, Exchanges
  <2>3. /\ origin' \in [Boots -> Nat] /\ \A b \in Boots : origin'[b] <= now
        /\ \A b \in Boots : b <= device.boot => origin'[b] = origin[b]
    BY <2>1, <2>2 DEF TypeOK, BootsKnown, Boots
  <2>4. TypeOK'
    BY <2>1, <2>3 DEF worker, TypeOK
  <2>5. PendingHasTask'
    BY <2>1 DEF worker, PendingHasTask
  <2>6. BootsKnown'
    BY <2>1, <2>2, <2>3, ClockAssumption DEF worker, BootsKnown
  <2>7. OffsetInside'
    BY <2>1, <2>2, <2>3, ClockAssumption DEF worker, OffsetInside, BootsKnown, Boots
  <2>8. ExchangeTrue'
    <3>1. exchange.stage \in {"Received", "Transmitted"} =>
             origin'[exchange.boot] = origin[exchange.boot]
      BY <2>3 DEF ExchangeTrue, BootsKnown
    <3> QED BY <2>1, <3>1 DEF worker, ExchangeTrue
  <2> QED BY <2>4, <2>5, <2>6, <2>7, <2>8
<1>2. CASE Elapse
  <2>1. now' = now + 1 /\ now \in Nat /\ UNCHANGED <<worker, exchange, device, origin>>
    BY <1>2 DEF Elapse, TypeOK
  <2>2. TypeOK' /\ PendingHasTask' /\ OffsetInside'
    BY <2>1 DEF worker, TypeOK, PendingHasTask, OffsetInside
  <2>3. BootsKnown'
    BY <2>1 DEF worker, BootsKnown, TypeOK
  <2>4. ExchangeTrue'
    <3>1. clock.pending.send \in Nat /\ exchange.transmitted \in Int
      BY DEF TypeOK, Clocks, Pending, Exchanges
    <3>2. exchange.stage = "Transmitted" => origin[exchange.boot] \in Nat
      BY DEF ExchangeTrue, TypeOK
    <3> QED BY <2>1, <3>1, <3>2 DEF worker, ExchangeTrue
  <2> QED BY <2>2, <2>3, <2>4
<1> QED BY <1>1, <1>2

LEMMA StepPreserves == IInv /\ [Next]_vars => IInv'
<1> SUFFICES ASSUME IInv, [Next]_vars PROVE IInv'
  OBVIOUS
<1>1. CASE Connect \/ Connected \/ ConnectFails \/ ProbeUnread \/ ProbeFails
           \/ ProbeRefused \/ SessionDropped
  BY <1>1, ConnectionStep
<1>2. CASE Probe
  BY <1>2, ProbeStep
<1>3. CASE Answered
  BY <1>3, AnsweredStep
<1>4. CASE DeviceReceives \/ DeviceTransmits
  BY <1>4, DeviceStep
<1>5. CASE Restart \/ Elapse
  BY <1>5, TimeStep
<1>6. CASE UNCHANGED vars
  BY <1>6 DEF vars, worker, IInv, TypeOK, PendingHasTask, OffsetInside, BootsKnown,
     ExchangeTrue
<1> QED
  BY <1>1, <1>2, <1>3, <1>4, <1>5, <1>6 DEF Next

THEOREM Inductive == Spec => []IInv
  BY InitEstablishes, StepPreserves, PTL DEF Spec

-----------------------------------------------------------------------------
(* The results.                                                            *)

\* The types of connection and device, and the bound on the history, hold always.
THEOREM ClockTypeOK == Spec => []TypeOK
<1>1. IInv => TypeOK
  BY DEF IInv
<1> QED BY <1>1, Inductive, PTL

\* The true start of the boot the clock model names is inside its interval, for any
\* timer error, any delay of an exchange and any restarts.
THEOREM TrueOffsetInside == Spec => []OffsetInside
<1>1. IInv => OffsetInside
  BY DEF IInv
<1> QED BY <1>1, Inductive, PTL

\* A probe is pending only while its task runs, so a reset is never refused.
THEOREM NoProbeLeftBehind == Spec => []PendingHasTask
<1>1. IInv => PendingHasTask
  BY DEF IInv
<1> QED BY <1>1, Inductive, PTL

\* An honest answer of the boot the model names is consistent with all before it.
THEOREM HonestIsConsistent == Spec => []NeverInconsistent
<1>1. IInv => NeverInconsistent
  <2> SUFFICES ASSUME IInv, step = "Probing", exchange.stage = "Transmitted",
                      clock.boot = exchange.boot, NEW reading \in PossibleReadings
               PROVE  Consistent(clock, FromLow(clock.pending.send, exchange.received),
                                 FromHigh(Latest(reading), exchange.transmitted))
    BY DEF NeverInconsistent
  <2> DEFINE low == FromLow(clock.pending.send, exchange.received)
             high == FromHigh(Latest(reading), exchange.transmitted)
             n == Narrowed(clock, low, high)
  <2>1. /\ low \in Int /\ high \in Int
        /\ low <= origin[exchange.boot] /\ origin[exchange.boot] <= high
    BY ExchangeAllows
  <2>2. /\ clock \in Clocks /\ origin[exchange.boot] \in Int
        /\ clock.boot # 0 => /\ clock.low <= origin[exchange.boot]
                             /\ origin[exchange.boot] <= clock.high
    BY DEF IInv, TypeOK, ExchangeTrue, OffsetInside
  <2> HIDE DEF low, high
  <2>3. /\ n \in Clocks /\ n.low <= origin[exchange.boot] /\ origin[exchange.boot] <= n.high
    BY <2>1, <2>2, NarrowedHolds
  <2> HIDE DEF n
  <2>4. n.low <= n.high
    BY <2>2, <2>3 DEF Clocks
  <2> QED BY <2>4 DEF Consistent, n, low, high
<1> QED BY <1>1, Inductive, PTL

-----------------------------------------------------------------------------
(* The records.                                                            *)

\* The probe that is on its way is later than every record, and was spent.
ProbeIsLatest ==
    step = "Probing" =>
        /\ clock.pending.probe < clock.next
        /\ \A i \in 1..Len(history) : history[i].probe < clock.pending.probe

HistoryInv == HistoryOfOneBoot /\ ProbeIsLatest

\* A record is added at the end, and at most the oldest is dropped.
LEMMA RecordedElements ==
    ASSUME NEW R, NEW record \in R, history \in Seq(R)
    PROVE  \/ /\ Len(Recorded(record)) = Len(history) + 1
              /\ Recorded(record)[Len(history) + 1] = record
              /\ \A i \in 1..Len(history) : Recorded(record)[i] = history[i]
           \/ /\ Len(history) > 0
              /\ Len(Recorded(record)) = Len(history)
              /\ Recorded(record)[Len(history)] = record
              /\ \A i \in 1..(Len(history) - 1) : Recorded(record)[i] = history[i + 1]
<1>0. Len(history) \in Nat /\ MaxHistory \in Nat \ {0}
  BY ClockAssumption
<1>1. CASE Len(history) # MaxHistory
  BY <1>0, <1>1 DEF Recorded
<1>2. CASE Len(history) = MaxHistory
  <2> DEFINE t == Tail(history)
  <2>1. /\ t \in Seq(R) /\ Len(t) = Len(history) - 1
        /\ \A i \in 1..Len(t) : t[i] = history[i + 1]
    BY <1>0, <1>2
  <2>2. Recorded(record) = Append(t, record)
    BY <1>2 DEF Recorded
  <2> HIDE DEF t
  <2> QED BY <1>0, <1>2, <2>1, <2>2
<1> QED BY <1>1, <1>2

LEMMA RecordTyped ==
    ASSUME TypeOK, NEW i \in 1..Len(history)
    PROVE  history[i].boot \in Boots /\ history[i].probe \in Nat
<1>1. history \in Seq([boot : Boots, probe : Nat \ {0}])
  BY DEF TypeOK
<1>2. history[i] \in [boot : Boots, probe : Nat \ {0}]
  BY <1>1, ElementOfSeq
<1> QED BY <1>2

\* What is left of the records when none is added.
LEMMA HistoryKept ==
    ASSUME HistoryOfOneBoot, history' = history, clock'.boot = clock.boot,
           clock' \in Clocks, clock \in Clocks, TypeOK, clock'.next >= clock.next
    PROVE  HistoryOfOneBoot'
<1>1. \A i \in 1..Len(history) : history[i].probe \in Nat
  BY RecordTyped
<1>2. clock.next \in Nat /\ clock'.next \in Nat
  BY DEF Clocks
<1> QED BY <1>1, <1>2 DEF HistoryOfOneBoot

LEMMA HistoryEmptied ==
    ASSUME history' = <<>>, step' # "Probing"
    PROVE  HistoryInv'
BY DEF HistoryInv, HistoryOfOneBoot, ProbeIsLatest

LEMMA HistoryAnswered ==
    ASSUME IInv, HistoryInv, Answered
    PROVE  HistoryInv'
<1> USE DEF IInv
<1>1. PICK reading \in PossibleReadings :
        LET receive == Latest(reading) IN
        IF BootChanged(clock, exchange.boot)
        THEN /\ clock' = Reset(AbandonPending(clock))
             /\ history' = Forgotten(history)
             /\ session' = 0 /\ identity' = 0
             /\ ScheduleFailure
        ELSE /\ UNCHANGED <<session, identity>>
             /\ step' = "Idle"
             /\ IF Observes(clock, exchange, receive)
                THEN /\ clock' = Observed(clock, exchange, receive)
                     /\ history' = Recorded([boot |-> exchange.boot,
                                             probe |-> clock.pending.probe])
                     /\ estimate' \in BOOLEAN
                ELSE /\ clock' = AbandonPending(clock)
                     /\ estimate' = FALSE
                     /\ UNCHANGED history
  BY DEF Answered
<1>2. /\ step = "Probing" /\ clock \in Clocks /\ clock.next \in Nat
      /\ clock.pending.probe \in Nat \ {0} /\ exchange.boot \in Boots /\ 0 \notin Boots
  BY DEF Answered, TypeOK, ExchangeTrue, Clocks, Pending, Boots
<1>3. step' = "Idle"
  BY <1>1 DEF ScheduleFailure
<1>4. CASE BootChanged(clock, exchange.boot)
  BY <1>1, <1>3, <1>4, HistoryEmptied DEF Forgotten
<1>5. CASE ~BootChanged(clock, exchange.boot) /\ ~Observes(clock, exchange, Latest(reading))
  <2>1. clock' = AbandonPending(clock) /\ history' = history
    BY <1>1, <1>5
  <2>2. clock'.boot = clock.boot /\ clock'.next = clock.next /\ clock' \in Clocks
    <3>1. NoProbe \in Pending
      BY DEF NoProbe, Pending
    <3> QED BY <1>2, <2>1, <3>1 DEF AbandonPending, Clocks
  <2> QED BY <1>2, <1>3, <2>1, <2>2, HistoryKept DEF HistoryInv, ProbeIsLatest
<1>6. CASE ~BootChanged(clock, exchange.boot) /\ Observes(clock, exchange, Latest(reading))
  <2> DEFINE record == [boot |-> exchange.boot, probe |-> clock.pending.probe]
             R == [boot : Boots, probe : Nat \ {0}]
  <2>1. clock' = Observed(clock, exchange, Latest(reading)) /\ history' = Recorded(record)
    BY <1>1, <1>6
  <2>2. clock'.boot = exchange.boot /\ clock'.next = clock.next
    BY <1>2, <2>1 DEF Observed, Narrowed, AbandonPending, Clocks
  <2>3. /\ record \in R /\ history \in Seq(R) /\ Len(history) \in Nat
        /\ record.boot = exchange.boot /\ record.probe = clock.pending.probe
    BY <1>2 DEF TypeOK
  <2>4. \A i \in 1..Len(history) : /\ history[i].boot = exchange.boot
                                    /\ history[i].probe \in Nat
                                    /\ history[i].probe < clock.pending.probe
    <3>1. \A i \in 1..Len(history) : history[i].boot \in Boots /\ history[i].probe \in Nat
      BY RecordTyped
    <3>2. clock.boot = exchange.boot \/ clock.boot = 0
      BY <1>6 DEF BootChanged
    <3>3. \A i \in 1..Len(history) : history[i].boot = clock.boot /\ history[i].boot \in Boots
      BY <3>1 DEF HistoryInv, HistoryOfOneBoot
    <3>4. \A i \in 1..Len(history) : history[i].boot = exchange.boot
      BY <1>2, <3>2, <3>3
    <3> QED BY <1>2, <3>1, <3>4 DEF HistoryInv, ProbeIsLatest
  <2>5. clock.pending.probe < clock.next
    BY <1>2 DEF HistoryInv, ProbeIsLatest
  <2>6. \A i, j \in 1..Len(history) : i < j => history[i].probe < history[j].probe
    BY DEF HistoryInv, HistoryOfOneBoot
  <2> HIDE DEF record, R
  <2>7. \/ /\ Len(history') = Len(history) + 1 /\ history'[Len(history) + 1] = record
           /\ \A i \in 1..Len(history) : history'[i] = history[i]
        \/ /\ Len(history) > 0 /\ Len(history') = Len(history)
           /\ history'[Len(history)] = record
           /\ \A i \in 1..(Len(history) - 1) : history'[i] = history[i + 1]
    BY <2>1, <2>3, RecordedElements
  <2>8. /\ \A i \in 1..Len(history') : history'[i].boot = clock'.boot
                                       /\ history'[i].probe < clock'.next
        /\ \A i, j \in 1..Len(history') : i < j => history'[i].probe < history'[j].probe
    <3>1. CASE /\ Len(history') = Len(history) + 1 /\ history'[Len(history) + 1] = record
               /\ \A i \in 1..Len(history) : history'[i] = history[i]
      <4>1. \A i \in 1..Len(history') : i \in 1..Len(history) \/ i = Len(history) + 1
        BY <2>3, <3>1
      <4>2. \A i, j \in 1..Len(history') : i < j => i \in 1..Len(history)
        BY <2>3, <3>1
      <4>3. ASSUME NEW i \in 1..Len(history')
            PROVE  history'[i].boot = clock'.boot /\ history'[i].probe < clock'.next
        <5>1. CASE i = Len(history) + 1
          BY <2>2, <2>3, <2>5, <3>1, <5>1
        <5>2. CASE i \in 1..Len(history)
          BY <1>2, <2>2, <2>4, <2>5, <3>1, <5>2
        <5> QED BY <4>1, <5>1, <5>2
      <4>4. ASSUME NEW i \in 1..Len(history'), NEW j \in 1..Len(history'), i < j
            PROVE  history'[i].probe < history'[j].probe
        <5>1. CASE j = Len(history) + 1
          BY <2>3, <2>4, <3>1, <4>2, <4>4, <5>1
        <5>2. CASE j \in 1..Len(history)
          BY <2>6, <3>1, <4>2, <4>4, <5>2
        <5> QED BY <4>1, <5>1, <5>2
      <4> QED BY <4>3, <4>4
    <3>2. CASE /\ Len(history) > 0 /\ Len(history') = Len(history)
               /\ history'[Len(history)] = record
               /\ \A i \in 1..(Len(history) - 1) : history'[i] = history[i + 1]
      <4>1. \A i \in 1..Len(history') :
               i = Len(history) \/ (i \in 1..(Len(history) - 1) /\ i + 1 \in 1..Len(history))
        BY <2>3, <3>2
      <4>2. \A i, j \in 1..Len(history') : i < j =>
               /\ i \in 1..(Len(history) - 1) /\ i + 1 \in 1..Len(history)
               /\ j \in 1..(Len(history) - 1) => i + 1 < j + 1
        BY <2>3, <3>2
      <4>3. ASSUME NEW i \in 1..Len(history')
            PROVE  history'[i].boot = clock'.boot /\ history'[i].probe < clock'.next
        <5>1. CASE i = Len(history)
          BY <2>2, <2>3, <2>5, <3>2, <5>1
        <5>2. CASE i \in 1..(Len(history) - 1) /\ i + 1 \in 1..Len(history)
          BY <1>2, <2>2, <2>4, <2>5, <3>2, <5>2
        <5> QED BY <4>1, <5>1, <5>2
      <4>4. ASSUME NEW i \in 1..Len(history'), NEW j \in 1..Len(history'), i < j
            PROVE  history'[i].probe < history'[j].probe
        <5>0. i \in 1..(Len(history) - 1) /\ i + 1 \in 1..Len(history)
          BY <4>2, <4>4
        <5>1. CASE j = Len(history)
          BY <2>3, <2>4, <3>2, <5>0, <5>1
        <5>2. CASE j \in 1..(Len(history) - 1) /\ j + 1 \in 1..Len(history)
          BY <2>6, <3>2, <4>2, <4>4, <5>0, <5>2
        <5> QED BY <4>1, <5>1, <5>2
      <4> QED BY <4>3, <4>4
    <3> QED BY <2>7, <3>1, <3>2
  <2> QED BY <1>3, <2>8 DEF HistoryInv, HistoryOfOneBoot, ProbeIsLatest
<1> QED BY <1>4, <1>5, <1>6

LEMMA HistoryStep == IInv /\ IInv' /\ HistoryInv /\ [Next]_vars => HistoryInv'
<1> SUFFICES ASSUME IInv, IInv', HistoryInv, [Next]_vars PROVE HistoryInv'
  OBVIOUS
<1>0. /\ clock \in Clocks /\ clock' \in Clocks /\ TypeOK /\ clock.next \in Nat
      /\ HistoryOfOneBoot
  BY DEF IInv, TypeOK, Clocks, HistoryInv
<1>1. CASE Connected
  <2>1. clock.pending = NoProbe /\ step' # "Probing"
    BY <1>1 DEF Connected, IInv, PendingHasTask
  <2>2. CASE history' = <<>>
    BY <2>1, <2>2, HistoryEmptied
  <2>3. CASE history' = history /\ clock' = clock
    BY <1>0, <2>1, <2>3, HistoryKept DEF HistoryInv, ProbeIsLatest
  <2> QED BY <1>1, <2>2, <2>3 DEF Connected
<1>2. CASE ProbeFails \/ ProbeRefused
  <2>1. /\ clock' = AbandonPending(clock) /\ history' = history /\ step' # "Probing"
    BY <1>2 DEF ProbeFails, ProbeRefused, AfterFailure, ScheduleFailure
  <2>2. clock'.boot = clock.boot /\ clock'.next = clock.next
    BY <1>0, <2>1 DEF AbandonPending, Clocks
  <2> QED BY <1>0, <2>1, <2>2, HistoryKept DEF HistoryInv, ProbeIsLatest
<1>3. CASE Probe
  <2>1. PICK reading \in PossibleReadings : clock' = BeginProbe(clock, Earliest(reading))
    BY <1>3 DEF Probe
  <2>2. clock'.boot = clock.boot /\ clock'.next = clock.next + 1
        /\ clock'.pending.probe = clock.next
    BY <1>0, <2>1 DEF BeginProbe, Clocks
  <2>3. history' = history
    BY <1>3 DEF Probe
  <2>4. HistoryOfOneBoot'
    BY <1>0, <2>2, <2>3, HistoryKept
  <2> QED BY <1>0, <2>2, <2>3, <2>4 DEF HistoryInv, HistoryOfOneBoot, ProbeIsLatest
<1>4. CASE Answered
  BY <1>4, HistoryAnswered
<1>5. CASE Connect \/ ConnectFails \/ ProbeUnread \/ SessionDropped
  <2>1. UNCHANGED <<clock, history>> /\ step' # "Probing"
    BY <1>5 DEF Connect, ConnectFails, ProbeUnread, SessionDropped, ScheduleFailure
  <2> QED BY <1>0, <2>1, HistoryKept DEF HistoryInv, ProbeIsLatest
<1>6. CASE DeviceReceives \/ DeviceTransmits \/ Restart \/ Elapse \/ UNCHANGED vars
  BY <1>6 DEF DeviceReceives, DeviceTransmits, Restart, Elapse, vars, worker, HistoryInv,
              HistoryOfOneBoot, ProbeIsLatest
<1> QED BY <1>1, <1>2, <1>3, <1>4, <1>5, <1>6 DEF Next

\* The records shown together are of one boot, the model's, each with a probe of its
\* own in the order it was spent, for any bound on the records and any restarts.
THEOREM RecordsOfOneBoot == Spec => []HistoryOfOneBoot
<1>1. Init => HistoryInv
  BY DEF Init, HistoryInv, HistoryOfOneBoot, ProbeIsLatest
<1>2. IInv /\ IInv' /\ HistoryInv /\ [Next]_vars => HistoryInv'
  BY HistoryStep
<1>3. HistoryInv => HistoryOfOneBoot
  BY DEF HistoryInv
<1> QED BY <1>1, <1>2, <1>3, Inductive, PTL DEF Spec

-----------------------------------------------------------------------------
(* The health that is polled after the heartbeats.                         *)

\* The device's measurements, and the boots that are named.
PolledType ==
    /\ boot \in 1 .. MaxPolledBoots /\ link.session <= boot
    /\ polled \in [cycle : 0 .. MaxCycle, service : Nat, core : 0 .. MaxCycle,
                   realtime : -1 .. MaxCycle, firmware : Firmwares]
    /\ polled.core <= polled.cycle /\ polled.realtime <= polled.core
    /\ link \in [session : Nat, clock : 0 .. MaxPolledBoots, identity : Firmwares \cup {0}]
    /\ health \in [availability : {"Unobserved", "Unsupported", "Available"},
                   latest : [boot : Nat, cycle : Nat, service : Nat, realtime : Int],
                   realtime : -1 .. MaxCycle]

\* Nothing kept of the present boot is ahead of the device, and without a report nothing
\* is kept at all.
NeverAhead ==
    /\ health.latest.boot <= boot
    /\ health.latest = Health!NoReport => health.realtime = Health!Absent
    /\ health.latest # Health!NoReport => health.latest.boot # 0
    /\ health.latest.boot = boot =>
          /\ health.latest.cycle <= polled.cycle
          /\ health.latest.service <= polled.service
          /\ health.realtime <= polled.realtime

HealthInv ==
    PolledType /\ Health!TypeOK /\ NeverAhead /\ Health!EvidenceIsOfSession /\ refused = FALSE

LEMMA HealthInvInit == Health!Init => HealthInv
<1> SUFFICES ASSUME Health!Init PROVE HealthInv
  OBVIOUS
<1> USE PollBounds DEF Health!Init, Health!NoHealth, Health!NoReport, Health!Absent
<1>1. PICK f \in Firmwares : polled = Health!FreshDevice(f)
  OBVIOUS
<1>2. PolledType
  BY <1>1 DEF PolledType, Health!FreshDevice
<1>3. Health!TypeOK
  BY DEF Health!TypeOK
<1>4. NeverAhead /\ Health!EvidenceIsOfSession
  BY DEF NeverAhead, Health!EvidenceIsOfSession
<1> QED BY <1>2, <1>3, <1>4 DEF HealthInv

\* A report of the session's boot that follows on is kept, and is not ahead.
LEMMA AcceptedNotAhead ==
    ASSUME HealthInv, poll = "Health", poll' = "None", link.session = boot,
           UNCHANGED <<link, polled, boot, refused>>, NEW r \in -1 .. MaxCycle,
           r <= polled.realtime, NEW report,
           report = [boot |-> boot, cycle |-> polled.cycle, service |-> polled.service,
                     realtime |-> r],
           Health!AcceptReport(report)
    PROVE  HealthInv'
<1> USE PollBounds DEF HealthInv, PolledType
<1>1. CASE ~Health!Follows(health, report)
  <2>1. health' = health
    BY <1>1 DEF Health!AcceptReport
  <2> QED BY <2>1 DEF NeverAhead, Health!TypeOK, Health!EvidenceIsOfSession
<1>2. CASE Health!Follows(health, report)
  <2>1. PICK kept \in -1 .. MaxCycle : /\ kept \in {r, health.realtime}
                                      /\ health' = [availability |-> "Available",
                                                    latest |-> report, realtime |-> kept]
    BY <1>2 DEF Health!AcceptReport, Health!Accepted
  <2>2. health.realtime <= polled.realtime
    <3>1. CASE health.latest = Health!NoReport
      BY <3>1 DEF NeverAhead, Health!Absent
    <3>2. CASE health.latest # Health!NoReport
      BY <3>2 DEF NeverAhead, Health!EvidenceIsOfSession
    <3> QED BY <3>1, <3>2
  <2>3. health'.latest # Health!NoReport /\ health'.latest = report
        /\ health'.realtime = kept /\ health'.availability = "Available"
        /\ report.boot = boot /\ report.cycle = polled.cycle /\ report.service = polled.service
    BY <2>1 DEF Health!NoReport
  <2>4. PolledType'
    BY <2>1
  <2>5. Health!TypeOK'
    BY <2>3 DEF Health!TypeOK, Health!Absent
  <2>6. NeverAhead'
    BY <2>1, <2>2, <2>3 DEF NeverAhead
  <2>7. Health!EvidenceIsOfSession'
    BY <2>3 DEF Health!EvidenceIsOfSession
  <2> QED BY <2>4, <2>5, <2>6, <2>7
<1> QED BY <1>1, <1>2

\* Of an earlier boot nothing follows; of this one every true report does.
LEMMA HonestFollows ==
    ASSUME HealthInv, poll = "Health", link.session = boot, NEW report \in Health!Reports
    PROVE  Health!Follows(health, report)
<1> USE PollBounds DEF HealthInv, PolledType
<1>1. PICK r \in {polled.realtime, -1} :
        report = [boot |-> boot, cycle |-> polled.cycle, service |-> polled.service,
                  realtime |-> r]
  BY DEF Health!Reports, Health!Absent
<1>2. CASE health.latest = Health!NoReport
  BY <1>1, <1>2 DEF Health!Follows, Health!Present, Health!Absent, NeverAhead
<1>3. CASE health.latest # Health!NoReport
  <2>1. health.latest.boot = boot
    BY <1>3 DEF Health!EvidenceIsOfSession
  <2> QED BY <1>1, <2>1 DEF Health!Follows, Health!Present, Health!Absent, NeverAhead
<1> QED BY <1>2, <1>3

\* The device only gets ahead, and a boot that is new has no evidence.
LEMMA HealthDevice ==
    ASSUME HealthInv, Health!Work \/ Health!Restart
    PROVE  HealthInv'
<1> USE PollBounds DEF HealthInv, PolledType
<1>1. UNCHANGED <<health, link, poll, refused>>
  BY DEF Health!Work, Health!Restart
<1>2. Health!TypeOK' /\ Health!EvidenceIsOfSession'
  <2>1. boot' \in 1 .. MaxPolledBoots
    BY DEF Health!Work, Health!Restart
  <2> QED BY <1>1 DEF Health!TypeOK, Health!EvidenceIsOfSession
<1>3. CASE Health!Work
  <2>1. boot' = boot /\ polled.cycle < MaxCycle
    BY <1>3 DEF Health!Work
  <2>2. /\ polled' \in [cycle : 0 .. MaxCycle, service : Nat, core : 0 .. MaxCycle,
                       realtime : -1 .. MaxCycle, firmware : Firmwares]
        /\ polled'.core <= polled'.cycle /\ polled'.realtime <= polled'.core
        /\ polled'.cycle >= polled.cycle /\ polled'.service >= polled.service
        /\ polled'.realtime >= polled.realtime
    <3>0. /\ polled.cycle + 1 \in 0 .. MaxCycle /\ polled.service \in Nat
          /\ polled.core \in 0 .. MaxCycle /\ polled.core + 1 \in 0 .. MaxCycle
          /\ polled.realtime \in -1 .. MaxCycle /\ polled.firmware \in Firmwares
          /\ polled.cycle \in Nat /\ polled.core <= polled.cycle
          /\ polled.realtime <= polled.core
      BY <2>1
    <3>1. CASE polled' = [polled EXCEPT !.cycle = @ + 1, !.service = @ + 1]
      <4>1. polled' = [cycle |-> polled.cycle + 1, service |-> polled.service + 1, core |-> polled.core,
                       realtime |-> polled.realtime, firmware |-> polled.firmware]
        BY <3>1
      <4> QED BY <3>0, <4>1
    <3>2. CASE polled' = [polled EXCEPT !.cycle = @ + 1, !.core = @ + 1]
      <4>1. polled' = [cycle |-> polled.cycle + 1, service |-> polled.service, core |-> polled.core + 1,
                       realtime |-> polled.realtime, firmware |-> polled.firmware]
        BY <3>2
      <4> QED BY <3>0, <4>1
    <3>3. CASE polled' = [polled EXCEPT !.cycle = @ + 1, !.realtime = polled.core]
      <4>1. polled' = [cycle |-> polled.cycle + 1, service |-> polled.service, core |-> polled.core,
                       realtime |-> polled.core, firmware |-> polled.firmware]
        BY <3>3
      <4> QED BY <3>0, <4>1
    <3> QED BY <1>3, <3>1, <3>2, <3>3 DEF Health!Work
  <2>3. NeverAhead'
    BY <1>1, <2>1, <2>2 DEF NeverAhead
  <2> QED BY <1>1, <1>2, <2>1, <2>2, <2>3
<1>4. CASE Health!Restart
  <2>1. boot' = boot + 1 /\ boot < MaxPolledBoots
    BY <1>4 DEF Health!Restart
  <2>2. PICK f \in Firmwares : polled' = Health!FreshDevice(f)
    BY <1>4 DEF Health!Restart
  <2>3. NeverAhead'
    BY <1>1, <2>1 DEF NeverAhead
  <2>4. /\ polled' \in [cycle : 0 .. MaxCycle, service : Nat, core : 0 .. MaxCycle,
                       realtime : -1 .. MaxCycle, firmware : Firmwares]
        /\ polled'.core <= polled'.cycle /\ polled'.realtime <= polled'.core
    BY <2>2 DEF Health!FreshDevice, Health!Absent
  <2> QED BY <1>1, <1>2, <2>1, <2>3, <2>4
<1> QED BY <1>3, <1>4

\* The exchanges that carry no health keep the evidence only with its session.
LEMMA HealthSession ==
    ASSUME HealthInv,
           Health!Begin \/ Health!Opened \/ Health!Identified \/ Health!Heartbeat \/ Health!Lost
    PROVE  HealthInv'
<1> USE PollBounds DEF HealthInv, PolledType
<1>1. /\ UNCHANGED <<polled, boot, refused>> /\ health' \in {health, Health!NoHealth}
      /\ poll' \in {"None", "Open", "Identity", "Heartbeat", "Health"}
  BY DEF Health!Begin, Health!Opened, Health!Identified, Health!Heartbeat, Health!Lost,
         Health!EvidenceReset
<1>2. link' \in [session : Nat, clock : 0 .. MaxPolledBoots, identity : Firmwares \cup {0}]
      /\ link'.session <= boot
  <2>1. CASE Health!Begin
    BY <2>1 DEF Health!Begin
  <2>2. CASE Health!Opened
    BY <2>2 DEF Health!Opened
  <2>3. CASE Health!Identified
    <3>1. PICK c \in {0, link.clock} :
            link' = [link EXCEPT !.identity = polled.firmware, !.clock = c]
      BY <2>3 DEF Health!Identified
    <3>2. link' = [session |-> link.session, clock |-> c, identity |-> polled.firmware]
      BY <3>1
    <3>3. c \in 0 .. MaxPolledBoots /\ polled.firmware \in Firmwares
      OBVIOUS
    <3> QED BY <3>2, <3>3
  <2>4. CASE Health!Heartbeat
    BY <2>4 DEF Health!Heartbeat
  <2>5. CASE Health!Lost
    BY <2>5 DEF Health!Lost
  <2> QED BY <2>1, <2>2, <2>3, <2>4, <2>5
<1>3. /\ Health!NoHealth.latest = Health!NoReport /\ Health!NoReport.boot = 0
      /\ Health!NoHealth.availability = "Unobserved" /\ Health!NoHealth.realtime = -1
      /\ Health!NoHealth \in [availability : {"Unobserved", "Unsupported", "Available"},
                   latest : [boot : Nat, cycle : Nat, service : Nat, realtime : Int],
                   realtime : -1 .. MaxCycle]
  BY DEF Health!NoHealth, Health!NoReport, Health!Absent
<1>4. PolledType' /\ NeverAhead'
  BY <1>1, <1>2, <1>3 DEF NeverAhead, Health!Absent
<1>5. Health!TypeOK'
  BY <1>1, <1>2, <1>3 DEF Health!TypeOK, Health!Absent
<1>6. Health!EvidenceIsOfSession'
  <2>1. CASE Health!Begin
    BY <2>1 DEF Health!Begin, Health!EvidenceIsOfSession
  <2>2. CASE Health!Opened
    BY <2>2 DEF Health!Opened, Health!EvidenceIsOfSession
  <2>3. CASE Health!Identified
    BY <1>3, <2>3 DEF Health!Identified, Health!EvidenceReset, Health!EvidenceIsOfSession
  <2>4. CASE Health!Heartbeat
    BY <2>4 DEF Health!Heartbeat, Health!EvidenceIsOfSession
  <2>5. CASE Health!Lost
    BY <2>5 DEF Health!Lost, Health!EvidenceIsOfSession
  <2> QED BY <2>1, <2>2, <2>3, <2>4, <2>5
<1> QED BY <1>1, <1>4, <1>5, <1>6

LEMMA HealthPolled ==
    ASSUME HealthInv, Health!Polled \/ Health!PolledWrong
    PROVE  HealthInv'
<1> USE PollBounds
<1>1. poll = "Health" /\ poll' = "None" /\ UNCHANGED <<polled, boot>>
  BY DEF Health!Polled, Health!PolledWrong
<1>2. CASE link' = [link EXCEPT !.session = 0] /\ UNCHANGED <<health, refused>>
  BY <1>1, <1>2 DEF HealthInv, PolledType, NeverAhead, Health!TypeOK, Health!EvidenceIsOfSession
<1>3. CASE health' = Health!Unsupported /\ UNCHANGED <<link, refused>>
  <2>1. health' = [availability |-> "Unsupported", latest |-> Health!NoReport, realtime |-> -1]
    BY <1>3 DEF Health!Unsupported, Health!NoHealth, Health!Absent
  <2>2. Health!NoReport \in [boot : Nat, cycle : Nat, service : Nat, realtime : Int]
        /\ Health!NoReport.boot = 0
    BY DEF Health!NoReport, Health!Absent
  <2> QED BY <1>1, <1>3, <2>1, <2>2 DEF HealthInv, PolledType, NeverAhead, Health!TypeOK,
             Health!EvidenceIsOfSession, Health!Absent
<1>4. CASE UNCHANGED <<health, link, refused>>
  BY <1>1, <1>4 DEF HealthInv, PolledType, NeverAhead, Health!TypeOK, Health!EvidenceIsOfSession
<1>5. ASSUME link.session = boot, NEW report \in Health!Reports, Health!AcceptReport(report),
             refused' = (refused \/ ~Health!Follows(health, report)), UNCHANGED link
      PROVE  HealthInv'
  <2>1. PICK r \in {polled.realtime, -1} :
          report = [boot |-> boot, cycle |-> polled.cycle, service |-> polled.service,
                    realtime |-> r]
    BY DEF Health!Reports, Health!Absent
  <2>2. r \in -1 .. MaxCycle /\ r <= polled.realtime
    BY DEF HealthInv, PolledType
  <2>3. refused' = refused
    BY <1>1, <1>5, HonestFollows DEF HealthInv
  <2> QED BY <1>1, <1>5, <2>1, <2>2, <2>3, AcceptedNotAhead
<1>6. ASSUME link.session = boot, NEW report \in Health!Reports, NEW old \in 0 .. MaxCycle,
             old < polled.realtime, Health!AcceptReport([report EXCEPT !.realtime = old]),
             UNCHANGED <<link, refused>>
      PROVE  HealthInv'
  <2>1. PICK wrong : wrong = [report EXCEPT !.realtime = old]
    OBVIOUS
  <2>2. wrong = [boot |-> boot, cycle |-> polled.cycle, service |-> polled.service,
                 realtime |-> old]
    BY <2>1 DEF Health!Reports, Health!Absent
  <2>3. old \in -1 .. MaxCycle /\ old <= polled.realtime
    BY <1>6 DEF HealthInv, PolledType
  <2> QED BY <1>1, <1>6, <2>1, <2>2, <2>3, AcceptedNotAhead
<1>7. CASE Health!Polled
  BY <1>1, <1>2, <1>3, <1>5, <1>7 DEF Health!Polled
<1>8. CASE Health!PolledWrong
  BY <1>1, <1>4, <1>6, <1>8 DEF Health!PolledWrong
<1> QED BY <1>7, <1>8

LEMMA HealthInvNext == HealthInv /\ Health!Next => HealthInv'
BY HealthDevice, HealthSession, HealthPolled DEF Health!Next

\* In a behaviour about the polls, what was accepted is the session's, and the device
\* was never taken for regressing, for every number of boots and losses.
THEOREM HealthIsEvidence == HeartbeatsSpec => []HealthEvidence
<1> DEFINE I == subject = "Health" => HealthInv
<1>1. HeartbeatsInit => I
  BY HealthInvInit DEF HeartbeatsInit
<1>2. I /\ [HeartbeatsNext]_heartbeats => I'
  <2> SUFFICES ASSUME I, [HeartbeatsNext]_heartbeats, subject' = "Health" PROVE HealthInv'
    OBVIOUS
  <2>1. CASE OfHealth(Health!Next)
    BY <2>1, HealthInvNext DEF OfHealth
  <2>2. CASE UNCHANGED heartbeats
    BY <2>2 DEF heartbeats, polling, HealthInv, PolledType, NeverAhead, Health!TypeOK,
                Health!EvidenceIsOfSession
  <2>3. CASE OfClock(Next)
    BY <2>3 DEF OfClock
  <2> QED BY <2>1, <2>2, <2>3 DEF HeartbeatsNext
<1>3. I => HealthEvidence
  BY DEF HealthInv, HealthEvidence, Health!HonestIsAccepted
<1> QED BY <1>1, <1>2, <1>3, PTL DEF HeartbeatsSpec
=============================================================================

-------------------------- MODULE HttpSession_proofs --------------------------
(***************************************************************************)
(* Proofs about the authenticated HTTP session, for all widths and bounds. *)
(*                                                                         *)
(* The argument: the counters a session signs grow, a later session starts *)
(* above everything the wall clock allowed an earlier one to spend, and a  *)
(* rebound session starts on a nonce nothing was signed for.  So nonce and *)
(* counter identify a request, and a response that verifies is its own.    *)
(***************************************************************************)
EXTENDS HttpSession, FiniteSetTheorems, TLAPS

-----------------------------------------------------------------------------
(* The inductive invariant, in named parts.                                *)

\* Identities are handed out in order and name one request each.
IdsInOrder ==
    /\ IsFiniteSet(signed)
    /\ \A q \in signed : q.id <= Cardinality(signed)
    /\ \A p, q \in signed : p.id = q.id => p = q

\* The pending request was signed by this session, was the last one signed
\* under its nonce, and has not been answered.
PendingIsLast ==
    \A q \in session.pending :
        /\ q \in signed
        /\ q.nonce = session.nonce
        /\ \A p \in session.pending : p = q
        /\ \A p \in signed : p.nonce = q.nonce => p.counter <= q.counter
        /\ \A a \in accepted : a.request # q

\* Counters spent so far lie below the next one and below the clock; nothing was
\* signed for a nonce later than the session's.
SpentBelow ==
    /\ \A q \in signed : /\ q.counter < (now + 1) * PerMs
                         /\ q.nonce <= session.nonce
                         /\ q.nonce = session.nonce => q.counter < session.counter
    /\ session.nonce <= boot
    /\ session.nonce # 0 => session.counter # 0

\* What the device signed belongs to signed requests.
ResponsesKnown ==
    \A r \in responses : r.to \in signed /\ (r.kind = "Frame" => r.to.id \in handled)

\* Every admitted counter of this boot has been responded to.
SeenAnswered ==
    \A c \in seen : \E r \in responses : r.to.nonce = boot /\ r.to.counter = c

\* A handled request cannot be admitted again.
HandledSpent ==
    /\ \A i \in handled : \E q \in signed : q.id = i
    /\ \A q \in signed : q.id \in handled => q.nonce < boot \/ q.counter \in seen

AcceptedKnown == \A a \in accepted : a.request \in signed

IInv ==
    /\ TypeOK
    /\ IdsInOrder
    /\ PendingIsLast
    /\ SpentBelow
    /\ ResponsesKnown
    /\ SeenAnswered
    /\ HandledSpent
    /\ AcceptedKnown
    /\ CounterNeverReused
    /\ AnswersOwnRequest

-----------------------------------------------------------------------------
(* Lemmas.                                                                 *)

\* One more element makes the cardinality of a finite set one larger.
LEMMA AddOne ==
    ASSUME NEW S, NEW x, IsFiniteSet(S), x \notin S
    PROVE  IsFiniteSet(S \cup {x}) /\ Cardinality(S \cup {x}) = Cardinality(S) + 1
BY FS_AddElement

\* A request signed now is a new one.
LEMMA NewIsNew ==
    ASSUME TypeOK, IdsInOrder, NEW q, q.id = NextId
    PROVE  q \notin signed
<1>1. Cardinality(signed) \in Nat
  BY FS_CardinalityType DEF IdsInOrder
<1>2. NextId > Cardinality(signed)
  BY <1>1 DEF NextId
<1>3. \A p \in signed : p.id <= Cardinality(signed) /\ p.id \in Nat
  BY DEF IdsInOrder, TypeOK, Requests, Ids
<1> QED BY <1>1, <1>2, <1>3

\* The initial state satisfies the invariant.
LEMMA InitInv == Init => IInv
<1> SUFFICES ASSUME Init PROVE IInv
  OBVIOUS
<1> USE WidthAssumption, BoundAssumption DEF Init
<1>1. TypeOK
  BY DEF TypeOK, NoSession, StartingAt, Sessions, Words, Nonces
<1>2. IdsInOrder
  BY FS_EmptySet DEF IdsInOrder
<1>3. PendingIsLast /\ SpentBelow
  BY DEF PendingIsLast, SpentBelow, NoSession, StartingAt
<1>4. /\ ResponsesKnown /\ SeenAnswered /\ HandledSpent /\ AcceptedKnown
      /\ CounterNeverReused /\ AnswersOwnRequest
  BY DEF ResponsesKnown, SeenAnswered, HandledSpent, AcceptedKnown,
         CounterNeverReused, AnswersOwnRequest
<1> QED BY <1>1, <1>2, <1>3, <1>4 DEF IInv

\* A new session, opened or rebound, keeps the invariant if its counter lies
\* above every counter spent under its nonce.
LEMMA FreshSession ==
    ASSUME IInv, NEW c \in Counters,
           session' = StartingAt(boot, c), now' \in {now, now + 1},
           UNCHANGED <<signed, accepted, deviceVars>>,
           \A q \in signed : q.nonce = boot => q.counter < c
    PROVE  IInv'
<1> USE WidthAssumption, BoundAssumption DEF IInv, deviceVars
<1>1. /\ session'.nonce = boot /\ session'.counter = c /\ session'.pending = {}
      /\ session' \in Sessions
  BY DEF StartingAt, Sessions, TypeOK, Words, Counters, Nonces
<1>2. TypeOK'
  BY <1>1 DEF TypeOK
<1>3. IdsInOrder'
  BY DEF IdsInOrder
<1>4. PendingIsLast'
  BY <1>1 DEF PendingIsLast
<1>5. SpentBelow'
  <2>1. \A q \in signed : q.counter < (now' + 1) * PerMs
    <3> SUFFICES ASSUME NEW q \in signed PROVE q.counter < (now' + 1) * PerMs
      OBVIOUS
    <3>1. q.counter < (now + 1) * PerMs /\ q.counter \in Nat /\ now \in Nat
      BY DEF SpentBelow, TypeOK, Requests, Counters
    <3>2. (now + 1) * PerMs <= (now + 1 + 1) * PerMs
      BY <3>1
    <3> QED BY <3>1, <3>2
  <2>2. \A q \in signed : q.nonce <= boot
    BY DEF SpentBelow, TypeOK, Requests, Sessions, Nonces
  <2>3. boot \in Nat /\ c # 0 /\ boot' = boot
    BY BoundAssumption DEF TypeOK, Nonces, Counters
  <2> QED BY <1>1, <2>1, <2>2, <2>3 DEF SpentBelow
<1>6. /\ ResponsesKnown' /\ SeenAnswered' /\ HandledSpent' /\ AcceptedKnown'
      /\ CounterNeverReused' /\ AnswersOwnRequest'
  BY DEF ResponsesKnown, SeenAnswered, HandledSpent, AcceptedKnown,
         CounterNeverReused, AnswersOwnRequest
<1> QED BY <1>2, <1>3, <1>4, <1>5, <1>6

\* A page opened later starts above everything the clock let be spent.
LEMMA OpenSessionInv == IInv /\ OpenSession => IInv'
<1> SUFFICES ASSUME IInv, OpenSession PROVE IInv'
  OBVIOUS
<1>1. PICK c \in Seeds(now + 1) : session' = StartingAt(boot, c)
  BY DEF OpenSession
<1>2. c \in Counters /\ c >= (now + 1) * PerMs
  BY <1>1 DEF Seeds
<1>3. \A q \in signed : q.counter < c
  <2> SUFFICES ASSUME NEW q \in signed PROVE q.counter < c
    OBVIOUS
  <2>1. q.counter < (now + 1) * PerMs /\ q.counter \in Nat /\ now \in Nat
    BY DEF IInv, SpentBelow, TypeOK, Requests, Counters
  <2> QED BY <1>2, <2>1, WidthAssumption DEF Counters
<1> QED BY <1>1, <1>2, <1>3, FreshSession DEF OpenSession

\* A rebound session starts on a nonce nothing was signed for.
LEMMA RebindBootInv == IInv /\ RebindBoot => IInv'
<1> SUFFICES ASSUME IInv, RebindBoot PROVE IInv'
  OBVIOUS
<1>1. 1 \in Counters
  BY WidthAssumption DEF Counters
<1>2. \A q \in signed : q.nonce < boot
  BY DEF IInv, RebindBoot, SpentBelow, TypeOK, Requests, Sessions, Nonces
<1>3. \A q \in signed : q.nonce # boot
  BY <1>2, BoundAssumption DEF IInv, TypeOK, Requests, Nonces
<1> QED BY <1>1, <1>3, FreshSession DEF RebindBoot, IInv, TypeOK

LEMMA TickInv == IInv /\ Tick => IInv'
<1> SUFFICES ASSUME IInv, Tick PROVE IInv'
  OBVIOUS
<1> USE WidthAssumption, BoundAssumption DEF IInv, Tick, deviceVars
<1>1. TypeOK' /\ IdsInOrder' /\ PendingIsLast'
  BY DEF TypeOK, IdsInOrder, PendingIsLast
<1>2. SpentBelow'
  <2>1. \A q \in signed : q.counter < (now' + 1) * PerMs
    <3> SUFFICES ASSUME NEW q \in signed PROVE q.counter < (now' + 1) * PerMs
      OBVIOUS
    <3>1. q.counter < (now + 1) * PerMs /\ q.counter \in Nat /\ now \in Nat
      BY DEF SpentBelow, TypeOK, Requests, Counters
    <3>2. (now + 1) * PerMs <= (now + 1 + 1) * PerMs
      BY <3>1
    <3> QED BY <3>1, <3>2
  <2> QED BY <2>1 DEF SpentBelow
<1>3. /\ ResponsesKnown' /\ SeenAnswered' /\ HandledSpent' /\ AcceptedKnown'
      /\ CounterNeverReused' /\ AnswersOwnRequest'
  BY DEF ResponsesKnown, SeenAnswered, HandledSpent, AcceptedKnown,
         CounterNeverReused, AnswersOwnRequest
<1> QED BY <1>1, <1>2, <1>3

\* A signed request takes the next identity and a counter above all others of
\* its nonce.
LEMMA BeginRequestInv ==
    ASSUME IInv, NEW subject \in Subjects, BeginRequest(subject)
    PROVE  IInv'
<1> DEFINE q == [id |-> NextId, subject |-> subject,
                 nonce |-> session.nonce, counter |-> session.counter,
                 sequence |-> session.sequence,
                 correlation |-> session.correlation]
<1> USE WidthAssumption, BoundAssumption DEF IInv, deviceVars
<1>1. /\ session' = [session EXCEPT !.pending = {q},
                     !.counter = session.counter + 1,
                     !.sequence = NextSequence(session.sequence),
                     !.correlation = NextCorrelation(session.correlation)]
      /\ signed' = signed \cup {q}
      /\ UNCHANGED <<now, accepted, boot, seen, handled, responses>>
  BY DEF BeginRequest, Spent
<1>2. /\ session \in Sessions /\ session.nonce # 0
      /\ session.counter + 1 <= CounterMax /\ session.pending = {}
      /\ q.id \in Ids
  BY DEF BeginRequest, TypeOK
<1>3. session.nonce \in Nonces /\ session.counter \in Counters
  BY <1>2 DEF Sessions, SpentBelow
<1>4. q \in Requests
  BY <1>2, <1>3 DEF Requests, Sessions
<1>5. session' \in Sessions
  <2>1. session.counter + 1 \in Counters
    BY <1>2, <1>3 DEF Counters
  <2>2. NextSequence(session.sequence) \in Words /\ NextCorrelation(session.correlation) \in Words
    BY <1>2 DEF Sessions, Words, NextSequence, NextCorrelation
  <2>3. {q} \in SUBSET Requests
    BY <1>4
  <2> QED BY <1>1, <1>2, <2>1, <2>2, <2>3 DEF Sessions
<1>6. /\ session'.nonce = session.nonce /\ session'.pending = {q}
      /\ session'.counter = session.counter + 1
  BY <1>1, <1>2 DEF Sessions
<1>7. /\ q.id = NextId /\ q.nonce = session.nonce /\ q.counter = session.counter
  OBVIOUS
<1>8. q \notin signed
  BY <1>7, NewIsNew
<1>9. \A p \in signed : /\ p \in Requests
                        /\ p.nonce = q.nonce => p.counter < q.counter
                        /\ p.nonce <= q.nonce
  BY <1>7 DEF SpentBelow, TypeOK
<1> HIDE DEF q
<1>10. TypeOK'
  BY <1>1, <1>4, <1>5 DEF TypeOK
<1>11. IdsInOrder'
  <2>1. /\ IsFiniteSet(signed') /\ Cardinality(signed') = Cardinality(signed) + 1
        /\ Cardinality(signed) \in Nat
    BY <1>1, <1>8, AddOne, FS_CardinalityType DEF IdsInOrder
  <2>2. q.id = Cardinality(signed')
    BY <1>7, <2>1 DEF NextId
  <2>3. \A p \in signed : p.id <= Cardinality(signed) /\ p.id \in Nat
    BY <1>9 DEF IdsInOrder, Requests, Ids
  <2>4. \A p \in signed : p.id < q.id
    BY <2>1, <2>2, <2>3
  <2>5. \A p \in signed' : p.id <= Cardinality(signed')
    BY <1>1, <2>1, <2>2, <2>3
  <2>6. \A p, r \in signed' : p.id = r.id => p = r
    BY <1>1, <2>3, <2>4 DEF IdsInOrder
  <2> QED BY <2>1, <2>5, <2>6 DEF IdsInOrder
<1>12. PendingIsLast'
  <2>1. \A p \in signed : p.nonce = q.nonce => p.counter <= q.counter
    BY <1>4, <1>9 DEF Requests, Counters
  <2>2. \A a \in accepted : a.request # q
    BY <1>8 DEF AcceptedKnown
  <2> QED BY <1>1, <1>4, <1>6, <1>7, <2>1, <2>2 DEF PendingIsLast, Requests, Counters
<1>13. SpentBelow'
  <2>1. q.counter < (now + 1) * PerMs
    BY <1>7 DEF BeginRequest, Paced
  <2>2. \A p \in signed' : /\ p.counter < (now' + 1) * PerMs
                           /\ p.nonce <= session'.nonce
    BY <1>1, <1>3, <1>6, <1>7, <2>1 DEF SpentBelow, Nonces
  <2>3. \A p \in signed' : p.nonce = session'.nonce => p.counter < session'.counter
    BY <1>1, <1>3, <1>6, <1>7, <1>9 DEF Counters, Requests
  <2>4. session'.nonce <= boot' /\ session'.counter # 0
    BY <1>1, <1>3, <1>6 DEF SpentBelow, Counters
  <2> QED BY <2>2, <2>3, <2>4 DEF SpentBelow
<1>14. ResponsesKnown' /\ SeenAnswered' /\ AcceptedKnown' /\ AnswersOwnRequest'
  BY <1>1 DEF ResponsesKnown, SeenAnswered, AcceptedKnown, AnswersOwnRequest
<1>15. CounterNeverReused'
  <2>1. \A p \in signed : p.nonce = q.nonce => p.counter # q.counter
    BY <1>4, <1>9 DEF Requests, Counters
  <2> QED BY <1>1, <2>1 DEF CounterNeverReused
<1>16. HandledSpent'
  <2>1. \A i \in handled : i # q.id
    <3> SUFFICES ASSUME NEW p \in signed, p.id = q.id PROVE FALSE
      BY DEF HandledSpent
    <3>1. Cardinality(signed) \in Nat /\ p.id <= Cardinality(signed)
      BY FS_CardinalityType DEF IdsInOrder
    <3> QED BY <1>7, <3>1 DEF NextId
  <2> QED BY <1>1, <2>1 DEF HandledSpent
<1> QED BY <1>10, <1>11, <1>12, <1>13, <1>14, <1>15, <1>16

\* A response that verifies is the pending request's own: nonce and counter name
\* one request.
LEMMA VerifiedIsOwn ==
    ASSUME IInv, NEW q \in session.pending, NEW r \in responses, Verifies(q, r)
    PROVE  r.to = q
BY DEF IInv, PendingIsLast, ResponsesKnown, CounterNeverReused, Verifies

\* A session that stops waiting keeps the invariant.
LEMMA StopWaiting ==
    ASSUME IInv, session' = [session EXCEPT !.pending = {}]
    PROVE  /\ session' \in Sessions
           /\ session'.nonce = session.nonce
           /\ session'.counter = session.counter
           /\ session'.pending = {}
BY DEF IInv, TypeOK, Sessions

LEMMA AcceptResponseInv ==
    ASSUME IInv, NEW q \in session.pending, NEW r \in responses, AcceptResponse(q, r)
    PROVE  IInv'
<1> USE DEF IInv, deviceVars
<1>1. r.to = q /\ q \in signed /\ q \in Requests
  BY VerifiedIsOwn DEF AcceptResponse, PendingIsLast, TypeOK, Sessions
<1>2. /\ session' = [session EXCEPT !.pending = {}]
      /\ accepted' \in {accepted, accepted \cup {[request |-> q, answer |-> r]}}
      /\ UNCHANGED <<now, signed, boot, seen, handled, responses>>
  BY DEF AcceptResponse
<1>3. /\ session' \in Sessions /\ session'.nonce = session.nonce
      /\ session'.counter = session.counter /\ session'.pending = {}
  BY <1>2, StopWaiting
<1>4. TypeOK'
  <2>1. [request |-> q, answer |-> r] \in [request : Requests, answer : Responses]
    BY <1>1 DEF TypeOK
  <2> QED BY <1>2, <1>3, <2>1 DEF TypeOK
<1>5. /\ IdsInOrder' /\ PendingIsLast' /\ SpentBelow' /\ ResponsesKnown'
      /\ SeenAnswered' /\ HandledSpent' /\ CounterNeverReused'
  BY <1>2, <1>3 DEF IdsInOrder, PendingIsLast, SpentBelow, ResponsesKnown, SeenAnswered,
                    HandledSpent, CounterNeverReused
<1>6. AcceptedKnown' /\ AnswersOwnRequest'
  BY <1>1, <1>2 DEF AcceptedKnown, AnswersOwnRequest
<1> QED BY <1>4, <1>5, <1>6

LEMMA AbandonPendingInv == IInv /\ AbandonPending => IInv'
<1> SUFFICES ASSUME IInv, AbandonPending PROVE IInv'
  OBVIOUS
<1> USE DEF IInv, deviceVars
<1>1. /\ session' \in Sessions /\ session'.nonce = session.nonce
      /\ session'.counter = session.counter /\ session'.pending = {}
  BY StopWaiting DEF AbandonPending
<1>2. UNCHANGED <<now, signed, accepted, boot, seen, handled, responses>>
  BY DEF AbandonPending
<1>3. TypeOK'
  BY <1>1, <1>2 DEF TypeOK
<1>4. /\ IdsInOrder' /\ PendingIsLast' /\ SpentBelow' /\ ResponsesKnown'
      /\ SeenAnswered' /\ HandledSpent' /\ CounterNeverReused'
      /\ AcceptedKnown' /\ AnswersOwnRequest'
  BY <1>1, <1>2 DEF IdsInOrder, PendingIsLast, SpentBelow, ResponsesKnown, SeenAnswered,
                    HandledSpent, CounterNeverReused, AcceptedKnown, AnswersOwnRequest
<1> QED BY <1>3, <1>4

LEMMA ReceiveInv ==
    ASSUME IInv, NEW q \in signed, Receive(q)
    PROVE  IInv'
<1> USE DEF IInv
<1>1. /\ q \in Requests /\ q.nonce = boot /\ seen' = seen \cup {q.counter}
      /\ UNCHANGED <<session, now, signed, accepted, boot>>
  BY DEF Receive, TypeOK
<1>2. PICK k \in {"Frame", "Error"} :
        /\ responses' = responses \cup {[to |-> q, kind |-> k]}
        /\ handled' = IF k = "Frame" THEN handled \cup {q.id} ELSE handled
  BY DEF Receive
<1>3. TypeOK'
  <2>1. [to |-> q, kind |-> k] \in Responses
    BY <1>1 DEF Responses
  <2>2. q.id \in Ids /\ q.counter \in Counters
    BY <1>1 DEF Requests
  <2> QED BY <1>1, <1>2, <2>1, <2>2 DEF TypeOK
<1>4. /\ IdsInOrder' /\ PendingIsLast' /\ SpentBelow' /\ CounterNeverReused'
      /\ AcceptedKnown' /\ AnswersOwnRequest'
  BY <1>1 DEF IdsInOrder, PendingIsLast, SpentBelow, CounterNeverReused, AcceptedKnown,
              AnswersOwnRequest
<1>5. ResponsesKnown'
  BY <1>1, <1>2 DEF ResponsesKnown
<1>6. SeenAnswered'
  <2>1. \A c \in seen : \E r \in responses' : r.to.nonce = boot /\ r.to.counter = c
    BY <1>2 DEF SeenAnswered
  <2>2. \E r \in responses' : r.to.nonce = boot /\ r.to.counter = q.counter
    <3> DEFINE r == [to |-> q, kind |-> k]
    <3>1. r \in responses' /\ r.to = q
      BY <1>2
    <3> QED BY <1>1, <3>1
  <2> QED BY <1>1, <2>1, <2>2 DEF SeenAnswered
<1>7. HandledSpent'
  <2>1. \A i \in handled' : \E p \in signed : p.id = i
    <3>1. handled' \subseteq handled \cup {q.id}
      BY <1>2
    <3> QED BY <3>1 DEF HandledSpent
  <2>2. ASSUME NEW p \in signed, p.id \in handled'
        PROVE  p.nonce < boot \/ p.counter \in seen'
    <3>1. CASE p.id \in handled
      BY <1>1, <3>1 DEF HandledSpent
    <3>2. CASE p.id = q.id
      BY <1>1, <3>2 DEF IdsInOrder
    <3>3. p.id \in handled \/ p.id = q.id
      BY <1>2, <2>2
    <3> QED BY <3>1, <3>2, <3>3
  <2> QED BY <1>1, <2>1, <2>2 DEF HandledSpent
<1> QED BY <1>3, <1>4, <1>5, <1>6, <1>7

LEMMA RestartInv == IInv /\ Restart => IInv'
<1> SUFFICES ASSUME IInv, Restart PROVE IInv'
  OBVIOUS
<1> USE DEF IInv
<1>1. /\ boot < MaxBoots /\ boot' = boot + 1 /\ seen' = {}
      /\ UNCHANGED <<session, now, signed, accepted, handled, responses>>
  BY DEF Restart
<1>2. TypeOK'
  BY <1>1, BoundAssumption DEF TypeOK, Nonces
<1>3. /\ IdsInOrder' /\ PendingIsLast' /\ ResponsesKnown' /\ SeenAnswered'
      /\ CounterNeverReused' /\ AcceptedKnown' /\ AnswersOwnRequest'
  BY <1>1 DEF IdsInOrder, PendingIsLast, ResponsesKnown, SeenAnswered,
              CounterNeverReused, AcceptedKnown, AnswersOwnRequest
<1>4. SpentBelow'
  BY <1>1, BoundAssumption DEF SpentBelow, TypeOK, Sessions, Nonces
<1>5. HandledSpent'
  <2>1. \A p \in signed : p.nonce < boot'
    BY <1>1, BoundAssumption DEF SpentBelow, TypeOK, Requests, Sessions, Nonces
  <2> QED BY <1>1, <2>1 DEF HandledSpent
<1> QED BY <1>2, <1>3, <1>4, <1>5

\* Every step keeps the invariant.
LEMMA StepInv == IInv /\ [Next]_vars => IInv'
<1> SUFFICES ASSUME IInv, [Next]_vars PROVE IInv'
  OBVIOUS
<1>1. CASE UNCHANGED vars
  BY <1>1 DEF vars, deviceVars, IInv, TypeOK, IdsInOrder, PendingIsLast, SpentBelow,
              ResponsesKnown, SeenAnswered, HandledSpent, AcceptedKnown,
              CounterNeverReused, AnswersOwnRequest
<1> QED BY <1>1, OpenSessionInv, TickInv, BeginRequestInv, AcceptResponseInv,
           AbandonPendingInv, RebindBootInv, ReceiveInv, RestartInv DEF Next

LEMMA AlwaysIInv == Spec => []IInv
BY InitInv, StepInv, PTL DEF Spec

-----------------------------------------------------------------------------
(* The theorems.                                                           *)

\* The session's variables keep their types, and its words their widths, for
\* every width (begin_request_for_config).
THEOREM SessionTypeOK == Spec => []TypeOK
<1>1. IInv => TypeOK
  BY DEF IInv
<1> QED BY <1>1, AlwaysIInv, PTL

\* Whatever is abandoned, reloaded or rebound, nonce and counter name one request
\* (begin_request, browser_counter_seed).
THEOREM CountersNeverReused == Spec => []CounterNeverReused
<1>1. IInv => CounterNeverReused
  BY DEF IInv
<1> QED BY <1>1, AlwaysIInv, PTL

\* An answer is the device's answer to the request it is taken for, however many
\* old responses are delivered again (accept_response).
THEOREM AnswersAreOwn == Spec => []AnswersOwnRequest
<1>1. IInv => AnswersOwnRequest
  BY DEF IInv
<1> QED BY <1>1, AlwaysIInv, PTL

\* A pending request is never taken for a replay, for every width of the device's
\* window (browser_counter_seed).
THEOREM NeverMistakenForReplay == Spec => []FreshIsNotReplay
<1>1. ASSUME IInv PROVE FreshIsNotReplay
  <2> SUFFICES ASSUME NEW q \in session.pending, q.nonce = boot,
                      \A r \in responses : r.to # q
               PROVE  Admits(q.counter)
    BY DEF FreshIsNotReplay
  <2>1. q \in signed /\ q \in Requests
    BY <1>1 DEF IInv, PendingIsLast, TypeOK
  <2>2. q.counter \notin seen
    BY <1>1, <2>1 DEF IInv, SeenAnswered, ResponsesKnown, CounterNeverReused
  <2>3. ASSUME NEW c \in seen PROVE q.counter + Window > c
    <3>1. PICK r \in responses : r.to.nonce = boot /\ r.to.counter = c
      BY <1>1 DEF IInv, SeenAnswered
    <3>2. r.to \in signed /\ r.to.counter <= q.counter
      BY <1>1, <3>1 DEF IInv, ResponsesKnown, PendingIsLast
    <3>3. q.counter \in Nat /\ c \in Nat
      BY <1>1, <2>1 DEF IInv, TypeOK, Requests, Counters
    <3> QED BY <3>1, <3>2, <3>3, WidthAssumption
  <2> QED BY <2>2, <2>3 DEF Admits
<1> QED BY <1>1, AlwaysIInv, PTL

-----------------------------------------------------------------------------
(* The session implements RequestLifecycle.                                *)

\* Where a signed request stands.
LEMMA SignedPhase ==
    ASSUME IInv, NEW q \in signed
    PROVE  /\ q.id \in Ids /\ q.id < NextId
           /\ q \in session.pending => PhaseOf(q.id) = "Open"
           /\ PhaseOf(q.id) # "Unsent"
<1>1. q.id \in Ids /\ q.id <= Cardinality(signed) /\ Cardinality(signed) \in Nat
  BY FS_CardinalityType DEF IInv, IdsInOrder, TypeOK, Requests
<1>2. q.id < NextId
  BY <1>1 DEF NextId, Ids
<1>3. ~ q.id >= NextId
  BY <1>1, <1>2 DEF NextId, Ids
<1>4. PhaseOf(q.id) # "Unsent"
  BY <1>3 DEF PhaseOf
<1>5. ASSUME q \in session.pending PROVE PhaseOf(q.id) = "Open"
  <2>1. ~ \E a \in accepted : a.request.id = q.id
    BY <1>5 DEF IInv, IdsInOrder, PendingIsLast, AcceptedKnown
  <2> QED BY <1>3, <1>5, <2>1 DEF PhaseOf
<1> QED BY <1>1, <1>2, <1>4, <1>5

\* Only a pending request is open.
LEMMA OpenIsPending ==
    ASSUME NEW i \in Ids, PhaseOf(i) = "Open"
    PROVE  \E q \in session.pending : q.id = i
BY DEF PhaseOf

\* A request given up: its session stopped waiting, or is gone.
LEMMA GiveUpStep ==
    ASSUME IInv, session'.pending = {}, UNCHANGED <<signed, accepted, handled>>
    PROVE  [Lifecycle!Next]_<<[i \in Ids |-> PhaseOf(i)], handled>>
<1>1. NextId' = NextId
  BY DEF NextId
<1>2. CASE session.pending = {}
  <2>1. \A i \in Ids : PhaseOf(i)' = PhaseOf(i)
    BY <1>1, <1>2 DEF PhaseOf
  <2> QED BY <2>1
<1>3. ASSUME NEW q \in session.pending
      PROVE  Lifecycle!GiveUp(q.id) /\ q.id \in Ids
  <2>1. q \in signed /\ \A p \in session.pending : p = q
    BY DEF IInv, PendingIsLast
  <2>2. q.id \in Ids /\ q.id < NextId /\ PhaseOf(q.id) = "Open"
    BY <2>1, SignedPhase
  <2>3. \A i \in Ids : i # q.id => PhaseOf(i)' = PhaseOf(i)
    BY <1>1, <2>1 DEF PhaseOf
  <2>4. PhaseOf(q.id)' = "GivenUp"
    BY <1>1, <2>2 DEF PhaseOf
  <2> QED BY <2>2, <2>3, <2>4 DEF Lifecycle!GiveUp
<1> QED BY <1>2, <1>3 DEF Lifecycle!Next

LEMMA SignStep ==
    ASSUME IInv, NEW subject \in Subjects, BeginRequest(subject)
    PROVE  Lifecycle!Next
<1>1. PICK q : /\ q.id = NextId /\ session' = Spent(session, q)
               /\ signed' = signed \cup {q} /\ session \in Sessions
               /\ session.pending = {} /\ q.id \in Ids
               /\ UNCHANGED <<accepted, handled>>
  BY DEF BeginRequest, IInv, TypeOK, deviceVars
<1>2. session'.pending = {q}
  BY <1>1 DEF Spent, Sessions
<1>3. Cardinality(signed) \in Nat /\ NextId' = NextId + 1 /\ NextId \in Nat
  <2>1. q \notin signed
    BY <1>1, NewIsNew DEF IInv
  <2> QED BY <1>1, <2>1, AddOne, FS_CardinalityType DEF NextId, IInv, IdsInOrder
<1>4. \A a \in accepted : a.request.id # q.id
  <2> SUFFICES ASSUME NEW a \in accepted, a.request.id = q.id PROVE FALSE
    OBVIOUS
  <2>1. a.request \in signed
    BY DEF IInv, AcceptedKnown
  <2>2. a.request.id < NextId
    BY <2>1, SignedPhase
  <2> QED BY <1>1, <1>3, <2>2
<1>5. PhaseOf(q.id) = "Unsent"
  BY <1>1, <1>3 DEF PhaseOf
<1>6. \A i \in Ids : PhaseOf(i) # "Open"
  BY <1>1, OpenIsPending
<1>7. PhaseOf(q.id)' = "Open"
  <2>1. ~ q.id >= NextId'
    BY <1>1, <1>3
  <2> QED BY <1>1, <1>2, <1>4, <2>1 DEF PhaseOf
<1>8. ASSUME NEW i \in Ids, i # q.id PROVE PhaseOf(i)' = PhaseOf(i)
  <2>1. i >= NextId' <=> i >= NextId
    BY <1>1, <1>3, <1>8 DEF Ids
  <2> QED BY <1>1, <1>2, <1>8, <2>1 DEF PhaseOf
<1>9. Lifecycle!Sign(q.id)
  BY <1>1, <1>5, <1>6, <1>7, <1>8 DEF Lifecycle!Sign
<1> QED BY <1>1, <1>9 DEF Lifecycle!Next

\* An accepted response answers the request, or tells that it failed.
LEMMA AnswerStep ==
    ASSUME IInv, NEW q \in session.pending, NEW r \in responses, AcceptResponse(q, r)
    PROVE  [Lifecycle!Next]_<<[i \in Ids |-> PhaseOf(i)], handled>>
<1>1. /\ session' = [session EXCEPT !.pending = {}]
      /\ UNCHANGED <<signed, handled>> /\ NextId' = NextId
  BY DEF AcceptResponse, deviceVars, NextId
<1>2. session'.pending = {}
  BY <1>1, StopWaiting
<1>3. CASE ~ Decodes(q, r)
  BY <1>1, <1>2, <1>3, GiveUpStep DEF AcceptResponse
<1>4. CASE Decodes(q, r)
  <2>1. accepted' = accepted \cup {[request |-> q, answer |-> r]}
    BY <1>4 DEF AcceptResponse
  <2>2. q \in signed /\ \A p \in session.pending : p = q
    BY DEF IInv, PendingIsLast
  <2>3. q.id \in Ids /\ q.id < NextId /\ PhaseOf(q.id) = "Open"
    BY <2>2, SignedPhase
  <2>4. q.id \in handled
    <3>1. r.to = q /\ r.kind = "Frame"
      BY <1>4, VerifiedIsOwn DEF AcceptResponse, Decodes
    <3> QED BY <3>1 DEF IInv, ResponsesKnown
  <2>5. PhaseOf(q.id)' = "Answered"
    <3>1. \E a \in accepted' : a.request.id = q.id
      <4>1. [request |-> q, answer |-> r].request.id = q.id
        OBVIOUS
      <4> QED BY <2>1, <4>1
    <3>2. ~ q.id >= NextId
      BY <2>3 DEF PhaseOf
    <3> QED BY <1>1, <3>1, <3>2 DEF PhaseOf
  <2>6. ASSUME NEW i \in Ids, i # q.id PROVE PhaseOf(i)' = PhaseOf(i)
    <3>1. (\E a \in accepted' : a.request.id = i) <=> \E a \in accepted : a.request.id = i
      BY <2>1, <2>6
    <3>2. ~ \E p \in session.pending : p.id = i
      BY <2>2, <2>6
    <3>3. ~ \E p \in session'.pending : p.id = i
      BY <1>2
    <3> QED BY <1>1, <3>1, <3>2, <3>3 DEF PhaseOf
  <2>7. Lifecycle!Answer(q.id)
    BY <1>1, <2>3, <2>4, <2>5, <2>6 DEF Lifecycle!Answer
  <2> QED BY <2>3, <2>7 DEF Lifecycle!Next
<1> QED BY <1>3, <1>4

\* The device handles a request it has not handled before.
LEMMA HandleStep ==
    ASSUME IInv, NEW q \in signed, Receive(q)
    PROVE  [Lifecycle!Next]_<<[i \in Ids |-> PhaseOf(i)], handled>>
<1>1. \A i \in Ids : PhaseOf(i)' = PhaseOf(i)
  BY DEF Receive, PhaseOf, NextId
<1>2. q.id \notin handled
  BY BoundAssumption DEF Receive, Admits, IInv, HandledSpent, TypeOK, Nonces
<1>3. q.id \in Ids /\ PhaseOf(q.id) # "Unsent"
  BY SignedPhase
<1>4. CASE handled' = handled
  BY <1>1, <1>4
<1>5. CASE handled' = handled \cup {q.id}
  BY <1>1, <1>2, <1>3, <1>5 DEF Lifecycle!Handle, Lifecycle!Next
<1> QED BY <1>4, <1>5 DEF Receive

\* The session keeps the promise of RequestLifecycle, for every width, window and
\* number of restarts: one request open at a time, each handled at most once, and
\* answered only if the device handled that very request.
THEOREM SessionKeepsLifecycle == Spec => KeepsLifecycle
<1>1. Init => Lifecycle!Init
  <2> SUFFICES ASSUME Init PROVE Lifecycle!Init
    OBVIOUS
  <2>1. NextId = 1
    BY FS_EmptySet DEF Init, NextId
  <2>2. \A i \in Ids : PhaseOf(i) = "Unsent"
    BY <2>1, BoundAssumption DEF PhaseOf, Ids
  <2> QED BY <2>2 DEF Init, Lifecycle!Init
<1>2. IInv /\ [Next]_vars => [Lifecycle!Next]_<<[i \in Ids |-> PhaseOf(i)], handled>>
  <2> SUFFICES ASSUME IInv, [Next]_vars
               PROVE  [Lifecycle!Next]_<<[i \in Ids |-> PhaseOf(i)], handled>>
    OBVIOUS
  <2>1. ASSUME UNCHANGED <<session, signed, accepted, handled>>
        PROVE  UNCHANGED <<[i \in Ids |-> PhaseOf(i)], handled>>
    BY <2>1 DEF PhaseOf, NextId
  <2>2. CASE OpenSession \/ RebindBoot
    BY <2>2, GiveUpStep DEF OpenSession, RebindBoot, StartingAt, deviceVars
  <2>3. CASE AbandonPending
    BY <2>3, GiveUpStep, StopWaiting DEF AbandonPending, deviceVars
  <2>4. CASE Tick \/ Restart \/ UNCHANGED vars
    BY <2>1, <2>4 DEF Tick, Restart, vars, deviceVars
  <2> QED BY <2>2, <2>3, <2>4, SignStep, AnswerStep, HandleStep DEF Next
<1> QED BY <1>1, <1>2, AlwaysIInv, PTL DEF Spec, KeepsLifecycle, Lifecycle!Spec
=============================================================================

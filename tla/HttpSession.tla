----------------------------- MODULE HttpSession -----------------------------
(***************************************************************************)
(* The authenticated HTTP session of a browser page with one device.       *)
(*                                                                         *)
(* A session is opened on the device's public boot challenge (its nonce)   *)
(* at a counter taken from the wall clock.  Every request spends a         *)
(* counter, a sequence and a correlation when it is signed, before any     *)
(* I/O; one request is pending at a time; an ambiguous exchange is         *)
(* abandoned and its counter never used again.                             *)
(*                                                                         *)
(* The network loses requests, delays them, and may show the session any   *)
(* response the device ever signed.  The page is reloaded, the device      *)
(* restarts.  The device (nonce, replay window, execution) is external: it *)
(* handles a request of its own boot whose counter its window admits.      *)
(* Signatures are modelled by what they bind: a response verifies for the  *)
(* nonce and the counter it was signed with.                               *)
(***************************************************************************)
EXTENDS Integers, FiniteSets

CONSTANTS
    Subjects,     \* an operation and the configuration it is asked against
    CounterMax,   \* the largest counter (u64::MAX)
    SeqModulus,   \* sequences and correlations wrap here (2^32)
    PerMs,        \* counters one millisecond of wall clock stands for
    Window,       \* width of the device's replay window
    MaxRequests,  \* bound on signed requests
    MaxBoots,     \* bound on device boots
    MaxTime       \* bound on the wall clock

ASSUME WidthAssumption ==
    /\ CounterMax \in Nat \ {0}
    /\ SeqModulus \in Nat \ {0, 1}
    /\ PerMs \in Nat \ {0}
    /\ Window \in Nat \ {0}

ASSUME BoundAssumption ==
    /\ MaxRequests \in Nat
    /\ MaxBoots \in Nat \ {0}
    /\ MaxTime \in Nat

VARIABLES
    session,    \* the open session, or NoSession
    now,        \* wall clock, in milliseconds
    signed,     \* every request ever signed, by identity
    accepted,   \* requests answered, each with the response taken for its answer
    boot,       \* device: nonce of this boot
    seen,       \* device: counters admitted in this boot
    handled,    \* device: requests handled, by identity
    responses   \* every response the device ever signed

deviceVars == <<boot, seen, handled, responses>>
vars == <<session, now, signed, accepted, boot, seen, handled, responses>>

-----------------------------------------------------------------------------
(* Values.                                                                 *)

Ids == 1..MaxRequests
Nonces == 1..MaxBoots
Counters == 1..CounterMax
Words == 0..(SeqModulus - 1)

\* "id" tells apart two requests that are equal on the wire.
Requests ==
    [id : Ids, subject : Subjects, nonce : Nonces, counter : Counters,
     sequence : Words, correlation : Words]

\* "pending" holds at most one request; no boot has nonce zero.
Sessions ==
    [nonce : Nonces \cup {0}, counter : Counters \cup {0}, sequence : Words,
     correlation : Words, pending : SUBSET Requests]

\* What the device signs: a native frame that echoes its request, or an error
\* that is none (another status, another representation).
Responses == [to : Requests, kind : {"Frame", "Error"}]

NextId == Cardinality(signed) + 1

-----------------------------------------------------------------------------
(* The session.                                                            *)

\* AuthenticatedHttpSession::starting_at
StartingAt(nonce, seed) ==
    [nonce |-> nonce, counter |-> seed, sequence |-> 0, correlation |-> 1,
     pending |-> {}]
NoSession == StartingAt(0, 0)

\* Mutation: every page starts at counter one, as AuthenticatedHttpSession::new.
SeedsAtOne(time) == {1}

\* browser_counter_seed: an epoch prefix and entropy below it.  A seed of zero,
\* or one that leaves no room to advance, is refused.
Seeds(time) ==
    {seed \in Counters : /\ seed >= time * PerMs
                         /\ seed < (time + 1) * PerMs
                         /\ seed # CounterMax}

\* open_authenticated_session, by a first page load or a later one: the previous
\* page's session is gone.  Loading a page and fetching the challenge takes at
\* least a millisecond.
OpenSession ==
    /\ now < MaxTime
    /\ now' = now + 1
    /\ \E seed \in Seeds(now') : session' = StartingAt(boot, seed)
    /\ UNCHANGED <<signed, accepted, deviceVars>>

\* The wall clock moves.
Tick ==
    /\ now < MaxTime
    /\ now' = now + 1
    /\ UNCHANGED <<session, signed, accepted, deviceVars>>

\* Counters outlast the clock: nobody signs PerMs requests in a millisecond.
Paced == session.counter < (now + 1) * PerMs

\* wrapping_add(1)
NextSequence(s) == (s + 1) % SeqModulus

\* wrapping_add(1).max(1)
NextCorrelation(c) == IF (c + 1) % SeqModulus = 0 THEN 1 ELSE (c + 1) % SeqModulus

\* What begin_request_for_config leaves of the session.
Spent(s, request) ==
    [s EXCEPT !.pending = {request},
              !.counter = s.counter + 1,
              !.sequence = NextSequence(s.sequence),
              !.correlation = NextCorrelation(s.correlation)]

\* begin_request_for_config; checked_add keeps the last counter unused.
BeginRequest(subject) ==
    /\ session.nonce # 0
    /\ session.pending = {}
    /\ session.counter + 1 <= CounterMax
    /\ Paced
    /\ NextId \in Ids
    /\ LET request == [id |-> NextId, subject |-> subject,
                       nonce |-> session.nonce, counter |-> session.counter,
                       sequence |-> session.sequence,
                       correlation |-> session.correlation]
       IN  /\ session' = Spent(session, request)
           /\ signed' = signed \cup {request}
    /\ UNCHANGED <<now, accepted, deviceVars>>

\* Mutation: the signed counter is not compared with the pending one.
VerifiesAnyCounter(q, r) == r.to.nonce = q.nonce

\* The counter named by the response is the pending one, and the proof verifies
\* under the boot nonce of the session.
Verifies(q, r) ==
    /\ r.to.counter = q.counter
    /\ r.to.nonce = q.nonce

\* decode_response: the frame echoes the pending request.
Decodes(q, r) ==
    /\ r.kind = "Frame"
    /\ r.to.subject = q.subject
    /\ r.to.sequence = q.sequence
    /\ r.to.correlation = q.correlation

\* accept_response.  A response that does not verify changes nothing; one that
\* does consumes the pending request, whatever it carries.
AcceptResponse(q, r) ==
    /\ Verifies(q, r)
    /\ session' = [session EXCEPT !.pending = {}]
    /\ accepted' = IF Decodes(q, r)
                     THEN accepted \cup {[request |-> q, answer |-> r]}
                     ELSE accepted
    /\ UNCHANGED <<now, signed, deviceVars>>

\* abandon_pending: the transport failed, timed out, or its metadata was wrong.
AbandonPending ==
    /\ session.pending # {}
    /\ session' = [session EXCEPT !.pending = {}]
    /\ UNCHANGED <<now, signed, accepted, deviceVars>>

\* rebind_boot, after the challenge of another boot was fetched: the session
\* restarts as AuthenticatedHttpSession::new.
RebindBoot ==
    /\ session.nonce # 0
    /\ session.pending = {}
    /\ boot # session.nonce
    /\ session' = StartingAt(boot, 1)
    /\ UNCHANGED <<now, signed, accepted, deviceVars>>

-----------------------------------------------------------------------------
(* The device.                                                             *)

\* The replay window admits a counter it has not seen and that is not more than
\* its width below the largest it has.
Admits(counter) ==
    /\ counter \notin seen
    /\ \A c \in seen : counter + Window > c

\* A request arrives, perhaps long after it was abandoned.  The device handles
\* it, or refuses it with a signed error.
Receive(q) ==
    /\ q.nonce = boot
    /\ Admits(q.counter)
    /\ seen' = seen \cup {q.counter}
    /\ \/ /\ handled' = handled \cup {q.id}
          /\ responses' = responses \cup {[to |-> q, kind |-> "Frame"]}
       \/ /\ responses' = responses \cup {[to |-> q, kind |-> "Error"]}
          /\ UNCHANGED handled
    /\ UNCHANGED <<session, now, signed, accepted, boot>>

Restart ==
    /\ boot < MaxBoots
    /\ boot' = boot + 1
    /\ seen' = {}
    /\ UNCHANGED <<session, now, signed, accepted, handled, responses>>

-----------------------------------------------------------------------------
Init ==
    /\ session = NoSession
    /\ now = 0
    /\ signed = {}
    /\ accepted = {}
    /\ boot = 1
    /\ seen = {}
    /\ handled = {}
    /\ responses = {}

Next ==
    \/ OpenSession
    \/ Tick
    \/ \E subject \in Subjects : BeginRequest(subject)
    \/ \E q \in session.pending, r \in responses : AcceptResponse(q, r)
    \/ AbandonPending
    \/ RebindBoot
    \/ \E q \in signed : Receive(q)
    \/ Restart

Spec == Init /\ [][Next]_vars

-----------------------------------------------------------------------------
(* Properties.                                                             *)

\* Every variable keeps its type, session words and counters their widths.
TypeOK ==
    /\ session \in Sessions
    /\ now \in Nat
    /\ signed \subseteq Requests
    /\ accepted \subseteq [request : Requests, answer : Responses]
    /\ boot \in Nonces
    /\ seen \subseteq Counters
    /\ handled \subseteq Ids
    /\ responses \subseteq Responses

\* Two requests never carry the same counter under one boot nonce, whatever was
\* abandoned, reloaded or rebound in between (begin_request spends the counter
\* before any I/O; the seed of a later page lies above every counter spent).
CounterNeverReused ==
    \A p, q \in signed :
        p.nonce = q.nonce /\ p.counter = q.counter => p = q

\* A response taken for an answer is the device's answer to that very request,
\* also when sequence and correlation have wrapped and an old response of the
\* same operation is delivered again (accept_response).
AnswersOwnRequest ==
    \A a \in accepted : a.answer.to = a.request

\* The device never mistakes a page's pending request for a replay: not after a
\* reload, not after late requests of the page before (browser_counter_seed).
FreshIsNotReplay ==
    \A q \in session.pending :
        q.nonce = boot => \/ Admits(q.counter)
                          \/ \E r \in responses : r.to = q

\* The phase of a request as its caller sees it.
PhaseOf(i) ==
    IF i >= NextId THEN "Unsent"
    ELSE IF \E a \in accepted : a.request.id = i THEN "Answered"
    ELSE IF \E q \in session.pending : q.id = i THEN "Open"
    ELSE "GivenUp"

Lifecycle ==
    INSTANCE RequestLifecycle WITH phase <- [i \in Ids |-> PhaseOf(i)]

\* The session keeps the promise of RequestLifecycle: at most one open request,
\* each handled at most once, answered only if it was handled.
KeepsLifecycle == Lifecycle!Spec
=============================================================================

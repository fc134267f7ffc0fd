--------------------------- MODULE RequestLifecycle ---------------------------
(***************************************************************************)
(* What the authenticated HTTP session promises to its callers: one        *)
(* request at a time; the device handles each request at most once, now    *)
(* or later; a request counts as answered only if the device handled that  *)
(* very request, and an unanswered one is given up for good.               *)
(***************************************************************************)
CONSTANT Ids   \* identities of requests

VARIABLES
    phase,     \* phase of each request
    handled    \* the requests the device has handled

Init ==
    /\ phase = [i \in Ids |-> "Unsent"]
    /\ handled = {}

Sign(i) ==
    /\ phase[i] = "Unsent"
    /\ \A j \in Ids : phase[j] # "Open"
    /\ phase' = [phase EXCEPT ![i] = "Open"]
    /\ UNCHANGED handled

Handle(i) ==
    /\ phase[i] # "Unsent"
    /\ i \notin handled
    /\ handled' = handled \cup {i}
    /\ UNCHANGED phase

Answer(i) ==
    /\ phase[i] = "Open"
    /\ i \in handled
    /\ phase' = [phase EXCEPT ![i] = "Answered"]
    /\ UNCHANGED handled

GiveUp(i) ==
    /\ phase[i] = "Open"
    /\ phase' = [phase EXCEPT ![i] = "GivenUp"]
    /\ UNCHANGED handled

Next == \E i \in Ids : Sign(i) \/ Handle(i) \/ Answer(i) \/ GiveUp(i)

Spec == Init /\ [][Next]_<<phase, handled>>
=============================================================================

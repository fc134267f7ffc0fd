----------------------------- MODULE StartBarrier -----------------------------
(***************************************************************************)
(* What the distributed schedule promises of the devices: a participant    *)
(* gets start authority only when every participant holds the job's commit *)
(* - installed, or installed and ended since - and a participant that      *)
(* ended, by abort, expiry or fault, never comes back.                     *)
(***************************************************************************)

CONSTANT Participants

VARIABLE state

States == {"Free", "Installed", "Started", "Ended"}

Init == state = [p \in Participants |-> "Free"]

Install(p) ==
    /\ state[p] = "Free"
    /\ state' = [state EXCEPT ![p] = "Installed"]

Start(p) ==
    /\ state[p] = "Installed"
    /\ \A q \in Participants : state[q] # "Free"
    /\ state' = [state EXCEPT ![p] = "Started"]

End(p) ==
    /\ state[p] \in {"Installed", "Started"}
    /\ state' = [state EXCEPT ![p] = "Ended"]

Next == \E p \in Participants : Install(p) \/ Start(p) \/ End(p)

Spec == Init /\ [][Next]_state
=============================================================================

--------------------------- MODULE MCControlWorker ---------------------------
(* Two connections and a job over one or both of them; generations enough to  *)
(* replace a connection whose task is under way.                              *)
EXTENDS ControlWorker

CONSTANTS c1, c2

\* An admitted start ends, a configured connection recovers, and a job of one participant
\* gets on, although heartbeats compete for the same connections at every tick.
WorkGoesOn == StartEnds /\ Recovers /\ JobOfOneProgresses
=============================================================================

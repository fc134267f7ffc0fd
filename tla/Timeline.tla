------------------------------- MODULE Timeline -------------------------------
(***************************************************************************)
(* What the editor's history promises: one line of sessions and a place on *)
(* it.  A change forgets what had been undone, undo and redo move along    *)
(* the line and change nothing on it.  Only when a bound is exceeded are   *)
(* sessions forgotten, then no more than the bounds require, the oldest    *)
(* first and the ones furthest ahead when none is behind.                  *)
(***************************************************************************)
EXTENDS Naturals, Sequences, SequencesExt

CONSTANTS
    Weight(_),      \* what a session counts against the second bound
    MaxEachWay,     \* sessions kept behind, and sessions kept ahead
    MaxWeight       \* weight of all of them; the present one counts for nothing

VARIABLES timeline, at

Past == SubSeq(timeline, 1, at - 1)
Present == timeline[at]
Future == SubSeq(timeline, at + 1, Len(timeline))

WeightOf(line) ==
    LET sum[n \in 0..Len(line)] == IF n = 0 THEN 0 ELSE sum[n - 1] + Weight(line[n])
    IN  sum[Len(line)]

\* "line" without the "behind" sessions that come first, without the "ahead" that come last.
Cut(line, behind, ahead) == SubSeq(line, behind + 1, Len(line) - ahead)

\* The ways to forget that leave both bounds kept.
Fits(past, future, behind, ahead) ==
    /\ Len(past) - behind <= MaxEachWay /\ Len(future) - ahead <= MaxEachWay
    /\ WeightOf(Cut(past, behind, 0)) + WeightOf(Cut(future, 0, ahead)) <= MaxWeight

\* The session "now" between "past" and "future", with as little forgotten as fits: what
\* lies ahead is forgotten for its weight only when nothing is left behind.
Keep(past, now, future) ==
    \E behind \in 0..Len(past), ahead \in 0..Len(future) :
        /\ Fits(past, future, behind, ahead)
        /\ behind > 0 => ~Fits(past, future, behind - 1, ahead) \/ behind = Len(past)
        /\ ahead > 0 => ~Fits(past, future, behind, ahead - 1)
        /\ (ahead > 0 /\ Len(future) - ahead < MaxEachWay) => behind = Len(past)
        /\ timeline' = Cut(past, behind, 0) \o <<now>> \o Cut(future, 0, ahead)
        /\ at' = Len(past) - behind + 1

Change == Keep(Append(Past, Present), timeline'[at'], <<>>)
Undo == Past # <<>> /\ Keep(Front(Past), Last(Past), <<Present>> \o Future)
Redo == Future # <<>> /\ Keep(Append(Past, Present), Head(Future), Tail(Future))
Restart == Len(timeline') = 1 /\ at' = 1

Next == Change \/ Undo \/ Redo \/ Restart

Spec == Len(timeline) = 1 /\ at = 1 /\ [][Next]_<<timeline, at>>
=============================================================================

---------------------------- MODULE MCHttpSession ----------------------------
(* Two subjects, sequences and correlations that wrap after two requests, and *)
(* counters of which the last ones are within reach.                          *)
EXTENDS HttpSession, TLC

Symmetry == Permutations(Subjects)
=============================================================================

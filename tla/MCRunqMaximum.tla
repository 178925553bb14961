---------------------------- MODULE MCRunqMaximum ----------------------------
(* An instance of RunqMaximum for TLC. *)
EXTENDS RunqMaximum, TLC

CONSTANTS c1, c2, p1, p2, g1

TwoCPUs == {c1, c2}
TwoPids == {p1, p2}
OneCgroup == {g1}
NoFaults == {}

Symmetry == Permutations(CPUs) \cup Permutations(Pids)
==============================================================================

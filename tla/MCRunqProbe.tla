----------------------------- MODULE MCRunqProbe -----------------------------
(* Instances of RunqProbe for TLC. *)
EXTENDS RunqProbe, TLC

CONSTANTS c1, c2, p1, p2, g1

OneCPU == {c1}
TwoCPUs == {c1, c2}
OnePid == {p1}
TwoPids == {p1, p2}
OneCgroup == {g1}
NoFaults == {}

Symmetry == Permutations(CPUs) \cup Permutations(Pids)
==============================================================================

---------------------------- MODULE MCRunqLatency ----------------------------
(* An instance of RunqLatency for TLC. *)
EXTENDS RunqLatency

CONSTANTS c1, p1, p2, g1

OneCPU == {c1}
TwoPids == {p1, p2}
OneCgroup == {g1}
NoFaults == {}
==============================================================================

----------------------------- MODULE MCRunqCharge -----------------------------
(* An instance of RunqCharge for TLC. *)
EXTENDS RunqCharge

CONSTANTS c1, p1, p2, g1

OneCPU == {c1}
TwoPids == {p1, p2}
OneCgroup == {g1}
AllFaults == {"spurious", "missed_switch"}
==============================================================================

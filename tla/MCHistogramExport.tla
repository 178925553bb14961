-------------------------- MODULE MCHistogramExport --------------------------
(* An instance of HistogramExport for TLC. *)
EXTENDS HistogramExport

CONSTANTS c1, p1, p2, g1

OneCPU == {c1}
TwoPids == {p1, p2}
OneCgroup == {g1}
NoFaults == {}
==============================================================================

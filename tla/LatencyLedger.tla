---------------------------- MODULE LatencyLedger ----------------------------
(***************************************************************************)
(* What the run-queue latency histogram promises, without its maps, its    *)
(* handlers or its CPUs: a wait worth recording ends and is owed to a key; *)
(* a count is only ever added for a wait that is owed, one at a time, and  *)
(* is never taken back.  A wait may stay uncounted; no count is invented.  *)
(***************************************************************************)
EXTENDS Naturals

CONSTANT Keys

VARIABLES due,      \* waits that ended, by key
          counted   \* waits that the histogram counts, by key

Init ==
    /\ due = [k \in Keys |-> 0]
    /\ counted = [k \in Keys |-> 0]

WaitEnds(k) ==
    /\ due' = [due EXCEPT ![k] = @ + 1]
    /\ UNCHANGED counted

Count(k) ==
    /\ counted[k] < due[k]
    /\ counted' = [counted EXCEPT ![k] = @ + 1]
    /\ UNCHANGED due

Next == \E k \in Keys : WaitEnds(k) \/ Count(k)

Spec == Init /\ [][Next]_<<due, counted>>
==============================================================================

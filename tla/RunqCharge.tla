------------------------------ MODULE RunqCharge ------------------------------
(***************************************************************************)
(* What a task may be charged with when tracepoints are missed or          *)
(* spurious, clocks disagree and pids are reused: the kernel side of       *)
(* RunqLatency with a history of what the programs got to see of each pid. *)
(***************************************************************************)
EXTENDS RunqLatency

VARIABLE seenAt     \* history: when a CPU last switched to the pid, or its task
                    \* exited, with the program run for it

Seen(p) ==
    \/ \E c \in CPUs, prev \in Pids \cup {Idle} : Switch(c, prev, p)
    \/ \E c \in CPUs : Exit(c, p)

ChargeInit == Init /\ seenAt = [p \in Pids |-> 0]

ChargeNext ==
    /\ Next
    /\ seenAt' = [p \in Pids |-> IF Seen(p) THEN clock ELSE seenAt[p]]

ChargeSpec == ChargeInit /\ [][ChargeNext]_<<vars, seenAt>>

LiveChargeSpec == ChargeSpec /\ Fairness
------------------------------------------------------------------------------
\* CPU c, switching to p, goes on to record a latency.
Charges(c, p) == handler[c] = None /\ handler'[c] # None /\ running'[c] = p

\* However stale the timestamp that a switch finds, the latency recorded for it
\* does not reach back beyond the last time the programs saw its pid (no stamp
\* survives a switch or an exit that is seen, and no backwards clock reading wraps
\* into the record), nor does it fall short of the wait that ends (no later wakeup
\* renews the stamp).  Both hold up to Skew.
ChargeBounded ==
    [][\A c \in CPUs, p \in Pids : Charges(c, p) =>
          /\ handler'[c].lat <= clock - seenAt[p] + Skew
          /\ wokeAt[p] # None => handler'[c].lat >= clock - wokeAt[p] - Skew]_<<vars, seenAt>>
==============================================================================

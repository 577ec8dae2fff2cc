-------------------------- MODULE SessionContract --------------------------
(* What every surface promises the host about one session or request: it is *)
(* admitted once, opens at most one lease and only while admitted, gives    *)
(* the admission back with no lease open, and hands out a final transcript  *)
(* only for a lease that was completed while it was admitted.               *)
VARIABLES
    admission,  \* "before", "during" or "after" the host's admission
    lease,      \* "none", "live" or "settled"
    served      \* a final transcript was produced

vars == <<admission, lease, served>>

Init == admission = "before" /\ lease = "none" /\ served = FALSE

Admit == /\ admission = "before" /\ admission' = "during"
         /\ UNCHANGED <<lease, served>>

Refuse == /\ admission = "before" /\ admission' = "after"
          /\ UNCHANGED <<lease, served>>

Open == /\ admission = "during" /\ lease = "none" /\ lease' = "live"
        /\ UNCHANGED <<admission, served>>

\* The lease is completed, aborted, or was never obtained; a session that
\* gives up may return its admission in the same step.
Settle == /\ admission = "during" /\ lease \in {"none", "live"} /\ lease' = "settled"
          /\ admission' \in {"during", "after"}
          /\ UNCHANGED served

Serve == /\ admission = "during" /\ lease = "live" /\ lease' = "settled"
         /\ served' = TRUE
         /\ UNCHANGED admission

Release == /\ admission = "during" /\ lease # "live" /\ admission' = "after"
           /\ UNCHANGED <<lease, served>>

Next == Admit \/ Refuse \/ Open \/ Settle \/ Serve \/ Release

Spec == Init /\ [][Next]_vars
=============================================================================

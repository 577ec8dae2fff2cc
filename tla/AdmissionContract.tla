------------------------- MODULE AdmissionContract --------------------------
(* What the plugin relies on when it asks the load shed gate for a seat:    *)
(* at most MaxSessions seats are taken at a time, a session has at most     *)
(* one, the registry knows every session that may still work on it, and     *)
(* nobody sits down once admission is closed.  A seat may be given back     *)
(* after its session left the registry, and one may never come back.        *)
EXTENDS Naturals, FiniteSets

CONSTANTS Sessions, MaxSessions

VARIABLES open,     \* admission has not been closed
          taken,    \* the seats counted as taken, by session
          present   \* the sessions drain will find

vars == <<open, taken, present>>

Init == open = TRUE /\ taken = {} /\ present = {}

Admit(s) == /\ open /\ s \notin taken /\ Cardinality(taken) < MaxSessions
            /\ taken' = taken \cup {s} /\ present' = present \cup {s}
            /\ UNCHANGED open

\* The session leaves the registry, at once with its seat or before it.
Depart(s) == /\ s \in present /\ present' = present \ {s}
             /\ taken' \in {taken, taken \ {s}}
             /\ UNCHANGED open

\* A seat that stayed taken is given back.
Return(s) == /\ s \in taken \ present /\ taken' = taken \ {s}
             /\ UNCHANGED <<open, present>>

Close == /\ open' = FALSE
         /\ UNCHANGED <<taken, present>>

Next == Close \/ \E s \in Sessions : Admit(s) \/ Depart(s) \/ Return(s)

Spec == Init /\ [][Next]_vars
=============================================================================

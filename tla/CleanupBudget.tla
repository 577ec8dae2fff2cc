--------------------------- MODULE CleanupBudget ---------------------------
(* The time of one abnormal cleanup (lease.py: _bounded_cleanup and         *)
(* _release_after_abort), on a discrete clock that is exact: a wait_for     *)
(* fires at the tick it is due and no step of the loop takes time.  Whatever *)
(* is exceeded here is exceeded on a slower loop too.  The order of the     *)
(* calls, and what else may end them, is DirectLeaseOwner's.                *)
EXTENDS Naturals

CONSTANT CleanupTimeout     \* session_cleanup_timeout, in ticks

VARIABLES
    stage,      \* the call waited for
    timer,      \* ticks in its wait_for
    spent,      \* ticks since abort was called
    fault       \* a cleanup fault was reported

vars == <<stage, timer, spent, fault>>

TypeOK == /\ stage \in {"aborting", "releasing", "ended"}
          /\ timer \in 0..CleanupTimeout
          /\ spent \in Nat /\ fault \in BOOLEAN

\* cancel(), a failed complete() or a cancelled open() that got its lease.
Init == stage = "aborting" /\ timer = 0 /\ spent = 0 /\ fault = FALSE

Due == timer = CleanupTimeout

Tick == /\ stage # "ended" /\ ~Due
        /\ timer' = timer + 1 /\ spent' = spent + 1
        /\ UNCHANGED <<stage, fault>>

\* _bounded_cleanup reports whatever its wait raises.
Report == fault' = TRUE

\* abort returned, failed or was interrupted: release has a wait_for of its own.
AbortEnds == /\ stage = "aborting" /\ stage' = "releasing"
             /\ timer' = 0 /\ UNCHANGED spent
             /\ UNCHANGED fault \/ Report

ReleaseEnds == /\ stage = "releasing" /\ stage' = "ended"
               /\ UNCHANGED <<timer, spent>>
               /\ UNCHANGED fault \/ Report

\* The wait_for expires: no call may follow the one that is overdue.
Expires == /\ stage # "ended" /\ Due /\ stage' = "ended"
           /\ UNCHANGED <<timer, spent>>
           /\ Report

Next == Tick \/ AbortEnds \/ ReleaseEnds \/ Expires

Spec == Init /\ [][Next]_vars

-----------------------------------------------------------------------------
\* docs/configuration.md:69 "Seconds allowed for abnormal-path lease
\* abort-and-release cleanup before it is reported as a cleanup fault.": one
\* session_cleanup_timeout after abort was called the cleanup is over or reported.
CleanupWithinTimeout == spent > CleanupTimeout => fault
=============================================================================

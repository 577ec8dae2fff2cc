---------------------------- MODULE OwnerOutcome -----------------------------
(* What the rest of the plugin sees of one DirectLeaseOwner: how far its    *)
(* lease has come, and whether a cleanup fault was reported on the way.     *)
(* The plugin's model moves the lease of a session by these moves; the      *)
(* owner's model implements them, await by await.                           *)
(*                                                                          *)
(*   none opening live closing closed   a session that goes well            *)
(*   settling     open() was interrupted, the owner waits for the engine    *)
(*   late         that wait expired: the background task has the open       *)
(*   failing      abort failed or was interrupted, release is being tried   *)
(*   lateFailing  the same in the background task                           *)
(*   stuck        cleanup is over and failed                                *)
(*   lost         nobody waits for the open any more                        *)
VARIABLES outcome, reported

vars == <<outcome, reported>>

\* Moves nobody is told about.  A lost open may turn out to have failed.
QuietMoves == {
    <<"none", "opening">>, <<"opening", "live">>, <<"live", "closing">>,
    <<"closing", "closed">>, <<"opening", "closed">>,
    <<"opening", "settling">>, <<"settling", "closing">>,
    <<"settling", "closed">>, <<"settling", "lost">>, <<"lost", "closed">>,
    <<"late", "closed">>, <<"failing", "stuck">>, <<"lateFailing", "stuck">> }

\* Moves that come with a report to the host.
ReportedMoves == {
    <<"settling", "late">>, <<"closing", "failing">>, <<"closing", "stuck">>,
    <<"failing", "stuck">>, <<"late", "lateFailing">>, <<"late", "stuck">>,
    <<"lateFailing", "stuck">> }

Init == outcome = "none" /\ reported = FALSE

Quietly == <<outcome, outcome'>> \in QuietMoves /\ UNCHANGED reported

Reporting == <<outcome, outcome'>> \in ReportedMoves /\ reported' = TRUE

Next == Quietly \/ Reporting

Spec == Init /\ [][Next]_vars
=============================================================================

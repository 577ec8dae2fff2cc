--------------------------- MODULE LeaseContract ---------------------------
(* What one engine lease may be asked to do over its life, whoever asks: it *)
(* is opened once, then closed in one of two directions.  The normal one is *)
(* finish and then release; the abnormal one is abort and then release.     *)
(* The two directions exclude each other and no call is made twice.         *)
VARIABLES
    opened,     \* the engine has handed out the lease
    closing     \* the closing calls made on it (finish counts once it succeeded)

vars == <<opened, closing>>

Init == opened = FALSE /\ closing = {}

Open == ~opened /\ opened' = TRUE /\ UNCHANGED closing

\* A successful finish commits the normal direction; release follows at once.
FinishAndRelease == /\ opened /\ closing = {}
                    /\ closing' = {"finish", "release"} /\ UNCHANGED opened

Abort == /\ opened /\ closing = {}
         /\ closing' = {"abort"} /\ UNCHANGED opened

ReleaseAborted == /\ closing = {"abort"}
                  /\ closing' = {"abort", "release"} /\ UNCHANGED opened

Next == Open \/ FinishAndRelease \/ Abort \/ ReleaseAborted

Spec == Init /\ [][Next]_vars
=============================================================================

--------------------------- MODULE OwnerInvariant ---------------------------
(* The inductive invariant of DirectLeaseOwner: what holds at each await of *)
(* lease.py, at each value of _terminal, and of the background cleanup.     *)
EXTENDS DirectLeaseOwner

Idle(cs) == \A c \in cs : call[c] = "none"

\* The lock is held exactly between the first and the last await of a body.
LockInv == \A t \in Tasks : (at[t] \in Inside <=> lock = t) /\ at[t] # "late"

\* The background task exists only after an overdue open, and alone.
LateInv ==
    /\ at[Late] \in {"idle", "late", "aborting", "releasing"}
    /\ at[Late] # "idle" => /\ lock = None /\ terminal = "abnormal"
                            /\ started /\ "open" \in faults
    /\ at[Late] = "late" => Idle({"abort", "release"})

\* What an actor relies on at each await.
SiteInv == \A a \in Actors :
    /\ at[a] = "opening" => started /\ ~lease /\ terminal = "none"
    /\ at[a] = "settling" => /\ ~lease /\ terminal = "abnormal" /\ cancels >= 1
                             /\ Idle({"abort", "release"})
    /\ at[a] \in {"working", "flushing", "finishing"} => Usable
    /\ at[a] \in {"opening", "settling", "working"} => Idle({"flush", "finish"})
    /\ at[a] = "flushing" => call["flush"] = "running" /\ Idle({"finish"})
    /\ at[a] = "finishing" => call["flush"] = "ok" /\ call["finish"] = "running"
    /\ at[a] = "finalizing" => terminal = "normal_finishing"
    /\ at[a] = "aborting" => /\ terminal = "abnormal" /\ Idle({"release"})
                             /\ call["open"] = "ok" /\ ~Idle({"abort"})
    /\ at[a] = "releasing" => terminal = "abnormal" /\ ~Idle({"abort"}) /\ ~Idle({"release"})

\* The open call and the flags of open().
OpenInv == /\ started <=> ~Idle({"open"})
           /\ ~started => terminal = "none"
           /\ lease => call["open"] = "ok"

\* Before a direction is chosen, only a complete() in progress has closing calls.
UndecidedInv ==
    terminal = "none" =>
        /\ Idle({"abort", "release"}) /\ faults = {}
        /\ ~Idle({"flush", "finish"}) => \E t \in Tasks : at[t] \in {"flushing", "finishing"}

\* The normal direction: finish succeeded and abort is out of the question.
NormalInv ==
    /\ terminal = "normal_finishing" => /\ \E t \in Tasks : at[t] = "finalizing"
                                        /\ faults = {}
    /\ terminal = "normal" => call["release"] = "ok" /\ faults = {}
    /\ terminal \in NormalTerminals =>
          /\ call["open"] = "ok" /\ call["flush"] = "ok" /\ call["finish"] = "ok"
          /\ Idle({"abort"}) /\ ~Idle({"release"})
    /\ \A t \in Tasks : got[t] = "tail" => terminal = "normal"

\* The abnormal direction: finish never succeeded, release only follows abort.
AbnormalInv ==
    /\ terminal = "abnormal" => /\ call["flush"] # "running"
                                /\ call["finish"] \in {"none", "failed"}
                                /\ ~Idle({"release"}) => ~Idle({"abort"})
                                /\ ~Idle({"abort"}) => call["open"] = "ok"
    /\ ~Idle({"abort"}) /\ ~Idle({"release"})
          => call["abort"] = "ok" \/ "abort" \in faults

IInv == /\ TypeOK /\ LockInv /\ LateInv /\ SiteInv /\ OpenInv
        /\ UndecidedInv /\ NormalInv /\ AbnormalInv /\ SilentMeansClean

\* A fault is reported only for a call that was made, and an overdue open is
\* over when the background task is; on top of IInv this ties the outcome of a
\* session to its reports.
FaultInv ==
    /\ "abort" \in faults => ~Idle({"abort"})
    /\ "release" \in faults => ~Idle({"release"})
    /\ "open" \in faults => /\ \A t \in Tasks : at[t] # "settling"
                            /\ at[Late] # "idle" \/ call["open"] # "running"
=============================================================================

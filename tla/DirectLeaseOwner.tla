-------------------------- MODULE DirectLeaseOwner --------------------------
(* One DirectLeaseOwner: the object every dialect session uses to drive its *)
(* engine lease (src/src/vllm_riva_frontend/lease.py).  Several asyncio     *)
(* tasks may call its methods; one asyncio.Lock serializes them, except for *)
(* the background task that closes a lease which opened too late.           *)
(*                                                                          *)
(* A step runs a task from one await to the next.  at[a] is the await a     *)
(* stands at, op[a] the method it is in, got[a] how its last call ended.    *)
(* open, abort and release run in tasks of their own under asyncio.shield,  *)
(* so they go on after the owner stopped waiting; flush, finish, feed and   *)
(* update_locale run in the calling task and end with its await.  Every     *)
(* await of a caller may be interrupted by a task cancellation, MaxCancels  *)
(* times in all, and every wait_for may expire at any moment, also when its *)
(* operation has just ended.                                                *)
(* A mutant is a plausible mistake in the definition that follows it; the   *)
(* model never uses it.                                                     *)
EXTENDS Naturals, FiniteSets

CONSTANTS
    Tasks,          \* the asyncio tasks that call the owner
    Late,           \* the background task of _track_late_open
    None,           \* no holder of the lock
    MaxCancels      \* bound: task cancellations delivered to callers

ASSUME OwnerAssumption == /\ Late \notin Tasks
                          /\ None \notin Tasks \cup {Late}
                          /\ MaxCancels \in Nat

VARIABLES
    at, op, got,    \* per task: the await, the method, the outcome
    lock,           \* holder of _lock
    started,        \* _open_started
    lease,          \* _lease is not None
    terminal,       \* _terminal
    call,           \* the calls made on the factory and the lease
    faults,         \* operations whose cleanup fault was reported to the host
    cancels         \* task cancellations delivered so far

own  == <<started, lease, terminal>>
rest == <<own, call, faults, cancels>>
vars == <<at, op, got, lock, started, lease, terminal, call, faults, cancels>>

Actors   == Tasks \cup {Late}
Methods  == {"open", "feed", "update_locale", "complete", "cancel"}
Pieces   == {"feed", "update_locale"}
Shielded == {"open", "abort", "release"}
Calls    == Shielded \cup {"flush", "finish"}
Inside   == {"opening", "settling", "working", "flushing", "finishing",
             "finalizing", "aborting", "releasing"}
Awaits   == Inside \cup {"idle", "lock", "late"}
Outcomes == {"none", "done", "tail", "null", "raised"}
NormalTerminals == {"normal_finishing", "normal", "normal_failed"}
Terminals == NormalTerminals \cup {"none", "abnormal"}

TypeOK == /\ at \in [Actors -> Awaits]
          /\ op \in [Actors -> Methods \cup {"none", "late"}]
          /\ got \in [Actors -> Outcomes]
          /\ lock \in Tasks \cup {None}
          /\ started \in BOOLEAN /\ lease \in BOOLEAN
          /\ terminal \in Terminals
          /\ call \in [Calls -> {"none", "running", "ok", "failed"}]
          /\ faults \subseteq Shielded
          /\ cancels \in 0..MaxCancels

Init == /\ at = [a \in Actors |-> "idle"]
        /\ op = [a \in Actors |-> IF a = Late THEN "late" ELSE "none"]
        /\ got = [a \in Actors |-> "none"]
        /\ lock = None
        /\ started = FALSE /\ lease = FALSE /\ terminal = "none"
        /\ call = [c \in Calls |-> "none"]
        /\ faults = {} /\ cancels = 0

-----------------------------------------------------------------------------
\* Moves of a task between its awaits.

Entered(t, m) == at[t] = "lock" /\ op[t] = m /\ lock = None

Await(a, site) == at' = [at EXCEPT ![a] = site] /\ UNCHANGED <<op, got>>

Hold(t, site) == Await(t, site) /\ lock' = t

Return(a, r) == /\ at' = [at EXCEPT ![a] = "idle"]
                /\ got' = [got EXCEPT ![a] = r]
                /\ lock' = IF lock = a THEN None ELSE lock
                /\ UNCHANGED op

Mark(c, s) == call' = [call EXCEPT ![c] = s]

Report(c) == faults' = faults \cup {c}

\* No direction was chosen yet and there is a lease to work on.
WhileOpen == lease      \* mutant: _terminal is not checked
Usable == lease /\ terminal = "none"

\* release() returned in time.
Unchecked == TRUE       \* mutant: release is not awaited
Released == call["release"] = "ok"

\* A shielded call ends, whoever still waits for it.
Settle(c) == /\ call[c] = "running"
             /\ \E s \in {"ok", "failed"} : Mark(c, s)
             /\ UNCHANGED <<at, op, got, lock, own, faults, cancels>>

\* A task calls a method and reaches `async with self._lock`.
Invoke(t, m) == /\ at[t] = "idle"
                /\ at' = [at EXCEPT ![t] = "lock"]
                /\ op' = [op EXCEPT ![t] = m]
                /\ got' = [got EXCEPT ![t] = "none"]
                /\ UNCHANGED <<lock, own, call, faults, cancels>>

\* The early returns and refusals of every method, under the lock.
EarlyReturn(t) ==
    /\ \/ Entered(t, "open") /\ started /\ Return(t, "raised")
       \/ \E m \in Pieces : Entered(t, m) /\ ~Usable /\ Return(t, "raised")
       \/ Entered(t, "complete") /\ terminal = "normal" /\ Return(t, "tail")
       \/ Entered(t, "complete") /\ terminal = "abnormal" /\ Return(t, "null")
       \/ Entered(t, "complete") /\ terminal = "normal_failed" /\ Return(t, "raised")
       \/ Entered(t, "cancel") /\ terminal # "none" /\ Return(t, "done")
       \/ /\ \E m \in {"complete", "cancel"} : Entered(t, m)
          /\ terminal = "none" /\ ~lease /\ Return(t, "raised")
    /\ UNCHANGED rest

-----------------------------------------------------------------------------
\* open().

Open(t) == /\ Entered(t, "open") /\ ~started
           /\ started' = TRUE
           /\ Mark("open", "running") /\ Hold(t, "opening")
           /\ UNCHANGED <<lease, terminal, faults, cancels>>

OpenReturns(t) ==
    /\ at[t] = "opening"
    /\ \/ /\ call["open"] = "ok"
          /\ lease' = TRUE /\ Return(t, "done") /\ UNCHANGED terminal
       \/ /\ call["open"] = "failed"
          /\ terminal' = "abnormal" /\ Return(t, "raised") /\ UNCHANGED lease
    /\ UNCHANGED <<started, call, faults, cancels>>

\* The lease arrives within cleanup_timeout after a cancelled open.
OpenSettles(t) ==
    /\ at[t] = "settling"
    /\ \/ /\ call["open"] = "ok"
          /\ lease' = TRUE
          /\ Mark("abort", "running") /\ Await(t, "aborting") /\ UNCHANGED lock
       \/ /\ call["open"] = "failed"
          /\ Return(t, "raised") /\ UNCHANGED <<lease, call>>
    /\ UNCHANGED <<started, terminal, faults, cancels>>

\* Mutant: the overdue open is dropped, as after a second interruption.
OpenOverdueDropped(t) == /\ at[t] = "settling" /\ Return(t, "raised")
                         /\ UNCHANGED rest

\* cleanup_timeout expires first: _track_late_open takes the open over.
OpenOverdue(t) ==
    /\ at[t] = "settling"
    /\ at' = [at EXCEPT ![t] = "idle", ![Late] = "late"]
    /\ got' = [got EXCEPT ![t] = "raised"]
    /\ lock' = None
    /\ Report("open")
    /\ UNCHANGED <<op, own, call, cancels>>

LateOpen ==
    /\ at[Late] = "late"
    /\ \/ /\ call["open"] = "ok"
          /\ Mark("abort", "running") /\ Await(Late, "aborting")
          /\ UNCHANGED <<lock, faults>>
       \/ /\ call["open"] = "failed"
          /\ Return(Late, "none") /\ Report("open") /\ UNCHANGED call
    /\ UNCHANGED <<own, cancels>>

-----------------------------------------------------------------------------
\* feed() and update_locale(): the lease call runs under the lock.

Work(t) == /\ \E m \in Pieces : Entered(t, m)
           /\ Usable /\ Hold(t, "working")
           /\ UNCHANGED rest

WorkReturns(t) == /\ at[t] = "working"
                  /\ \E r \in {"done", "raised"} : Return(t, r)
                  /\ UNCHANGED rest

-----------------------------------------------------------------------------
\* complete(): flush, finish, release; abort and release when either fails.

Complete(t) == /\ Entered(t, "complete")
               /\ terminal \notin {"normal", "normal_failed", "abnormal"} /\ lease
               /\ Mark("flush", "running") /\ Hold(t, "flushing")
               /\ UNCHANGED <<own, faults, cancels>>

Flushed(t) == /\ at[t] = "flushing"
              /\ call' = [call EXCEPT !["flush"] = "ok", !["finish"] = "running"]
              /\ Await(t, "finishing")
              /\ UNCHANGED <<lock, own, faults, cancels>>

Finished(t) == /\ at[t] = "finishing"
               /\ call' = [call EXCEPT !["finish"] = "ok", !["release"] = "running"]
               /\ terminal' = "normal_finishing"
               /\ Await(t, "finalizing")
               /\ UNCHANGED <<lock, started, lease, faults, cancels>>

\* flush or finish raises: an engine error, a malformed terminal shape, or a
\* task cancellation thrown into the lease call.
TurnAbnormal(t) ==
    \E c \in {"flush", "finish"} :
        /\ at[t] = IF c = "flush" THEN "flushing" ELSE "finishing"
        /\ terminal' = "abnormal"
        /\ call' = [call EXCEPT ![c] = "failed", !["abort"] = "running"]
        /\ Await(t, "aborting")
        /\ UNCHANGED <<lock, started, lease, faults>>

FlushOrFinishFails(t) == TurnAbnormal(t) /\ UNCHANGED cancels

Finalized(t) ==
    /\ at[t] = "finalizing"
    /\ Released
    /\ terminal' = "normal" /\ Return(t, "tail")
    /\ UNCHANGED <<started, lease, call, faults, cancels>>

\* release failed, timed out or was interrupted after a successful finish.
NormalFails(t) ==
    /\ at[t] = "finalizing"
    /\ terminal' = "normal_failed" /\ Report("release") /\ Return(t, "raised")
    /\ UNCHANGED <<started, lease, call>>

FinalizationFails(t) == NormalFails(t) /\ UNCHANGED cancels

-----------------------------------------------------------------------------
\* cancel(), and _release_after_abort for whoever runs it.

Cancel(t) == /\ Entered(t, "cancel")
             /\ Usable
             /\ terminal' = "abnormal"
             /\ Mark("abort", "running") /\ Hold(t, "aborting")
             /\ UNCHANGED <<started, lease, faults, cancels>>

BeginRelease(a) == /\ Mark("release", "running") /\ Await(a, "releasing")
                   /\ UNCHANGED lock

AbortReturns(a) ==
    /\ at[a] = "aborting" /\ call["abort"] = "ok"
    /\ BeginRelease(a)
    /\ UNCHANGED <<own, faults, cancels>>

\* abort raised: release still follows, unless what it raised is a timeout.
AbortFails(a) ==
    /\ at[a] = "aborting" /\ call["abort"] = "failed"
    /\ Report("abort")
    /\ \/ BeginRelease(a)
       \/ Return(a, "raised") /\ UNCHANGED call
    /\ UNCHANGED <<own, cancels>>

\* Mutant: after a timeout of abort, release is tried all the same.
AbortOverdueReleasing(a) == /\ at[a] = "aborting" /\ BeginRelease(a)
                            /\ UNCHANGED <<own, faults, cancels>>

\* Mutant: abort is awaited without a timer.
AbortUntimed(a) == /\ at[a] = "aborting" /\ call["abort"] = "failed"
                   /\ Report("abort") /\ Return(a, "raised")
                   /\ UNCHANGED <<own, call, cancels>>

\* cleanup_timeout expires: abort may still run, so release is not attempted.
AbortOverdue(a) ==
    /\ at[a] = "aborting"
    /\ Report("abort") /\ Return(a, "raised")
    /\ UNCHANGED <<own, call, cancels>>

\* Only a cancel() whose abort raised nothing returns; every other caller
\* re-raises what led it here.
ReleaseReturns(a) ==
    /\ at[a] = "releasing" /\ Released
    /\ Return(a, IF op[a] = "cancel" /\ "abort" \notin faults
                 THEN "done" ELSE "raised")
    /\ UNCHANGED rest

ReleaseRaises(a) ==
    /\ at[a] = "releasing"
    /\ Report("release") /\ Return(a, "raised")
    /\ UNCHANGED <<own, call>>

ReleaseFails(a) == ReleaseRaises(a) /\ UNCHANGED cancels

-----------------------------------------------------------------------------
\* A cancellation of the calling task reaches the await it stands at.

\* A waiting call or a piece of work just ends.  So does an open() already
\* waiting for its overdue lease: that lease is neither closed nor tracked.
Unwinds(t) == /\ at[t] \in {"lock", "working", "settling"}
              /\ Return(t, "raised") /\ UNCHANGED <<own, call, faults>>

\* The engine goes on opening, and open() waits cleanup_timeout for it.
OpenInterrupted(t) == /\ at[t] = "opening"
                      /\ terminal' = "abnormal" /\ Await(t, "settling")
                      /\ UNCHANGED <<lock, started, lease, call, faults>>

\* A CancelledError is not the TimeoutError that would stop before release.
AbortInterrupted(t) == /\ at[t] = "aborting"
                       /\ Report("abort") /\ BeginRelease(t) /\ UNCHANGED own

Interrupt(t) == /\ cancels < MaxCancels
                /\ cancels' = cancels + 1
                /\ \/ Unwinds(t) \/ OpenInterrupted(t) \/ TurnAbnormal(t)
                   \/ NormalFails(t) \/ AbortInterrupted(t) \/ ReleaseRaises(t)

-----------------------------------------------------------------------------
Closing(a) == \/ AbortReturns(a) \/ AbortFails(a) \/ AbortOverdue(a)
              \/ ReleaseReturns(a) \/ ReleaseFails(a)

\* The steps of a task that no engine call can hold up for ever.
Bounded(t) == \/ OpenSettles(t) \/ OpenOverdue(t)
              \/ Finalized(t) \/ FinalizationFails(t)
              \/ Closing(t)

Step(t) == \/ \E m \in Methods : Invoke(t, m)
           \/ EarlyReturn(t) \/ Open(t) \/ OpenReturns(t)
           \/ Work(t) \/ WorkReturns(t)
           \/ Complete(t) \/ Flushed(t) \/ Finished(t) \/ FlushOrFinishFails(t)
           \/ Cancel(t) \/ Bounded(t) \/ Interrupt(t)

Next == \/ \E t \in Tasks : Step(t)
        \/ LateOpen \/ Closing(Late)
        \/ \E c \in Shielded : Settle(c)

Spec == Init /\ [][Next]_vars

\* Timers fire and a task whose await ended is resumed; the engine owes
\* nothing, and nobody is obliged to call the owner.
FairSpec == /\ Spec
            /\ \A t \in Tasks : WF_vars(Bounded(t))
            /\ WF_vars(LateOpen) /\ WF_vars(Closing(Late))

-----------------------------------------------------------------------------
\* A factory or lease call that was made is never made again, whatever is
\* retried, interrupted or called concurrently (lease.py:193-196, 261-263).
CallOnce ==
    [][\A c \in Calls : call'[c] = "running" => call[c] \in {"none", "running"}]_vars

\* The lease calls in progress.
InFlight == {c \in Calls \ {"open"} : call[c] = "running"}
                \cup {op[t] : t \in {u \in Tasks : at[u] = "working"}}

\* Two calls run on one lease at a time only when a caller was interrupted
\* inside abort, and then the host has been told (lease.py:137-158).
OverlapReported ==
    \A c, d \in InFlight : c # d => {c, d} = {"abort", "release"} /\ "abort" \in faults

\* Nobody is in a method and no background cleanup is pending.
Quiet == lock = None /\ at[Late] = "idle"

\* A session that ended abnormally, after at most one interruption and
\* without a report to the host, has closed whatever lease the engine gave
\* it: aborted, then released, both to the end.
SilentMeansClean ==
    Quiet /\ terminal = "abnormal" /\ call["open"] \in {"running", "ok"}
          /\ cancels <= 1 /\ faults = {}
        => call["abort"] = "ok" /\ call["release"] = "ok"

\* A transcript is returned only after finish and release both succeeded,
\* and every repeated complete() returns it too (lease.py:243-244, 278-280).
TranscriptMeansReleased ==
    \A t \in Tasks : got[t] = "tail" =>
        /\ call["flush"] = "ok" /\ call["finish"] = "ok" /\ call["release"] = "ok"
        /\ terminal = "normal" /\ faults = {}

\* Once a terminal direction is chosen no audio or locale change reaches the
\* lease, and no flush begins (lease.py:223, 234, 243-250).
NothingAfterTerminal ==
    [][terminal # "none" =>
          /\ call'["flush"] = call["flush"]
          /\ \A t \in Tasks : at'[t] = "working" => at[t] = "working"]_vars

\* Once closing has begun a method returns within its timers, although the
\* engine never answers (lease.py:121-129).
CleanupReturns ==
    \A t \in Tasks :
        at[t] \in {"settling", "finalizing", "aborting", "releasing"} ~> at[t] = "idle"

\* A lease that arrived for a session already given up is eventually aborted,
\* by its caller or by the background task, unless a second interruption hit
\* the caller (lease.py:160-178, 202-213).
AbandonedIsAborted ==
    (call["open"] = "ok" /\ terminal = "abnormal") ~> (call["abort"] # "none" \/ cancels > 1)

\* lease.py:188 "Open exactly one lease and clean it if cancellation wins
\* mid-open.": with nobody left to do it, no lease stays unaborted and
\* unreported.
NoLostLease ==
    Quiet /\ terminal = "abnormal" /\ call["open"] = "ok"
        => call["abort"] # "none" \/ faults # {}

\* Every lease call this owner makes is one the lease contract allows then.
Contract == INSTANCE LeaseContract WITH
    opened  <- call["open"] = "ok",
    closing <- {c \in {"abort", "release"} : call[c] # "none"}
                  \cup {c \in {"finish"} : call[c] = "ok"}
LeaseContractHolds == Contract!Spec

\* What became of the lease of an abnormal session nobody works for any more.
\* It is closed once abort and then release succeeded, or was never obtained.
Leftover ==
    IF \/ faults \cap {"abort", "release"} # {}
       \/ "open" \in faults /\ call["open"] = "failed" THEN "stuck"
    ELSE IF \/ call["open"] = "failed"
            \/ call["abort"] = "ok" /\ call["release"] = "ok" THEN "closed"
    ELSE "lost"

\* How far the lease of an abnormal session has come.
AbnormalOutcome ==
    CASE at[Late] # "idle" -> IF "abort" \in faults THEN "lateFailing" ELSE "late"
      [] \E t \in Tasks : at[t] = "settling" -> "settling"
      [] \E t \in Tasks : at[t] \in {"aborting", "releasing"} ->
            IF "abort" \in faults THEN "failing" ELSE "closing"
      [] OTHER -> Leftover

\* How far the lease has come, whichever direction was chosen.
Outcome == CASE ~started -> "none"
             [] started /\ terminal = "none" ->
                   IF ~lease THEN "opening"
                   ELSE IF call["flush"] = "none" THEN "live" ELSE "closing"
             [] terminal = "normal_finishing" -> "closing"
             [] terminal = "normal" -> "closed"
             [] terminal = "normal_failed" -> "stuck"
             [] terminal = "abnormal" -> AbnormalOutcome

\* The rest of the plugin sees a lease take only the turns of OwnerOutcome:
\* a fault is reported exactly when one of them says so, and a lease said to
\* be closed stays closed (lease.py:116-213, 243-301).
Seen == INSTANCE OwnerOutcome WITH outcome <- Outcome, reported <- faults # {}
OwnerOutcomeHolds == Seen!Spec

\* When open, complete or cancel has done its work and comes back, the lease
\* is live after an open that succeeded and no longer at work otherwise: what
\* every adapter takes for granted when it releases its registration.
MethodsSettle ==
    [][\A t \in Tasks : /\ op[t] \in {"open", "complete", "cancel"}
                        /\ at[t] \in Inside /\ at'[t] = "idle"
            => \/ op[t] = "open" /\ got'[t] = "done" /\ Outcome' = "live"
               \/ ~(op[t] = "open" /\ got'[t] = "done")
                  /\ Outcome' \in {"closed", "late", "lost", "stuck"}]_vars
=============================================================================

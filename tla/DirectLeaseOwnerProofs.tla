----------------------- MODULE DirectLeaseOwnerProofs -----------------------
(* Proofs about DirectLeaseOwner, for any set of calling tasks and any      *)
(* number of interruptions: the inductive invariant of OwnerInvariant holds *)
(* in every reachable state, the safety properties follow from it, and the  *)
(* owner implements LeaseContract.                                          *)
EXTENDS OwnerInvariant, TLAPS

USE OwnerAssumption
    DEF OwnerAssumption, own, rest, Released, Actors, Methods, Pieces, Shielded, Calls, Inside,
        Awaits, Outcomes, NormalTerminals, Terminals, Idle

USE DEF IInv, TypeOK, LockInv, LateInv, SiteInv, OpenInv,
    UndecidedInv, NormalInv, AbnormalInv, SilentMeansClean, Quiet, Usable

\* The initial state of a fresh owner satisfies the invariant.
LEMMA InitIInv == Init => IInv
<1>. SUFFICES ASSUME Init PROVE IInv OBVIOUS
<1>. USE DEF Init
<1>1. TypeOK
  <2>1. at \in [Actors -> Awaits] /\ got \in [Actors -> Outcomes] OBVIOUS
  <2>2. op \in [Actors -> Methods \cup {"none", "late"}] OBVIOUS
  <2>3. call \in [Calls -> {"none", "running", "ok", "failed"}] OBVIOUS
  <2>4. /\ lock \in Tasks \cup {None} /\ started \in BOOLEAN /\ lease \in BOOLEAN
        /\ terminal \in Terminals /\ faults \subseteq Shielded
    OBVIOUS
  <2>5. cancels \in 0..MaxCancels OBVIOUS
  <2>. HIDE DEF Init, Actors, Methods, Calls, Shielded, Awaits, Outcomes, Terminals
  <2>. QED BY <2>1, <2>2, <2>3, <2>4, <2>5
<1>2. LockInv /\ LateInv /\ SiteInv /\ OpenInv OBVIOUS
<1>3. UndecidedInv /\ NormalInv /\ AbnormalInv /\ SilentMeansClean OBVIOUS
<1>. QED BY <1>1, <1>2, <1>3

\* The steps of open().
LEMMA Opening ==
    ASSUME IInv, NEW t \in Tasks,
           Open(t) \/ OpenReturns(t) \/ OpenSettles(t) \/ OpenOverdue(t)
    PROVE  IInv'
<1>1. CASE Open(t)
  BY <1>1 DEF Open, Entered, Hold, Await, Mark
<1>2. CASE OpenReturns(t)
  <2>. USE <1>2 DEF OpenReturns, Return
  <2>1. TypeOK'
    <3>1. CASE call["open"] = "ok" BY <3>1
    <3>2. CASE call["open"] = "failed" BY <3>2
    <3>. QED BY <3>1, <3>2
  <2>6. OpenInv' OBVIOUS
  <2>2. LockInv' /\ LateInv' OBVIOUS
  <2>3. SiteInv' OBVIOUS
  <2>4. UndecidedInv' /\ NormalInv' /\ AbnormalInv' OBVIOUS
  <2>5. SilentMeansClean' OBVIOUS
  <2>. QED BY <2>1, <2>2, <2>3, <2>4, <2>5, <2>6
<1>3. CASE OpenSettles(t)
  <2>. USE <1>3 DEF OpenSettles, Return, Await, Mark
  <2>1. TypeOK'
    <3>1. CASE call["open"] = "ok" BY <3>1
    <3>2. CASE call["open"] = "failed" BY <3>2
    <3>. QED BY <3>1, <3>2
  <2>6. OpenInv' OBVIOUS
  <2>2. LockInv' /\ LateInv' OBVIOUS
  <2>3. SiteInv' OBVIOUS
  <2>4. UndecidedInv' /\ NormalInv' /\ AbnormalInv' OBVIOUS
  <2>5. SilentMeansClean' OBVIOUS
  <2>. QED BY <2>1, <2>2, <2>3, <2>4, <2>5, <2>6
<1>4. CASE OpenOverdue(t)
  BY <1>4 DEF OpenOverdue, Report
<1>. QED BY <1>1, <1>2, <1>3, <1>4

\* Entering a method, its early returns, and the lease calls of feed and update_locale.
LEMMA Calling ==
    ASSUME IInv, NEW t \in Tasks,
           (\E m \in Methods : Invoke(t, m)) \/ EarlyReturn(t) \/ Work(t) \/ WorkReturns(t)
    PROVE  IInv'
<1>1. CASE (\E m \in Methods : Invoke(t, m))
  BY <1>1 DEF Invoke
<1>2. CASE EarlyReturn(t)
  BY <1>2 DEF EarlyReturn, Entered, Return
<1>3. CASE Work(t)
  BY <1>3 DEF Work, Entered, Hold, Await
<1>4. CASE WorkReturns(t)
  BY <1>4 DEF WorkReturns, Return
<1>. QED BY <1>1, <1>2, <1>3, <1>4

\* The steps of complete().
LEMMA Completing ==
    ASSUME IInv, NEW t \in Tasks,
           Complete(t) \/ Flushed(t) \/ Finished(t) \/ FlushOrFinishFails(t) \/ Finalized(t) \/ FinalizationFails(t)
    PROVE  IInv'
<1>1. CASE Complete(t)
  BY <1>1 DEF Complete, Entered, Hold, Await, Mark
<1>2. CASE Flushed(t)
  BY <1>2 DEF Flushed, Await
<1>3. CASE Finished(t)
  BY <1>3 DEF Finished, Await
<1>4. CASE FlushOrFinishFails(t)
  BY <1>4 DEF FlushOrFinishFails, TurnAbnormal, Await
<1>5. CASE Finalized(t)
  BY <1>5 DEF Finalized, Return
<1>6. CASE FinalizationFails(t)
  BY <1>6 DEF FinalizationFails, NormalFails, Return, Report
<1>. QED BY <1>1, <1>2, <1>3, <1>4, <1>5, <1>6

\* Abort and release, run by a caller or by the background task.
LEMMA ClosingStep ==
    ASSUME IInv, NEW a \in Actors,
           AbortReturns(a) \/ AbortFails(a) \/ AbortOverdue(a) \/ ReleaseReturns(a) \/ ReleaseFails(a)
    PROVE  IInv'
<1>1. CASE AbortReturns(a)
  BY <1>1 DEF AbortReturns, BeginRelease, Await, Mark
<1>2. CASE AbortFails(a)
  BY <1>2 DEF AbortFails, BeginRelease, Await, Mark, Return, Report
<1>3. CASE AbortOverdue(a)
  BY <1>3 DEF AbortOverdue, Return, Report
<1>4. CASE ReleaseReturns(a)
  BY <1>4 DEF ReleaseReturns, Return
<1>5. CASE ReleaseFails(a)
  BY <1>5 DEF ReleaseFails, ReleaseRaises, Return, Report
<1>. QED BY <1>1, <1>2, <1>3, <1>4, <1>5

\* cancel() selects the abnormal direction.
LEMMA CancelStep == ASSUME IInv, NEW t \in Tasks, Cancel(t) PROVE IInv'
BY DEF Cancel, Entered, Hold, Await, Mark

\* A cancellation of the calling task, at every await it can reach.
LEMMA Interrupting == ASSUME IInv, NEW t \in Tasks, Interrupt(t) PROVE IInv'
<1>. USE DEF Interrupt
<1>1. CASE Unwinds(t) BY <1>1 DEF Unwinds, Return
<1>2. CASE OpenInterrupted(t) BY <1>2 DEF OpenInterrupted, Await
<1>3. CASE TurnAbnormal(t) BY <1>3 DEF TurnAbnormal, Await
<1>4. CASE NormalFails(t) BY <1>4 DEF NormalFails, Return, Report
<1>5. CASE AbortInterrupted(t)
  BY <1>5 DEF AbortInterrupted, BeginRelease, Await, Mark, Report
<1>6. CASE ReleaseRaises(t) BY <1>6 DEF ReleaseRaises, Return, Report
<1>. QED BY <1>1, <1>2, <1>3, <1>4, <1>5, <1>6

\* The background task finds the overdue open settled.
LEMMA LateOpening == ASSUME IInv, LateOpen PROVE IInv'
<1>. USE DEF LateOpen, Return, Await, Mark, Report
<1>1. TypeOK'
  <2>1. CASE call["open"] = "ok"
    <3>1. /\ call' = [call EXCEPT !["abort"] = "running"]
          /\ at' = [at EXCEPT ![Late] = "aborting"]
          /\ UNCHANGED <<op, got, lock, faults, own, cancels>>
      BY <2>1
    <3>. HIDE DEF LateOpen, Return, Await, Mark, Report
    <3>2. at' \in [Actors -> Awaits] BY <3>1
    <3>3. call' \in [Calls -> {"none", "running", "ok", "failed"}] BY <3>1
    <3>. QED BY <3>1, <3>2, <3>3
  <2>2. CASE call["open"] = "failed"
    <3>1. lock' = lock /\ faults' \subseteq Shielded BY <2>2
    <3>2. at' \in [Actors -> Awaits] /\ got' \in [Actors -> Outcomes] BY <2>2
    <3>. QED BY <2>2, <3>1, <3>2
  <2>. QED BY <2>1, <2>2
<1>2. LockInv' /\ LateInv' OBVIOUS
<1>3. SiteInv' OBVIOUS
<1>4. OpenInv' /\ UndecidedInv' OBVIOUS
<1>5. NormalInv' /\ AbnormalInv' OBVIOUS
<1>6. SilentMeansClean' OBVIOUS
<1>. QED BY <1>1, <1>2, <1>3, <1>4, <1>5, <1>6

\* The engine settles a shielded call.
LEMMA Settling == ASSUME IInv, NEW c \in Shielded, Settle(c) PROVE IInv'
BY DEF Settle, Mark

\* Every step keeps the invariant.
LEMMA StepIInv == ASSUME IInv, [Next]_vars PROVE IInv'
<1>1. CASE UNCHANGED vars BY <1>1 DEF vars
<1>2. CASE \E t \in Tasks : Step(t)
  <2>. PICK t \in Tasks : Step(t) BY <1>2
  <2>. HIDE DEF IInv
  <2>1. CASE (\E m \in Methods : Invoke(t, m)) \/ EarlyReturn(t) \/ Work(t) \/ WorkReturns(t)
    BY <2>1, Calling
  <2>2. CASE Open(t) \/ OpenReturns(t) \/ OpenSettles(t) \/ OpenOverdue(t)
    BY <2>2, Opening
  <2>3. CASE \/ Complete(t) \/ Flushed(t) \/ Finished(t) \/ FlushOrFinishFails(t)
             \/ Finalized(t) \/ FinalizationFails(t)
    BY <2>3, Completing
  <2>4. CASE Closing(t) BY <2>4, ClosingStep DEF Closing
  <2>. QED BY <2>1, <2>2, <2>3, <2>4, CancelStep, Interrupting DEF Step, Bounded
<1>3. CASE LateOpen BY <1>3, LateOpening
<1>4. CASE Closing(Late)
  <2>. HIDE DEF IInv
  <2>. QED BY <1>4, ClosingStep DEF Closing
<1>5. CASE \E c \in Shielded : Settle(c) 
  <2>. HIDE DEF IInv
  <2>. QED BY <1>5, Settling
<1>. QED BY <1>1, <1>2, <1>3, <1>4, <1>5 DEF Next

\* Under the invariant, the lease calls in progress are at most an abort and
\* a release, the first reported.
LEMMA IInvOverlap == IInv => OverlapReported
<1>. SUFFICES ASSUME IInv, NEW c \in InFlight, NEW d \in InFlight, c # d
              PROVE  {c, d} = {"abort", "release"} /\ "abort" \in faults
  BY DEF OverlapReported
<1>1. CASE terminal # "none"
  <2>1. \A t \in Tasks : at[t] # "working" BY <1>1
  <2>2. ASSUME NEW x \in InFlight PROVE call[x] = "running" /\ x \in {"abort", "release"}
    <3>1. x \in Calls \ {"open"} /\ call[x] = "running" BY <2>1 DEF InFlight
    <3>2. call["flush"] # "running" /\ call["finish"] # "running" BY <1>1
    <3>. QED BY <3>1, <3>2
  <2>. QED BY <2>2
<1>2. CASE terminal = "none"
  <2>1. \A x \in InFlight : (x \in {"flush", "finish"} /\ call[x] = "running")
                               \/ \E t \in Tasks : at[t] = "working" /\ x = op[t]
    BY <1>2 DEF InFlight
  <2>2. PICK t \in Tasks : at[t] \in {"working", "flushing", "finishing"}
    <3>1. CASE \E u \in Tasks : at[u] = "working" BY <3>1
    <3>2. CASE ~Idle({"flush", "finish"}) BY <1>2, <3>2
    <3>. QED BY <2>1, <3>1, <3>2
  <2>3. \A u \in Tasks : at[u] = "working" => u = t BY <2>2
  <2>4. ~(call["flush"] = "running" /\ call["finish"] = "running") BY <2>2
  <2>5. at[t] = "working" => call["flush"] = "none" /\ call["finish"] = "none" BY <2>2
  <2>. QED BY <2>1, <2>3, <2>4, <2>5
<1>. QED BY <1>1, <1>2

HIDE DEF own, rest, Released, Actors, Methods, Pieces, Shielded, Calls, Inside, Awaits,
    Outcomes, NormalTerminals, Terminals, Idle, IInv, TypeOK, LockInv, LateInv,
    SiteInv, OpenInv, UndecidedInv, NormalInv, AbnormalInv, SilentMeansClean,
    Quiet, Usable

\* Every reachable state satisfies the invariant.
THEOREM OwnerInvariantHolds == Spec => []IInv
BY InitIInv, StepIInv, PTL DEF Spec

\* The variables stay in their types: the lock is held by a caller or by
\* nobody, and _terminal takes one of its five values.
THEOREM OwnerTypes == Spec => []TypeOK
<1>1. IInv => TypeOK BY DEF IInv
<1>. QED BY <1>1, OwnerInvariantHolds, PTL

\* Whatever the callers do, two lease calls run at once only after an
\* interrupted abort that was reported (_release_after_abort).
THEOREM OverlapsAreReported == Spec => []OverlapReported
BY IInvOverlap, OwnerInvariantHolds, PTL

\* An abnormal session that nobody works for any more and that was interrupted
\* at most once has closed the lease it was given, or reported a fault.
THEOREM SilenceMeansClean == Spec => []SilentMeansClean
<1>1. IInv => SilentMeansClean BY DEF IInv
<1>. QED BY <1>1, OwnerInvariantHolds, PTL

\* complete() hands out a transcript only for a lease it finished and released.
THEOREM TranscriptsAreReleased == Spec => []TranscriptMeansReleased
<1>1. IInv => TranscriptMeansReleased
  BY DEF IInv, NormalInv, NormalTerminals, TranscriptMeansReleased
<1>. QED BY <1>1, OwnerInvariantHolds, PTL

\* What one step may do to the calls: nothing; settle a shielded call; make
\* the open call; move complete() on; or begin the abort or the release.
Pristine == call["open"] = "ok" /\ call["abort"] = "none" /\ call["release"] = "none"

CallMove ==
    \/ call' = call
    \/ \E c \in Shielded, s \in {"ok", "failed"} :
          call[c] = "running" /\ call' = [call EXCEPT ![c] = s]
    \/ call["open"] = "none" /\ call' = [call EXCEPT !["open"] = "running"]
    \/ /\ terminal = "none" /\ call["flush"] = "none"
       /\ call' = [call EXCEPT !["flush"] = "running"]
    \/ /\ terminal = "none" /\ call["finish"] = "none"
       /\ call' = [call EXCEPT !["flush"] = "ok", !["finish"] = "running"]
    \/ /\ terminal = "none" /\ call["finish"] = "running" /\ Pristine
       /\ call' = [call EXCEPT !["finish"] = "ok", !["release"] = "running"]
    \/ /\ terminal = "none" /\ call["finish"] # "ok" /\ Pristine
       /\ \E c \in {"flush", "finish"} :
             call' = [call EXCEPT ![c] = "failed", !["abort"] = "running"]
    \/ /\ call["finish"] # "ok" /\ Pristine
       /\ call' = [call EXCEPT !["abort"] = "running"]
    \/ /\ call["finish"] # "ok" /\ call["abort"] # "none" /\ call["release"] = "none"
       /\ call["open"] = "ok"
       /\ call' = [call EXCEPT !["release"] = "running"]

LEMMA StepCalls == ASSUME IInv, [Next]_vars PROVE CallMove
<1>. USE DEF IInv, TypeOK, LockInv, LateInv, SiteInv, OpenInv, UndecidedInv,
         NormalInv, AbnormalInv, Idle, Inside, Actors, Calls, NormalTerminals,
         Terminals, Shielded, Usable, CallMove, Pristine, own, rest
<1>1. CASE UNCHANGED vars BY <1>1 DEF vars
<1>2. CASE \E c \in Shielded : Settle(c) BY <1>2 DEF Settle, Mark
<1>3. CASE LateOpen BY <1>3 DEF LateOpen, Mark
<1>4. ASSUME NEW a \in Actors, Closing(a) PROVE CallMove
  <2>1. CASE AbortReturns(a) \/ AbortFails(a) \/ AbortOverdue(a)
    BY <2>1 DEF AbortReturns, AbortFails, AbortOverdue, BeginRelease, Mark
  <2>2. CASE ReleaseReturns(a) \/ ReleaseFails(a)
    BY <2>2 DEF ReleaseReturns, ReleaseFails, ReleaseRaises
  <2>. QED BY <1>4, <2>1, <2>2 DEF Closing
<1>5. ASSUME NEW t \in Tasks, Step(t) PROVE CallMove
  <2>1. CASE (\E m \in Methods : Invoke(t, m)) \/ EarlyReturn(t) \/ Work(t) \/ WorkReturns(t)
    BY <2>1 DEF Invoke, EarlyReturn, Work, WorkReturns
  <2>2. CASE Open(t) \/ OpenReturns(t) \/ OpenSettles(t) \/ OpenOverdue(t)
    BY <2>2 DEF Open, OpenReturns, OpenSettles, OpenOverdue, Entered, Mark
  <2>3. CASE Complete(t) BY <2>3 DEF Complete, Entered, Mark
  <2>4. CASE Flushed(t) BY <2>4 DEF Flushed
  <2>5. CASE Finished(t) BY <2>5 DEF Finished
  <2>6. CASE TurnAbnormal(t) BY <2>6 DEF TurnAbnormal
  <2>7. CASE Finalized(t) \/ NormalFails(t) BY <2>7 DEF Finalized, NormalFails
  <2>8. CASE Cancel(t) BY <2>8 DEF Cancel, Entered, Mark
  <2>9. CASE Interrupt(t)
    BY <2>6, <2>7, <2>9 DEF Interrupt, Unwinds, OpenInterrupted, AbortInterrupted,
       BeginRelease, ReleaseRaises, Mark
  <2>10. t \in Actors OBVIOUS
  <2>. QED BY <1>4, <1>5, <2>1, <2>2, <2>3, <2>4, <2>5, <2>6, <2>7, <2>8, <2>9, <2>10
           DEF Step, Bounded, FlushOrFinishFails, FinalizationFails
<1>6. Late \in Actors OBVIOUS
<1>. QED BY <1>1, <1>2, <1>3, <1>4, <1>5, <1>6 DEF Next

\* No call on the factory or the lease is ever made twice: a call that runs
\* after a step had not been made before it, or ran already.
THEOREM CallsAreMadeOnce == Spec => CallOnce
<1>1. ASSUME IInv, [Next]_vars
      PROVE  \A c \in Calls : call'[c] = "running" => call[c] \in {"none", "running"}
  <2>1. CallMove BY <1>1, StepCalls
  <2>2. call \in [Calls -> {"none", "running", "ok", "failed"}] BY <1>1 DEF IInv, TypeOK
  <2>. QED BY <2>1, <2>2 DEF CallMove, Pristine, Calls, Shielded
<1>. QED BY <1>1, OwnerInvariantHolds, PTL DEF Spec, CallOnce

\* No feeding, locale change or flush begins once a direction was chosen (the
\* _terminal checks at the head of each method).
THEOREM TerminalIsFinal == Spec => NothingAfterTerminal
<1>1. ASSUME IInv, [Next]_vars, terminal # "none"
      PROVE  call'["flush"] = call["flush"]
  <2>1. CallMove BY <1>1, StepCalls
  <2>2. call \in [Calls -> {"none", "running", "ok", "failed"}] BY <1>1 DEF IInv, TypeOK
  <2>. QED BY <1>1, <2>1, <2>2 DEF CallMove, Calls, Shielded
<1>2. ASSUME IInv, [Next]_vars, terminal # "none", NEW t \in Tasks, at'[t] = "working"
      PROVE  at[t] = "working"
  <2>1. at \in [Actors -> Awaits] BY <1>2 DEF IInv, TypeOK
  <2>. QED
    BY <1>2, <2>1 DEF Next, vars, Step, Bounded, Closing, Invoke, EarlyReturn, Open,
       OpenReturns, OpenSettles, OpenOverdue, Work, WorkReturns, Complete, Flushed,
       Finished, FlushOrFinishFails, FinalizationFails, TurnAbnormal, NormalFails,
       Finalized, Cancel, AbortReturns, AbortFails, AbortOverdue, ReleaseReturns,
       ReleaseFails, ReleaseRaises, BeginRelease, Interrupt, Unwinds, OpenInterrupted,
       AbortInterrupted, LateOpen, Settle, Hold, Await, Return, Usable, Actors, own, rest
<1>3. IInv /\ [Next]_vars =>
         [terminal # "none" => /\ call'["flush"] = call["flush"]
                               /\ \A t \in Tasks : at'[t] = "working" => at[t] = "working"]_vars
  BY <1>1, <1>2
<1>. QED BY <1>3, OwnerInvariantHolds, PTL DEF Spec, NothingAfterTerminal

\* The owner only ever asks the lease for what its contract allows: finish
\* and release, or abort and release, once and in that order.
THEOREM ImplementsLeaseContract == Spec => LeaseContractHolds
<1>1. Init => Contract!Init
  BY DEF Init, Contract!Init, Calls, Shielded
<1>2. ASSUME IInv, [Next]_vars PROVE [Contract!Next]_(Contract!vars)
  <2>1. CallMove BY <1>2, StepCalls
  <2>2. call \in [Calls -> {"none", "running", "ok", "failed"}] BY <1>2 DEF IInv, TypeOK
  <2>3. OpenInv /\ NormalInv /\ AbnormalInv BY <1>2 DEF IInv
  <2>. QED BY <2>1, <2>2, <2>3 DEF CallMove, Pristine, Calls, Shielded,
       Contract!Next, Contract!vars, Contract!Open, Contract!FinishAndRelease,
       Contract!Abort, Contract!ReleaseAborted
<1>. QED BY <1>1, <1>2, OwnerInvariantHolds, PTL
         DEF Spec, LeaseContractHolds, Contract!Spec

-----------------------------------------------------------------------------
\* The outcome at each await, at each value of _terminal, and afterwards.
OutcomeAt ==
    /\ ~started => Outcome = "none"
    /\ started /\ terminal = "none" /\ ~lease => Outcome = "opening"
    /\ terminal = "none" /\ lease =>
          Outcome = IF call["flush"] = "none" THEN "live" ELSE "closing"
    /\ terminal = "normal_finishing" => Outcome = "closing"
    /\ terminal = "normal" => Outcome = "closed"
    /\ terminal = "normal_failed" => Outcome = "stuck"
    /\ at[Late] # "idle" => Outcome = IF "abort" \in faults THEN "lateFailing" ELSE "late"
    /\ \A t \in Tasks : at[t] = "settling" => Outcome = "settling"
    /\ \A t \in Tasks : at[t] \in {"aborting", "releasing"} =>
          Outcome = IF "abort" \in faults THEN "failing" ELSE "closing"
    /\ Quiet /\ terminal = "abnormal" => Outcome = Leftover

LEMMA OutcomeAtEachAwait == IInv => OutcomeAt
<1>. SUFFICES ASSUME IInv PROVE OutcomeAt OBVIOUS
<1>. USE DEF IInv, LockInv, LateInv, SiteInv, OpenInv, Inside, Idle, Actors
<1>1. terminal \in Terminals BY DEF TypeOK
<1>2. CASE terminal # "abnormal"
  <2>1. /\ at[Late] = "idle"
        /\ \A t \in Tasks : at[t] \notin {"settling", "aborting", "releasing"}
    BY <1>2
  <2>. QED BY <1>1, <1>2, <2>1 DEF Outcome, OutcomeAt, Terminals, NormalTerminals
<1>3. CASE terminal = "abnormal"
  <2>1. started /\ Outcome = AbnormalOutcome
    BY <1>3 DEF Outcome
  <2>2. at[Late] # "idle" => Outcome = IF "abort" \in faults THEN "lateFailing" ELSE "late"
    BY <2>1 DEF AbnormalOutcome
  <2>3. ASSUME NEW t \in Tasks, at[t] \in Inside PROVE lock = t /\ at[Late] = "idle"
    BY <2>3, OwnerAssumption
  <2>4. ASSUME NEW t \in Tasks, at[t] = "settling" PROVE Outcome = "settling"
    BY <2>1, <2>3, <2>4 DEF AbnormalOutcome
  <2>5. ASSUME NEW t \in Tasks, at[t] \in {"aborting", "releasing"}
        PROVE  Outcome = IF "abort" \in faults THEN "failing" ELSE "closing"
    <3>1. \A u \in Tasks : at[u] # "settling" BY <2>3, <2>5
    <3>. QED BY <2>1, <2>3, <2>5, <3>1 DEF AbnormalOutcome
  <2>6. Quiet => Outcome = Leftover
    <3>. SUFFICES ASSUME Quiet PROVE Outcome = Leftover OBVIOUS
    <3>1. \A u \in Tasks : at[u] \notin {"settling", "aborting", "releasing"}
      BY OwnerAssumption DEF Quiet
    <3>. QED BY <2>1, <3>1 DEF AbnormalOutcome, Quiet
  <2>. QED BY <1>3, <2>1, <2>2, <2>4, <2>5, <2>6 DEF OutcomeAt
<1>. QED BY <1>2, <1>3

\* Every step keeps the link between reports and calls.
LEMMA FaultStep == ASSUME IInv, FaultInv, [Next]_vars PROVE FaultInv'
<1>. USE OwnerAssumption DEF IInv, TypeOK, LockInv, LateInv, SiteInv, OpenInv, UndecidedInv,
         AbnormalInv, FaultInv, Idle, Inside, Actors, Calls, Shielded, own, rest
<1>1. CASE UNCHANGED vars BY <1>1 DEF vars
<1>2. CASE \E c \in Shielded : Settle(c) BY <1>2 DEF Settle, Mark
<1>3. CASE LateOpen BY <1>3 DEF LateOpen, Mark, Return, Report, Await
<1>4. ASSUME NEW a \in Actors, Closing(a) PROVE FaultInv'
  <2>1. CASE AbortReturns(a) BY <2>1 DEF AbortReturns, BeginRelease, Mark, Await
  <2>2. CASE AbortFails(a) BY <2>2 DEF AbortFails, BeginRelease, Mark, Await, Return, Report
  <2>3. CASE AbortOverdue(a) BY <2>3 DEF AbortOverdue, Return, Report
  <2>4. CASE ReleaseReturns(a) BY <2>4 DEF ReleaseReturns, Return
  <2>5. CASE ReleaseFails(a) BY <2>5 DEF ReleaseFails, ReleaseRaises, Return, Report
  <2>. QED BY <1>4, <2>1, <2>2, <2>3, <2>4, <2>5 DEF Closing
<1>5. ASSUME NEW t \in Tasks, Step(t) PROVE FaultInv'
  <2>. USE DEF Return, Await, Hold, Mark, Report, Entered
  <2>1. CASE (\E m \in Methods : Invoke(t, m)) \/ EarlyReturn(t)
    BY <2>1 DEF Invoke, EarlyReturn
  <2>2. CASE Work(t) \/ WorkReturns(t) BY <2>2 DEF Work, WorkReturns
  <2>3. CASE Open(t) \/ OpenReturns(t) BY <2>3 DEF Open, OpenReturns
  <2>4. CASE OpenSettles(t) BY <2>4 DEF OpenSettles
  <2>5. CASE OpenOverdue(t) BY <2>5 DEF OpenOverdue
  <2>6. CASE Complete(t) \/ Flushed(t) \/ Finished(t) BY <2>6 DEF Complete, Flushed, Finished
  <2>7. CASE TurnAbnormal(t) BY <2>7 DEF TurnAbnormal
  <2>8. CASE Finalized(t) \/ NormalFails(t) BY <2>8 DEF Finalized, NormalFails, NormalInv, NormalTerminals
  <2>9. CASE Cancel(t) BY <2>9 DEF Cancel
  <2>10. CASE Unwinds(t) \/ OpenInterrupted(t) BY <2>10 DEF Unwinds, OpenInterrupted
  <2>11. CASE AbortInterrupted(t) BY <2>11 DEF AbortInterrupted, BeginRelease
  <2>12. CASE ReleaseRaises(t) BY <2>12 DEF ReleaseRaises
  <2>13. t \in Actors OBVIOUS
  <2>. QED BY <1>4, <1>5, <2>1, <2>2, <2>3, <2>4, <2>5, <2>6, <2>7, <2>8, <2>9, <2>10, <2>11,
              <2>12, <2>13
           DEF Step, Bounded, FlushOrFinishFails, FinalizationFails, Interrupt
<1>6. Late \in Actors OBVIOUS
<1>. QED BY <1>1, <1>2, <1>3, <1>4, <1>5, <1>6 DEF Next

\* What a step may leave alone without the outcome noticing.
LEMMA OutcomeKept ==
    ASSUME UNCHANGED <<started, lease, terminal, call, faults>>,
           at'[Late] = at[Late],
           \A t \in Tasks : /\ at'[t] = "settling" <=> at[t] = "settling"
                            /\ at'[t] \in {"aborting", "releasing"}
                                  <=> at[t] \in {"aborting", "releasing"}
    PROVE  UNCHANGED Seen!vars
<1>1. Leftover' = Leftover BY DEF Leftover
<1>2. AbnormalOutcome' = AbnormalOutcome BY <1>1 DEF AbnormalOutcome
<1>3. Outcome' = Outcome BY <1>2 DEF Outcome
<1>. QED BY <1>3 DEF Seen!vars

\* The steps of a calling task move the outcome as the plugin expects.
LEMMA OutcomeOfTask ==
    ASSUME IInv, FaultInv, OutcomeAt, IInv', OutcomeAt', NEW t \in Tasks, Step(t)
    PROVE  [Seen!Next]_(Seen!vars)
<1>. USE OwnerAssumption DEF IInv, LockInv, LateInv, SiteInv, OpenInv, UndecidedInv, NormalInv,
         FaultInv, OutcomeAt, Idle, Inside, Actors, Quiet, own, rest,
         Return, Await, Hold, Mark, Report, Entered,
         Seen!Next, Seen!Quietly, Seen!Reporting, Seen!QuietMoves, Seen!ReportedMoves,
         Seen!vars
<1>. USE DEF TypeOK
<1>1. CASE (\E m \in Methods : Invoke(t, m)) \/ EarlyReturn(t) \/ Work(t) \/ WorkReturns(t)
  <2>1. /\ UNCHANGED <<started, lease, terminal, call, faults>> /\ at'[Late] = at[Late]
        /\ \A u \in Tasks : /\ at'[u] = "settling" <=> at[u] = "settling"
                            /\ at'[u] \in {"aborting", "releasing"}
                                 <=> at[u] \in {"aborting", "releasing"}
    BY <1>1 DEF Invoke, EarlyReturn, Work, WorkReturns
  <2>. QED BY <2>1, OutcomeKept
<1>2. CASE Open(t) BY <1>2 DEF Open
<1>3. CASE OpenReturns(t) BY <1>3 DEF OpenReturns, Leftover
<1>4. CASE OpenSettles(t) BY <1>4 DEF OpenSettles, Leftover
<1>5. CASE OpenOverdue(t) BY <1>5 DEF OpenOverdue
<1>6. CASE Complete(t)
  <2>1. /\ terminal = "none" /\ lease /\ call["flush"] = "none"
        /\ terminal' = "none" /\ lease' /\ call'["flush"] # "none" /\ faults' = faults
    BY <1>6 DEF Complete, Terminals, NormalTerminals, Calls
  <2>2. Outcome = "live" /\ Outcome' = "closing" BY <2>1
  <2>. QED BY <2>1, <2>2
<1>7. CASE Flushed(t) \/ Finished(t)
  <2>1. /\ terminal = "none" /\ lease /\ call["flush"] # "none" /\ faults' = faults
        /\ lease' /\ call'["flush"] # "none" /\ terminal' \in {"none", "normal_finishing"}
    BY <1>7 DEF Flushed, Finished, Usable, Calls
  <2>2. Outcome = "closing" /\ Outcome' = "closing" BY <2>1
  <2>. QED BY <2>1, <2>2
<1>8. CASE TurnAbnormal(t)
  <2>1. /\ terminal = "none" /\ lease /\ call["flush"] # "none"
        /\ faults' = faults /\ "abort" \notin faults'
    BY <1>8 DEF TurnAbnormal, Usable
  <2>2. at'[t] = "aborting" BY <1>8 DEF TurnAbnormal
  <2>3. Outcome = "closing" /\ Outcome' = "closing" BY <2>1, <2>2
  <2>. QED BY <2>1, <2>3
<1>9. CASE Finalized(t) \/ NormalFails(t) BY <1>9 DEF Finalized, NormalFails
<1>10. CASE Cancel(t) BY <1>10 DEF Cancel, Usable
<1>11. CASE OpenInterrupted(t) BY <1>11 DEF OpenInterrupted
<1>12. CASE Unwinds(t)
  <2>1. UNCHANGED <<started, lease, terminal, call, faults>> /\ at'[Late] = at[Late]
        /\ \A u \in Tasks : u # t => at'[u] = at[u]
    BY <1>12 DEF Unwinds
  <2>2. at'[t] = "idle" BY <1>12 DEF Unwinds
  <2>3. CASE at[t] # "settling"
    <3>1. at[t] \notin {"settling", "aborting", "releasing"} BY <1>12, <2>3 DEF Unwinds
    <3>. HIDE DEF IInv, FaultInv, OutcomeAt
    <3>. QED BY <2>1, <2>2, <3>1, OutcomeKept
  <2>4. CASE at[t] = "settling"
    <3>1. Quiet' /\ terminal' = "abnormal" BY <1>12, <2>4 DEF Unwinds
    <3>2. Outcome = "settling" /\ Outcome' = Leftover' BY <2>4, <3>1
    <3>3. faults' = faults /\ faults \cap {"abort", "release"} = {} /\ "open" \notin faults
      BY <2>1, <2>4
    <3>4. call' = call /\ call["abort"] = "none" BY <2>1, <2>4
    <3>5. Leftover' \in {"closed", "lost"} BY <3>3, <3>4 DEF Leftover
    <3>. QED BY <3>2, <3>3, <3>5
  <2>. QED BY <2>3, <2>4
<1>13. CASE AbortReturns(t) BY <1>13 DEF AbortReturns, BeginRelease
<1>14. CASE AbortFails(t) BY <1>14 DEF AbortFails, BeginRelease, Leftover
<1>15. CASE AbortOverdue(t) BY <1>15 DEF AbortOverdue, Leftover
<1>16. CASE AbortInterrupted(t) BY <1>16 DEF AbortInterrupted, BeginRelease
<1>17. CASE ReleaseReturns(t) BY <1>17 DEF ReleaseReturns, Released, AbnormalInv, Leftover
<1>18. CASE ReleaseRaises(t) BY <1>18 DEF ReleaseRaises, Leftover
<1>. HIDE DEF IInv, FaultInv, OutcomeAt
<1>. QED BY <1>1, <1>2, <1>3, <1>4, <1>5, <1>6, <1>7, <1>8, <1>9, <1>10, <1>11, <1>12, <1>13,
            <1>14, <1>15, <1>16, <1>17, <1>18
         DEF Step, Bounded, Closing, FlushOrFinishFails, FinalizationFails, ReleaseFails, Interrupt

\* So do those of the background task.
LEMMA OutcomeOfLate ==
    ASSUME IInv, FaultInv, OutcomeAt, IInv', OutcomeAt', LateOpen \/ Closing(Late)
    PROVE  [Seen!Next]_(Seen!vars)
<1>. USE OwnerAssumption DEF IInv, LockInv, LateInv, SiteInv, OpenInv, TypeOK,
         FaultInv, OutcomeAt, Idle, Inside, Actors, Quiet, own, rest,
         Return, Await, Mark, Report, BeginRelease, Leftover,
         Seen!Next, Seen!Quietly, Seen!Reporting, Seen!QuietMoves, Seen!ReportedMoves,
         Seen!vars
<1>1. CASE LateOpen BY <1>1 DEF LateOpen
<1>2. CASE AbortReturns(Late) BY <1>2 DEF AbortReturns
<1>3. CASE AbortFails(Late) BY <1>3 DEF AbortFails
<1>4. CASE AbortOverdue(Late) BY <1>4 DEF AbortOverdue
<1>5. CASE ReleaseReturns(Late) BY <1>5 DEF ReleaseReturns, Released, AbnormalInv
<1>6. CASE ReleaseFails(Late) BY <1>6 DEF ReleaseFails, ReleaseRaises
<1>. QED BY <1>1, <1>2, <1>3, <1>4, <1>5, <1>6 DEF Closing

\* The engine's answers matter only to an open nobody waits for.
LEMMA OutcomeOfEngine ==
    ASSUME IInv, FaultInv, NEW c \in Shielded, Settle(c)
    PROVE  [Seen!Next]_(Seen!vars)
<1>. USE DEF IInv, LateInv, OpenInv, AbnormalInv, FaultInv, Idle, TypeOK, Calls, Shielded, own,
         Settle, Mark
<1>1. call'["flush"] = call["flush"] OBVIOUS
<1>2. \/ Outcome' = Outcome
      \/ /\ Outcome = Leftover /\ Outcome' = Leftover'
         /\ at[Late] = "idle" /\ \A t \in Tasks : at[t] # "settling"
  <2>1. \/ AbnormalOutcome' = AbnormalOutcome
        \/ /\ AbnormalOutcome = Leftover /\ AbnormalOutcome' = Leftover'
           /\ at[Late] = "idle" /\ \A t \in Tasks : at[t] # "settling"
    BY DEF AbnormalOutcome
  <2>2. UNCHANGED <<started, lease, terminal>> OBVIOUS
  <2>. HIDE DEF IInv, LateInv, OpenInv, AbnormalInv, FaultInv, TypeOK, Settle, Mark
  <2>3. CASE terminal = "abnormal"
    <3>1. started /\ started' /\ terminal' = "abnormal" BY <2>2, <2>3 DEF IInv, OpenInv
    <3>2. Outcome = AbnormalOutcome /\ Outcome' = AbnormalOutcome' BY <2>3, <3>1 DEF Outcome
    <3>. QED BY <2>1, <3>2
  <2>4. CASE terminal # "abnormal" BY <1>1, <2>2, <2>4 DEF Outcome
  <2>. QED BY <2>3, <2>4
<1>3. at[Late] = "idle" => Leftover' = Leftover \/ (Leftover = "lost" /\ Leftover' = "closed")
  BY DEF Leftover
<1>. QED BY <1>2, <1>3 DEF Seen!Next, Seen!Quietly, Seen!QuietMoves, Seen!vars

\* Await by await, the owner makes the moves the plugin is modelled with: it
\* reports where they say so, and a lease it leaves as closed is closed.
THEOREM ImplementsOwnerOutcome == Spec => OwnerOutcomeHolds
<1>1. Init => FaultInv /\ Seen!Init
  BY DEF Init, FaultInv, Outcome, Seen!Init
<1>2. IInv /\ FaultInv /\ [Next]_vars => FaultInv' BY FaultStep
<1>3. ASSUME IInv, FaultInv, OutcomeAt, IInv', OutcomeAt', [Next]_vars
      PROVE  [Seen!Next]_(Seen!vars)
  <2>1. CASE UNCHANGED vars
    BY <2>1 DEF vars, Seen!vars, Outcome, AbnormalOutcome, Leftover
  <2>2. CASE \E t \in Tasks : Step(t) BY <1>3, <2>2, OutcomeOfTask
  <2>3. CASE LateOpen \/ Closing(Late) BY <1>3, <2>3, OutcomeOfLate
  <2>4. CASE \E c \in Shielded : Settle(c) BY <1>3, <2>4, OutcomeOfEngine
  <2>. QED BY <1>3, <2>1, <2>2, <2>3, <2>4 DEF Next
<1>. QED BY <1>1, <1>2, <1>3, OutcomeAtEachAwait, OwnerInvariantHolds, PTL
         DEF Spec, OwnerOutcomeHolds, Seen!Spec

\* The await a method stands at tells which method it is.
MethodInv == \A t \in Tasks : /\ at[t] \in {"opening", "settling"} => op[t] = "open"
                              /\ at[t] = "working" => op[t] \in Pieces

LEMMA MethodStep == ASSUME IInv, MethodInv, [Next]_vars PROVE MethodInv'
<1>. USE OwnerAssumption DEF MethodInv, IInv, TypeOK, Actors, own, rest,
         Return, Await, Hold, Mark, Report, Entered, BeginRelease
<1>1. CASE UNCHANGED vars BY <1>1 DEF vars
<1>2. CASE \E c \in Shielded : Settle(c) BY <1>2 DEF Settle
<1>3. CASE LateOpen BY <1>3 DEF LateOpen
<1>4. ASSUME NEW a \in Actors, Closing(a) PROVE MethodInv'
  BY <1>4 DEF Closing, AbortReturns, AbortFails, AbortOverdue, ReleaseReturns, ReleaseFails,
     ReleaseRaises
<1>5. ASSUME NEW t \in Tasks, Step(t) PROVE MethodInv'
  <2>1. CASE (\E m \in Methods : Invoke(t, m)) \/ EarlyReturn(t) \/ Work(t) \/ WorkReturns(t)
    BY <2>1 DEF Invoke, EarlyReturn, Work, WorkReturns
  <2>2. CASE Open(t) \/ OpenReturns(t) \/ OpenSettles(t) \/ OpenOverdue(t)
    BY <2>2 DEF Open, OpenReturns, OpenSettles, OpenOverdue
  <2>3. CASE Complete(t) \/ Flushed(t) \/ Finished(t) \/ TurnAbnormal(t) \/ Cancel(t)
    BY <2>3 DEF Complete, Flushed, Finished, TurnAbnormal, Cancel
  <2>4. CASE Finalized(t) \/ NormalFails(t) \/ Unwinds(t) \/ OpenInterrupted(t)
    BY <2>4 DEF Finalized, NormalFails, Unwinds, OpenInterrupted
  <2>5. CASE AbortInterrupted(t) \/ ReleaseRaises(t)
    BY <2>5 DEF AbortInterrupted, ReleaseRaises
  <2>6. t \in Actors OBVIOUS
  <2>. QED BY <1>4, <1>5, <2>1, <2>2, <2>3, <2>4, <2>5, <2>6
           DEF Step, Bounded, FlushOrFinishFails, FinalizationFails, Interrupt
<1>6. Late \in Actors OBVIOUS
<1>. QED BY <1>1, <1>2, <1>3, <1>4, <1>5, <1>6 DEF Next

\* Where a method comes back from: an open that got its lease, one that did not,
\* a piece of work, or the end of the closing calls.
LEMMA ReturnsFrom ==
    ASSUME IInv, FaultInv, OutcomeAt', IInv', [Next]_vars,
           NEW t \in Tasks, at[t] \in Inside, at'[t] = "idle"
    PROVE  \/ /\ at[t] = "opening"
              /\ Outcome' = IF got'[t] = "done" THEN "live" ELSE "closed"
           \/ at[t] = "settling" /\ got'[t] = "raised" /\ Outcome' \in {"closed", "late", "lost"}
           \/ at[t] = "working"
           \/ /\ at[t] \in {"finalizing", "aborting", "releasing"}
              /\ got'[t] = "done" => op[t] # "open"
              /\ Outcome' \in {"closed", "stuck"}
<1>. USE OwnerAssumption DEF IInv, TypeOK, LockInv, LateInv, SiteInv, OpenInv, UndecidedInv,
         FaultInv, OutcomeAt, Idle, Inside, Actors, Quiet, own, rest, Leftover,
         Return, Await, Hold, Mark, Report, Entered, BeginRelease
<1>1. lock = t /\ at[Late] = "idle" OBVIOUS
<1>2. ~UNCHANGED vars BY DEF vars
<1>3. \A c \in Shielded : ~Settle(c) BY DEF Settle
<1>4. ~LateOpen /\ ~Closing(Late)
  BY <1>1 DEF LateOpen, Closing, AbortReturns, AbortFails, AbortOverdue, ReleaseReturns,
     ReleaseFails, ReleaseRaises
<1>5. ASSUME NEW u \in Tasks, u # t PROVE ~Step(u)
  BY <1>1, <1>5 DEF Step, Bounded, Closing, Invoke, EarlyReturn, Open, OpenReturns, OpenSettles,
     OpenOverdue, Work, WorkReturns, Complete, Flushed, Finished, FlushOrFinishFails,
     FinalizationFails, TurnAbnormal, NormalFails, Finalized, Cancel, AbortReturns, AbortFails,
     AbortOverdue, ReleaseReturns, ReleaseFails, ReleaseRaises, Interrupt, Unwinds,
     OpenInterrupted, AbortInterrupted
<1>6. Step(t) BY <1>2, <1>3, <1>4, <1>5 DEF Next
<1>7. CASE OpenReturns(t) BY <1>7 DEF OpenReturns
<1>8. CASE OpenSettles(t) BY <1>8 DEF OpenSettles
<1>9. CASE OpenOverdue(t) BY <1>9 DEF OpenOverdue
<1>10. CASE WorkReturns(t) BY <1>10 DEF WorkReturns
<1>11. CASE Finalized(t) \/ NormalFails(t) BY <1>11 DEF Finalized, NormalFails
<1>12. CASE Unwinds(t) BY <1>12 DEF Unwinds
<1>13. CASE AbortFails(t) BY <1>13 DEF AbortFails
<1>14. CASE AbortOverdue(t) BY <1>14 DEF AbortOverdue
<1>15. CASE ReleaseReturns(t)
  <2>1. Quiet' /\ terminal' = "abnormal" /\ call["abort"] # "none"
    BY <1>1, <1>15 DEF ReleaseReturns
  <2>2. UNCHANGED <<call, faults>> /\ call["release"] = "ok"
    BY <1>15 DEF ReleaseReturns, Released
  <2>3. "abort" \in faults \/ call["abort"] = "ok" BY <2>1, <2>2 DEF AbnormalInv
  <2>4. Outcome' = Leftover' BY <2>1
  <2>5. Leftover' \in {"closed", "stuck"} BY <2>2, <2>3 DEF Leftover
  <2>6. got'[t] = "done" => op[t] # "open" BY <1>15 DEF ReleaseReturns
  <2>. QED BY <1>15, <2>4, <2>5, <2>6 DEF ReleaseReturns
<1>16. CASE ReleaseRaises(t) BY <1>16 DEF ReleaseRaises
<1>. QED BY <1>1, <1>6, <1>7, <1>8, <1>9, <1>10, <1>11, <1>12, <1>13, <1>14, <1>15, <1>16
         DEF Step, Bounded, Closing, Invoke, EarlyReturn, Open, Work, Complete, Flushed, Finished,
         FlushOrFinishFails, FinalizationFails, TurnAbnormal, Cancel, AbortReturns,
         ReleaseFails, Interrupt, OpenInterrupted, AbortInterrupted

\* Whoever called open, complete or cancel knows, when it is back, that the
\* lease is live (an open that returned) or not at work any more.
THEOREM MethodsLeaveItSettled == Spec => MethodsSettle
<1>1. Init => FaultInv /\ MethodInv
  BY OwnerAssumption DEF Init, FaultInv, MethodInv, Actors
<1>2. IInv /\ FaultInv /\ MethodInv /\ [Next]_vars => FaultInv' /\ MethodInv'
  BY FaultStep, MethodStep
<1>3. IInv /\ FaultInv /\ MethodInv /\ IInv' /\ OutcomeAt' /\ [Next]_vars
         => [\A t \in Tasks : /\ op[t] \in {"open", "complete", "cancel"}
                              /\ at[t] \in Inside /\ at'[t] = "idle"
                 => \/ op[t] = "open" /\ got'[t] = "done" /\ Outcome' = "live"
                    \/ ~(op[t] = "open" /\ got'[t] = "done")
                       /\ Outcome' \in {"closed", "late", "lost", "stuck"}]_vars
  <2>. SUFFICES ASSUME IInv, FaultInv, MethodInv, IInv', OutcomeAt', [Next]_vars,
                       NEW t \in Tasks, op[t] \in {"open", "complete", "cancel"},
                       at[t] \in Inside, at'[t] = "idle"
                PROVE  \/ op[t] = "open" /\ got'[t] = "done" /\ Outcome' = "live"
                       \/ ~(op[t] = "open" /\ got'[t] = "done")
                          /\ Outcome' \in {"closed", "late", "lost", "stuck"}
    OBVIOUS
  <2>1. \/ /\ at[t] = "opening"
           /\ Outcome' = IF got'[t] = "done" THEN "live" ELSE "closed"
        \/ at[t] = "settling" /\ got'[t] = "raised" /\ Outcome' \in {"closed", "late", "lost"}
        \/ at[t] = "working"
        \/ /\ at[t] \in {"finalizing", "aborting", "releasing"}
           /\ got'[t] = "done" => op[t] # "open"
           /\ Outcome' \in {"closed", "stuck"}
    BY ReturnsFrom
  <2>2. at[t] # "working" BY DEF MethodInv, Pieces
  <2>3. CASE at[t] = "opening"
    <3>1. op[t] = "open" BY <2>3 DEF MethodInv
    <3>2. Outcome' = IF got'[t] = "done" THEN "live" ELSE "closed" BY <2>1, <2>3
    <3>. QED BY <3>1, <3>2
  <2>4. CASE at[t] = "settling" BY <2>1, <2>4
  <2>5. CASE at[t] \in {"finalizing", "aborting", "releasing"} BY <2>1, <2>5
  <2>. QED BY <2>1, <2>2, <2>3, <2>4, <2>5
<1>. QED BY <1>1, <1>2, <1>3, OutcomeAtEachAwait, OwnerInvariantHolds, PTL
         DEF Spec, MethodsSettle
====

------------------------ MODULE PluginLifetimeProofs ------------------------
(* Proofs about PluginLifetime for any finite set of sessions and any cap.  *)
(* Every step of the plugin is a step of the gate or leaves it alone, so    *)
(* the gate's invariant carries over; on top of it stand the invariants of  *)
(* the sessions and of the shutdown.                                        *)
EXTENDS PluginLifetime, LoadShedGateProofs

\* The owner_register port is the registry's: nobody suspends at the gate.
PortInv == /\ gateLock = None /\ leaked = {}
           /\ \A s \in Sessions : seat[s] \in {"out", "registering", "held", "released"}

\* A session has its host admission from before it registers until it releases
\* and no longer, and a lease at work only while it is registered; a lease that could not be
\* closed was reported.
SessionInv ==
    \A s \in Sessions :
        /\ seat[s] \in {"registering", "held"} <=> s \in admitted
        /\ lease[s] \in AtWork => seat[s] = "held"
        /\ lease[s] \in Overdue \cup {"failing", "stuck"} => faulted

\* Drain has its snapshot only behind a closed gate, and its verdict last.
DrainInv ==
    /\ drain \in {"grace", "cancelled", "stopping", "ended"} => closed
    /\ drain \in {"grace", "cancelled"} => owners \subseteq waiting
    /\ verdict # "none" => drain \in {"stopping", "ended"}

LifeInv == GateInv /\ PortInv /\ SessionInv /\ DrainInv /\ CleanShutdown
           /\ lease \in [Sessions -> Leases]

\* What the plugin does to the gate is what the gate allows.
LEMMA PluginUsesGate == ASSUME Next \/ UNCHANGED vars PROVE [GateNext]_gateVars
BY DEF Next, vars, SessionStep, Shutdown, WithdrawHealth, MarkServing, ListenerExits,
   Admitted, TurnedAway, Registered, Open, OpenReturns, GiveUp,
   BeginClosing, OpenSettles, Closed, Quietly, LeaseGoes, LeaseFault, LateLease,
   LoseOpen, LostOpenFails, NoticeCancel, ReleaseAll, TaskEnds, Quiesce,
   QuiesceHealth, CloseAndSnapshot, GraceEnds, DrainEnds, StopServer, GateNext, GateStep

\* A freshly entered plugin satisfies the invariant.
LEMMA LifeInitInv == Init => LifeInv
<1>. SUFFICES ASSUME Init PROVE LifeInv OBVIOUS
<1>1. GateInv BY GateInitInv DEF Init
<1>2. PortInv /\ SessionInv /\ DrainInv /\ CleanShutdown /\ lease \in [Sessions -> Leases]
  BY DEF Init, GateInit, PortInv, SessionInv, DrainInv, CleanShutdown, AtWork, Overdue, Leases
<1>. QED BY <1>1, <1>2 DEF LifeInv

\* The steps of the lifecycle alone.
LEMMA LifecycleStep ==
    ASSUME LifeInv, WithdrawHealth \/ MarkServing \/ ListenerExits \/ Shutdown
    PROVE  PortInv' /\ SessionInv' /\ DrainInv' /\ CleanShutdown' /\ lease' = lease
<1>. USE DEF LifeInv, PortInv, SessionInv, DrainInv, CleanShutdown, session, latch, lifecycle, gateVars
<1>1. CASE WithdrawHealth \/ MarkServing 
  <2>1. /\ closed' = closed /\ active' = active /\ gateLock' = gateLock
        /\ owners' = owners /\ seat' = seat /\ leaked' = leaked
    BY <1>1 DEF WithdrawHealth, MarkServing
  <2>2. /\ admitted' = admitted /\ lease' = lease /\ faulted' = faulted
        /\ drain' = drain /\ waiting' = waiting /\ verdict' = verdict
    BY <1>1 DEF WithdrawHealth, MarkServing
  <2>. QED BY <2>1, <2>2
<1>2. CASE ListenerExits BY <1>2 DEF ListenerExits, Fault
<1>3. CASE Quiesce \/ QuiesceHealth \/ StopServer
  <2>1. /\ closed' = closed /\ active' = active /\ gateLock' = gateLock
        /\ owners' = owners /\ seat' = seat /\ leaked' = leaked
    BY <1>3 DEF Quiesce, QuiesceHealth, StopServer
  <2>2. /\ admitted' = admitted /\ lease' = lease /\ faulted' = faulted
        /\ waiting' = waiting /\ verdict' = verdict
    BY <1>3 DEF Quiesce, QuiesceHealth, StopServer
  <2>3. \/ drain' \in {"health", "closing"} /\ drain \in {"no", "health"}
        \/ drain' = "ended" /\ drain = "stopping"
    BY <1>3 DEF Quiesce, QuiesceHealth, StopServer, Stopping, Progress
  <2>. QED BY <2>1, <2>2, <2>3
<1>4. CASE CloseAndSnapshot BY <1>4 DEF CloseAndSnapshot, Close, Progress
<1>5. CASE GraceEnds
  <2>1. \A s \in owners : seat[s] # "out"
    BY DEF GateInv, RegistryTracksHolders
  <2>. QED BY <1>5, <2>1 DEF GraceEnds, Running, ToCancel, Progress
<1>6. CASE DrainEnds
  <2>1. CASE verdict' = "failed" BY <1>6, <2>1 DEF DrainEnds, Progress
  <2>2. CASE verdict' = "clean"
    <3>1. owners = {} /\ ~faulted BY <1>6, <2>2 DEF DrainEnds, DrainFails
    <3>2. \A s \in Sessions : lease[s] \in {"none", "closed", "lost"}
      BY <3>1 DEF GateInv, RegistryTracksHolders, AtWork, Overdue, Leases
    <3>3. Counted = {} BY <3>1 DEF GateInv, RegistryTracksHolders, Counted
    <3>4. active = 0 BY <3>3, FS_EmptySet DEF GateInv, SlotsCounted
    <3>. QED BY <1>6, <3>1, <3>2, <3>4 DEF DrainEnds, Progress
  <2>. QED BY <1>6, <2>1, <2>2 DEF DrainEnds
<1>. QED BY <1>1, <1>2, <1>3, <1>4, <1>5, <1>6 DEF Shutdown

\* The steps of one session.
LEMMA SessionStepInv ==
    ASSUME LifeInv, NEW s \in Sessions, SessionStep(s)
    PROVE  PortInv' /\ SessionInv' /\ DrainInv' /\ CleanShutdown'
           /\ lease' \in [Sessions -> Leases]
<1>. USE DEF LifeInv, PortInv, SessionInv, DrainInv, CleanShutdown, session, latch,
         lifecycle, GateInv, GateTypeOK, RegistryTracksHolders, AtWork, Overdue, Leases
<1>1. CASE Admitted(s) \/ TurnedAway(s)
  BY <1>1 DEF Admitted, TurnedAway, Arrive, Refuse, Sit
<1>2. CASE Registered(s)
  BY <1>2 DEF Registered, Register, TrackOwner, Admits, Sit
<1>3. CASE Open(s) \/ OpenReturns(s) \/ GiveUp(s) \/ BeginClosing(s)
  BY <1>3 DEF Open, OpenReturns, GiveUp, BeginClosing, Quietly, LeaseGoes, gateVars
<1>4. CASE OpenSettles(s) \/ LoseOpen(s) \/ Closed(s) \/ LostOpenFails(s)
  BY <1>4 DEF OpenSettles, LoseOpen, Closed, LostOpenFails, Quietly, LeaseGoes, gateVars
<1>5. CASE LeaseFault(s) BY <1>5 DEF LeaseFault, LeaseGoes, Fault, gateVars
<1>6. CASE LateLease(s) BY <1>6 DEF LateLease, LeaseGoes, Fault, gateVars
<1>7. CASE NoticeCancel(s) BY <1>7 DEF NoticeCancel, LeaseGoes, Fault, gateVars
<1>8. CASE ReleaseAll(s)
  BY <1>8 DEF ReleaseAll, Settled, Release, Released, OwnersWithout, ReturnSlot, LockFree, Sit
<1>9. CASE TaskEnds(s) BY <1>9 DEF TaskEnds, Leave, Sit
<1>. QED BY <1>1, <1>2, <1>3, <1>4, <1>5, <1>6, <1>7, <1>8, <1>9 DEF SessionStep

\* Every step keeps the invariant.
LEMMA LifeStepInv == ASSUME LifeInv, [Next]_vars PROVE LifeInv'
<1>1. GateInv' BY PluginUsesGate, GateStepInv DEF LifeInv
<1>2. CASE UNCHANGED vars
  BY <1>1, <1>2 DEF vars, gateVars, session, latch, lifecycle, LifeInv, PortInv,
     SessionInv, DrainInv, CleanShutdown
<1>3. CASE \E s \in Sessions : SessionStep(s) BY <1>1, <1>3, SessionStepInv DEF LifeInv
<1>4. CASE WithdrawHealth \/ MarkServing \/ ListenerExits \/ Shutdown
  BY <1>1, <1>4, LifecycleStep DEF LifeInv
<1>. QED BY <1>2, <1>3, <1>4 DEF Next

\* Every reachable state of the plugin satisfies the invariant.
THEOREM LifeInvHolds == Spec => []LifeInv
BY LifeInitInv, LifeStepInv, PTL DEF Spec

\* A session leaves the shutdown alone, and the latch but for a fault.
LEMMA FaultOrNot ==
    \A s \in Sessions :
        SessionStep(s) => UNCHANGED lifecycle /\ (UNCHANGED latch \/ Fault)
<1>. SUFFICES ASSUME NEW s \in Sessions, SessionStep(s)
              PROVE  UNCHANGED lifecycle /\ (UNCHANGED latch \/ Fault)
  OBVIOUS
<1> USE DEF session, latch, lifecycle
<1>1. CASE LeaseFault(s) BY <1>1, Zenon DEF LeaseFault, LeaseGoes
<1>2. CASE LateLease(s) BY <1>2, Zenon DEF LateLease, LeaseGoes
<1>3. CASE NoticeCancel(s) BY <1>3, Zenon DEF NoticeCancel, LeaseGoes
<1>4. CASE Admitted(s) \/ TurnedAway(s) \/ Registered(s) \/ Open(s) \/ OpenReturns(s)
  BY <1>4, Zenon DEF Admitted, TurnedAway, Registered, Open, OpenReturns, Quietly, LeaseGoes
<1>5. CASE GiveUp(s) \/ BeginClosing(s) \/ OpenSettles(s) \/ Closed(s)
  BY <1>5, Zenon DEF GiveUp, BeginClosing, OpenSettles, Closed, Quietly, LeaseGoes
<1>7. CASE LoseOpen(s) \/ LostOpenFails(s)
  BY <1>7, Zenon DEF LoseOpen, LostOpenFails, Quietly, LeaseGoes
<1>6. CASE ReleaseAll(s) \/ TaskEnds(s)
  BY <1>6, Zenon DEF ReleaseAll, TaskEnds, LeaseGoes
<1>. QED BY <1>1, <1>2, <1>3, <1>4, <1>5, <1>6, <1>7, Zenon DEF SessionStep

\* Every variable of the plugin keeps its type.  Who drain waits for and
\* cancels, and the host's admission, are sets of sessions; a task drain
\* cancelled is one it still waits for.
THEOREM PluginTypes == Spec => []TypeOK
<1> DEFINE OwnersType == /\ admitted \subseteq Sessions
                         /\ waiting \subseteq Sessions /\ cancelled \subseteq waiting
                         /\ drain \in {"no", "health", "closing"} => waiting = {}
           FlagsType  == /\ quiesced \in BOOLEAN
                         /\ listener \in BOOLEAN
                         /\ ready \in BOOLEAN /\ live \in BOOLEAN /\ faulted \in BOOLEAN
           StageType  == /\ withdraw \in {"none", "due", "half"}
                         /\ marking \in {"no", "aggregate", "both", "done"}
                         /\ drain \in {"no", "health", "closing", "grace", "cancelled",
                                       "stopping", "ended"}
                         /\ verdict \in {"none", "clean", "failed"}
           SignsType  == republished \subseteq Signs
           HealthType == health \in [Services -> BOOLEAN]
<1> USE DEF vars, gateVars, session, latch, lifecycle
<1>1. Init => OwnersType /\ FlagsType /\ StageType /\ SignsType /\ HealthType
  BY DEF Init, Services
<1>2. LifeInv /\ OwnersType /\ [Next]_vars => OwnersType'
  <2>. SUFFICES ASSUME LifeInv, OwnersType, [Next]_vars PROVE OwnersType' OBVIOUS
  <2>1. owners \subseteq Sessions BY DEF LifeInv, GateInv, GateTypeOK
  <2>2. CASE WithdrawHealth \/ MarkServing \/ ListenerExits \/ UNCHANGED vars
    BY <2>2 DEF WithdrawHealth, MarkServing, ListenerExits
  <2>3. CASE Quiesce \/ QuiesceHealth \/ DrainEnds \/ StopServer
    BY <2>3 DEF Quiesce, QuiesceHealth, DrainEnds, StopServer, Stopping, Progress
  <2>4. CASE CloseAndSnapshot
    BY <2>1, <2>4 DEF CloseAndSnapshot, Progress
  <2>5. CASE GraceEnds
    BY <2>5 DEF GraceEnds, Running, ToCancel, Progress
  <2>6. ASSUME NEW s \in Sessions, SessionStep(s) PROVE OwnersType'
    BY <2>6 DEF SessionStep, Admitted, TurnedAway, Registered, Open, OpenReturns, GiveUp,
       BeginClosing, OpenSettles, Closed, Quietly, LeaseGoes, LeaseFault, LateLease,
       LoseOpen, LostOpenFails, NoticeCancel, ReleaseAll, TaskEnds
  <2>. QED BY <2>2, <2>3, <2>4, <2>5, <2>6 DEF Next, Shutdown
<1>3. FlagsType /\ [Next]_vars => FlagsType'
  <2>. SUFFICES ASSUME FlagsType, [Next]_vars PROVE FlagsType' OBVIOUS
  <2>1. CASE WithdrawHealth BY <2>1, Zenon DEF WithdrawHealth
  <2>2. CASE MarkServing BY <2>2, Zenon DEF MarkServing
  <2>3. CASE ListenerExits BY <2>3, Zenon DEF ListenerExits, Fault
  <2>4. CASE Quiesce BY <2>4, Zenon DEF Quiesce
  <2>5. CASE QuiesceHealth BY <2>5, Zenon DEF QuiesceHealth
  <2>6. CASE CloseAndSnapshot BY <2>6, Zenon DEF CloseAndSnapshot
  <2>7. CASE GraceEnds BY <2>7, Zenon DEF GraceEnds
  <2>8. CASE DrainEnds BY <2>8, Zenon DEF DrainEnds
  <2>9. CASE StopServer BY <2>9, Zenon DEF StopServer
  <2>10. ASSUME NEW s \in Sessions, SessionStep(s) PROVE FlagsType'
    <3>1. UNCHANGED lifecycle /\ (UNCHANGED latch \/ Fault)
      BY <2>10, FaultOrNot
    <3>. QED BY <3>1, Zenon DEF Fault
  <2>11. CASE UNCHANGED vars BY <2>11, Zenon
  <2>. QED BY <2>1, <2>2, <2>3, <2>4, <2>5, <2>6, <2>7, <2>8, <2>9, <2>10, <2>11,
              Zenon DEF Next, Shutdown
<1>4. StageType /\ [Next]_vars => StageType'
  <2>. SUFFICES ASSUME StageType, [Next]_vars PROVE StageType' OBVIOUS
  <2>1. CASE WithdrawHealth BY <2>1, Zenon DEF WithdrawHealth
  <2>2. CASE MarkServing BY <2>2, Zenon DEF MarkServing
  <2>3. CASE ListenerExits BY <2>3, Zenon DEF ListenerExits, Fault
  <2>4. CASE Quiesce BY <2>4, Zenon DEF Quiesce, Progress
  <2>5. CASE QuiesceHealth BY <2>5, Zenon DEF QuiesceHealth, Progress
  <2>6. CASE CloseAndSnapshot BY <2>6, Zenon DEF CloseAndSnapshot, Progress
  <2>7. CASE GraceEnds BY <2>7, Zenon DEF GraceEnds, Progress
  <2>8. CASE DrainEnds BY <2>8, Zenon DEF DrainEnds, Progress
  <2>9. CASE StopServer BY <2>9, Zenon DEF StopServer, Progress
  <2>10. ASSUME NEW s \in Sessions, SessionStep(s) PROVE StageType'
    <3>1. UNCHANGED lifecycle /\ (UNCHANGED latch \/ Fault)
      BY <2>10, FaultOrNot
    <3>. QED BY <3>1, Zenon DEF Fault
  <2>11. CASE UNCHANGED vars BY <2>11, Zenon
  <2>. QED BY <2>1, <2>2, <2>3, <2>4, <2>5, <2>6, <2>7, <2>8, <2>9, <2>10, <2>11,
              Zenon DEF Next, Shutdown
<1>5. HealthType /\ [Next]_vars => HealthType'
  <2>. SUFFICES ASSUME HealthType, [Next]_vars PROVE HealthType' OBVIOUS
  <2>1. \/ health' = health
        \/ \E service \in Services : \/ health' = [health EXCEPT ![service] = TRUE]
                                     \/ health' = [health EXCEPT ![service] = FALSE]
    <3>1. "" \in Services /\ "riva" \in Services BY DEF Services
    <3>2. CASE \E s \in Sessions : SessionStep(s) BY <3>2, FaultOrNot, Zenon
    <3>3. CASE WithdrawHealth \/ MarkServing
      BY <3>1, <3>3, Zenon DEF WithdrawHealth, MarkServing
    <3>4. CASE Quiesce \/ QuiesceHealth BY <3>1, <3>4, Zenon DEF Quiesce, QuiesceHealth
    <3>5. CASE \/ ListenerExits \/ CloseAndSnapshot \/ GraceEnds \/ DrainEnds
               \/ StopServer \/ UNCHANGED vars
      BY <3>5, Zenon DEF ListenerExits, CloseAndSnapshot, GraceEnds, DrainEnds,
                         StopServer
    <3>. QED BY <3>2, <3>3, <3>4, <3>5, Zenon DEF Next, Shutdown
  <2>. QED BY <2>1
<1>6. SignsType /\ [Next]_vars => SignsType'
  <2>. SUFFICES ASSUME SignsType, [Next]_vars PROVE SignsType' OBVIOUS
  <2>1. CASE MarkServing BY <2>1 DEF MarkServing, Sets, Signs, Services
  <2>2. CASE ~MarkServing
    <3>1. CASE \E s \in Sessions : SessionStep(s) BY <3>1, FaultOrNot, Zenon
    <3>2. CASE \/ WithdrawHealth \/ ListenerExits \/ Shutdown \/ UNCHANGED vars
      BY <3>2, Zenon DEF WithdrawHealth, ListenerExits, Shutdown, Quiesce, QuiesceHealth,
         CloseAndSnapshot, GraceEnds, DrainEnds, StopServer
    <3>. QED BY <2>2, <3>1, <3>2, Zenon DEF Next
  <2>. QED BY <2>1, <2>2
<1>7. LifeInv /\ OwnersType /\ FlagsType /\ StageType /\ SignsType /\ HealthType => TypeOK
  BY DEF LifeInv, GateInv, TypeOK
<1>. QED BY <1>1, <1>2, <1>3, <1>4, <1>5, <1>6, <1>7, LifeInvHolds, PTL DEF Spec

\* When quiesce_and_drain returns without raising, no owner is registered, no
\* slot is taken, and no lease is at work, overdue or stuck.
THEOREM ShutdownIsClean == Spec => []CleanShutdown
<1>1. LifeInv => CleanShutdown BY DEF LifeInv
<1>. QED BY <1>1, LifeInvHolds, PTL

\* The set of tasks drain took at its start covers every owner there will be.
THEOREM SnapshotIsComplete == Spec => []SnapshotComplete
<1>1. LifeInv => SnapshotComplete BY DEF LifeInv, DrainInv, SnapshotComplete
<1>. QED BY <1>1, LifeInvHolds, PTL

\* The host's own admission count covers every registered session, and every
\* lease at work belongs to a registered session.
THEOREM HostCovers == Spec => []HostCoversSessions
<1>1. LifeInv => HostCoversSessions
  BY DEF LifeInv, SessionInv, GateInv, RegistryTracksHolders, HostCoversSessions
<1>. QED BY <1>1, LifeInvHolds, PTL

\* The plugin drives the gate only by the gate's own steps: whatever is proved
\* of the gate for any callers holds inside the plugin.
THEOREM PluginImplementsGate == Spec => GateSpec
<1>1. Init => GateInit BY DEF Init
<1>. QED BY <1>1, PluginUsesGate, PTL DEF Spec, GateSpec

\* In the plugin, too, admission is one seat per session within the cap, and
\* closed for good once drain closed it.
THEOREM PluginKeepsAdmission == Spec => AdmissionHolds
BY PluginImplementsGate, ImplementsAdmission, PTL

-----------------------------------------------------------------------------
\* Readiness and health along the shutdown: the aggregate service goes with
\* quiesce, the other one before admission is closed, and what is shown later
\* on is in the history of mark_serving.
ServingInv ==
    /\ health \in [Services -> BOOLEAN]
    /\ quiesced <=> drain # "no"
    /\ quiesced /\ ready => "ready" \in republished
    /\ quiesced /\ health[""] => "" \in republished
    /\ drain \notin {"no", "health"} /\ health["riva"] => "riva" \in republished
    /\ closed => drain \notin {"no", "health", "closing"}

\* What mark_serving does when it sets one sign.
SetTo(sign) == IF sign = "ready" THEN ready' = TRUE /\ health' = health
               ELSE ready' = ready /\ health' = [health EXCEPT ![sign] = TRUE]

\* Every step keeps it: only mark_serving shows anything again.
LEMMA ServingStep == ASSUME ServingInv, [Next]_vars PROVE ServingInv'
<1>. USE DEF ServingInv, Services, session, latch, lifecycle, gateVars
<1>1. CASE UNCHANGED vars BY <1>1 DEF vars
<1>2. CASE WithdrawHealth BY <1>2 DEF WithdrawHealth
<1>3. CASE MarkServing
  <2>1. /\ quiesced' = quiesced /\ drain' = drain /\ closed' = closed
        /\ \E sign \in {"", "riva", "ready"} : Sets(sign) /\ SetTo(sign)
    BY <1>3 DEF MarkServing, SetTo
  <2>2. CASE ~quiesced BY <2>1, <2>2 DEF SetTo
  <2>3. CASE quiesced BY <2>1, <2>3 DEF Sets, SetTo
  <2>. QED BY <2>2, <2>3
<1>4. CASE ListenerExits BY <1>4 DEF ListenerExits, Fault
<1>5. CASE Quiesce BY <1>5 DEF Quiesce, Progress
<1>6. CASE QuiesceHealth BY <1>6 DEF QuiesceHealth, Progress
<1>7. CASE CloseAndSnapshot BY <1>7 DEF CloseAndSnapshot, Close, Progress
<1>8. CASE GraceEnds BY <1>8 DEF GraceEnds, Progress
<1>9. CASE DrainEnds BY <1>9 DEF DrainEnds, Progress
<1>10. CASE StopServer BY <1>10 DEF StopServer, Stopping, Progress
<1>11. ASSUME NEW s \in Sessions, SessionStep(s) PROVE ServingInv'
  <2>1. UNCHANGED lifecycle /\ (ready' = ready \/ ~ready')
    BY <1>11, FaultOrNot DEF Fault
  <2>2. closed' = closed
    BY <1>11 DEF SessionStep, Admitted, TurnedAway, Registered, Open, OpenReturns, GiveUp,
       BeginClosing, OpenSettles, LoseOpen, Closed, Quietly, LeaseGoes, LeaseFault,
       LateLease, LostOpenFails, NoticeCancel, ReleaseAll, TaskEnds, Arrive, Refuse,
       Register, Release, Leave
  <2>3. /\ health' = health /\ quiesced' = quiesced
        /\ republished' = republished /\ drain' = drain
    BY <2>1
  <2>4. ready' => ready BY <2>1, Zenon
  <2>. QED BY <2>2, <2>3, <2>4
<1>. QED BY <1>1, <1>2, <1>3, <1>4, <1>5, <1>6, <1>7, <1>8, <1>9, <1>10, <1>11
         DEF Next, Shutdown

\* What the plugin still shows of itself at its shutdown was set by a
\* mark_serving after quiesce, whatever withdrawals and faults run meanwhile.
THEOREM OnlyMarkServingRepublishes == Spec => []QuiesceWithdraws
<1>1. Init => ServingInv BY DEF Init, GateInit, ServingInv, Services
<1>2. ServingInv => QuiesceWithdraws
  BY DEF ServingInv, QuiesceWithdraws, Services
<1>. QED BY <1>1, <1>2, ServingStep, PTL DEF Spec

-----------------------------------------------------------------------------
\* The owner of session s, as DirectLeaseOwner's proofs describe it.
Owner(s) == INSTANCE OwnerOutcome WITH outcome <- lease[s], reported <- faulted

\* A task slot is taken over by the next task, or its task ended before it
\* asked for a lease.
Renewals == {<<"closed", "none">>, <<"none", "closed">>}

\* A move of the owner that comes with a report latches a fault.
LeaseMove(s) == \/ Owner(s)!Quietly
                \/ Owner(s)!Reporting /\ Fault
                \/ <<lease[s], lease'[s]>> \in Renewals

\* Each lease makes the moves of its owner and no others.
LeasesFollowOwners == [][\A s \in Sessions : lease'[s] # lease[s] => LeaseMove(s)]_vars

\* A step of one session moves at most its own lease.
LEMMA LeaseOfSession ==
    ASSUME LifeInv, NEW s \in Sessions, SessionStep(s),
           NEW r \in Sessions, lease'[r] # lease[r]
    PROVE  LeaseMove(r)
<1>. USE DEF LifeInv, LeaseMove, Renewals, latch, Owner!Quietly, Owner!Reporting, Owner!QuietMoves,
         Owner!ReportedMoves
<1>1. CASE Admitted(s) \/ TurnedAway(s) \/ Registered(s) \/ ReleaseAll(s)
  BY <1>1 DEF Admitted, TurnedAway, Registered, ReleaseAll, session
<1>2. CASE Open(s) \/ OpenReturns(s) \/ GiveUp(s) \/ BeginClosing(s)
  BY <1>2 DEF Open, OpenReturns, GiveUp, BeginClosing, Quietly, LeaseGoes
<1>3. CASE OpenSettles(s) \/ LoseOpen(s) \/ Closed(s) \/ LostOpenFails(s)
  BY <1>3 DEF OpenSettles, LoseOpen, Closed, LostOpenFails, Quietly, LeaseGoes
<1>4. CASE LeaseFault(s) BY <1>4 DEF LeaseFault, LeaseGoes, Fault
<1>5. CASE LateLease(s) BY <1>5 DEF LateLease, LeaseGoes, Fault
<1>6. CASE NoticeCancel(s) BY <1>6 DEF NoticeCancel, LeaseGoes, Fault
<1>7. CASE TaskEnds(s) BY <1>7 DEF TaskEnds
<1>. QED BY <1>1, <1>2, <1>3, <1>4, <1>5, <1>6, <1>7 DEF SessionStep

\* The lifecycle moves no lease, and a session only its own, as its owner would.
THEOREM LeasesMoveAsOwnersDo == Spec => LeasesFollowOwners
<1>1. ASSUME LifeInv, Next, NEW r \in Sessions, lease'[r] # lease[r]
      PROVE  LeaseMove(r)
  <2>1. PICK s \in Sessions : SessionStep(s)
    BY <1>1, LifecycleStep DEF Next
  <2>. QED BY <1>1, <2>1, LeaseOfSession
<1>2. LifeInv /\ [Next]_vars =>
         [\A s \in Sessions : lease'[s] # lease[s] => LeaseMove(s)]_vars
  BY <1>1
<1>. QED BY <1>2, LifeInvHolds, PTL DEF Spec, LeasesFollowOwners

\* The other way round: whatever move its owner makes, the plugin's model lets
\* the session make it, in every reachable state.  A registered session begins
\* to open; what goes on after it needs no more of its session than LifeInv says.
THEOREM OwnersMayMove ==
    ASSUME LifeInv, NEW s \in Sessions, NEW to,
           lease[s] = "none" => seat[s] = "held",
           LeaseGoes(s, to), UNCHANGED cancelled,
           \/ <<lease[s], to>> \in Owner(s)!QuietMoves /\ UNCHANGED latch
           \/ <<lease[s], to>> \in Owner(s)!ReportedMoves /\ Fault
    PROVE  SessionStep(s)
<1>. USE DEF Owner!QuietMoves, Owner!ReportedMoves
<1>1. lease[s] \in AtWork \cup {"none"} => seat[s] = "held"
  BY DEF LifeInv, SessionInv
<1>2. CASE <<lease[s], to>> \in Owner(s)!QuietMoves /\ UNCHANGED latch
  <2>1. CASE lease[s] \in {"late", "lateFailing", "lost"}
    BY <1>2, <2>1 DEF SessionStep, LateLease, LostOpenFails
  <2>2. CASE lease[s] \in AtWork \cup {"none"}
    <3>1. \/ lease[s] = "none" /\ to = "opening"
          \/ lease[s] = "opening" /\ to \in {"live", "closed", "settling"}
          \/ lease[s] = "settling" /\ to \in {"closing", "closed", "lost"}
          \/ lease[s] = "live" /\ to = "closing"
          \/ lease[s] = "closing" /\ to = "closed"
          \/ lease[s] = "failing" /\ to = "stuck"
      BY <1>2, <2>2 DEF AtWork
    <3>2. Quietly(s, lease[s], to) BY <1>1, <1>2, <2>2 DEF Quietly
    <3>. QED BY <3>1, <3>2 DEF SessionStep, Open, OpenReturns, GiveUp, BeginClosing,
             OpenSettles, LoseOpen, Closed
  <2>. QED BY <1>2, <2>1, <2>2 DEF AtWork
<1>3. CASE <<lease[s], to>> \in Owner(s)!ReportedMoves /\ Fault
  <2>1. CASE lease[s] \in {"late", "lateFailing"}
    BY <1>3, <2>1 DEF SessionStep, LateLease
  <2>2. CASE lease[s] \in AtWork
    <3>1. \/ lease[s] = "settling" /\ to = "late"
          \/ lease[s] = "closing" /\ to \in {"failing", "stuck"}
          \/ lease[s] = "failing" /\ to = "stuck"
      BY <1>3, <2>2 DEF AtWork
    <3>2. LeaseFault(s) BY <1>1, <1>3, <2>2, <3>1 DEF LeaseFault
    <3>. QED BY <3>2 DEF SessionStep
  <2>. QED BY <1>3, <2>1, <2>2 DEF AtWork
<1>. QED BY <1>2, <1>3

-----------------------------------------------------------------------------
\* The session in task slot s, as the surfaces' models describe it; what it
\* served is not told apart here.
Surface(s) == INSTANCE SessionContract WITH
    admission <- CASE s \in admitted -> "during"
                   [] s \notin admitted /\ seat[s] = "out" -> "before"
                   [] OTHER -> "after",
    lease <- CASE lease[s] \in {"none", "opening", "settling"} -> "none"
               [] lease[s] \in {"live", "closing", "failing"} -> "live"
               [] OTHER -> "settled",
    served <- FALSE

\* The task in the slot is over: it holds nothing and works on no lease.
SlotHandedOn(s) == /\ seat[s] # "out" /\ seat'[s] = "out"
                   /\ s \notin admitted' /\ lease'[s] \notin AtWork

\* The slot is taken by a new task.
SlotTaken(s) == seat[s] = "out" /\ seat'[s] # "out"

SurfaceMove(s) == /\ Surface(s)!Next \/ UNCHANGED Surface(s)!vars \/ SlotHandedOn(s)
                  /\ SlotTaken(s) => Surface(s)!Init

\* Each task begins and moves as the contract of the surfaces allows.
SessionsKeepContract == [][\A s \in Sessions : SurfaceMove(s)]_vars

\* A step of one session moves no other, and itself as the contract allows.
LEMMA SurfaceOfSession ==
    ASSUME LifeInv, NEW s \in Sessions, SessionStep(s), NEW r \in Sessions
    PROVE  SurfaceMove(r)
<1>. USE DEF LifeInv, PortInv, SessionInv, GateInv, GateTypeOK, AtWork, Overdue, Leases, SurfaceMove, SlotHandedOn,
         SlotTaken, Surface!Init, Surface!vars, Surface!Next, Surface!Admit, Surface!Refuse, Surface!Open, Surface!Settle,
         Surface!Serve, Surface!Release, session, gateVars
<1>1. CASE Admitted(s) BY <1>1 DEF Admitted, Arrive, Sit
<1>2. CASE TurnedAway(s) BY <1>2 DEF TurnedAway, Refuse, Sit
<1>3. CASE Registered(s) BY <1>3 DEF Registered, Register, TrackOwner, Sit
<1>4. CASE Open(s) \/ OpenReturns(s) \/ GiveUp(s) \/ BeginClosing(s)
  BY <1>4 DEF Open, OpenReturns, GiveUp, BeginClosing, Quietly, LeaseGoes
<1>5. CASE OpenSettles(s) \/ LoseOpen(s) \/ Closed(s) \/ LostOpenFails(s)
  BY <1>5 DEF OpenSettles, LoseOpen, Closed, LostOpenFails, Quietly, LeaseGoes
<1>6. CASE LeaseFault(s) BY <1>6 DEF LeaseFault, LeaseGoes
<1>7. CASE LateLease(s) BY <1>7 DEF LateLease, LeaseGoes
<1>8. CASE NoticeCancel(s) BY <1>8 DEF NoticeCancel, LeaseGoes
<1>9. CASE ReleaseAll(s)
  BY <1>9 DEF ReleaseAll, Settled, Release, Released, ReturnSlot, LockFree, Sit
<1>10. CASE TaskEnds(s) BY <1>10 DEF TaskEnds, Leave, Sit
<1>. QED BY <1>1, <1>2, <1>3, <1>4, <1>5, <1>6, <1>7, <1>8, <1>9, <1>10 DEF SessionStep

\* The lifecycle changes no session.
LEMMA SurfaceOfLifecycle ==
    ASSUME WithdrawHealth \/ MarkServing \/ ListenerExits \/ Shutdown,
           NEW r \in Sessions
    PROVE  SurfaceMove(r)
<1>1. admitted' = admitted /\ lease' = lease /\ seat' = seat
  BY DEF Shutdown, WithdrawHealth, MarkServing, ListenerExits, Quiesce,
     QuiesceHealth, CloseAndSnapshot, Close, GraceEnds, DrainEnds, StopServer, session, gateVars
<1>. QED BY <1>1 DEF SurfaceMove, SlotTaken, Surface!vars

\* A session of the plugin is one of the sessions the three surfaces' models
\* show: admitted once, at work on a lease only while admitted, and giving its
\* admission back with no lease open.
THEOREM SessionsAreSurfaces == Spec => SessionsKeepContract
<1>1. ASSUME LifeInv, Next, NEW r \in Sessions PROVE SurfaceMove(r)
  BY <1>1, SurfaceOfSession, SurfaceOfLifecycle DEF Next
<1>2. LifeInv /\ [Next]_vars => [\A s \in Sessions : SurfaceMove(s)]_vars
  BY <1>1
<1>. QED BY <1>2, LifeInvHolds, PTL DEF Spec, SessionsKeepContract
=============================================================================

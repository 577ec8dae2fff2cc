------------------------- MODULE LoadShedGateProofs -------------------------
(* Proofs about LoadShedGate for any finite set of sessions, any cap, and   *)
(* an owner_register port that may or may not suspend.                      *)
EXTENDS LoadShedGate, FiniteSetTheorems, TLAPS

\* The gate's lock is held only by a registration in progress, which found
\* the gate open and below its cap; a leaked slot has no session at its desk.
LockInv ==
    /\ \A s \in Sessions : seat[s] = "tracking" <=> gateLock = s
    /\ gateLock # None => Suspending /\ Admits
    /\ \A s \in Sessions : seat[s] = "releasing" => Suspending
    /\ leaked # {} => Suspending
    /\ \A s \in leaked : seat[s] \in {"released", "out"}

GateInv == GateTypeOK /\ LockInv /\ RegistryTracksHolders /\ SlotsCounted

\* Counting one more or one fewer session moves the cardinality by one.
LEMMA CountedCardinality ==
    ASSUME leaked \subseteq Sessions
    PROVE  /\ IsFiniteSet(Counted) /\ Cardinality(Counted) \in Nat
           /\ \A s \in Sessions : s \notin Counted =>
                 Cardinality(Counted \cup {s}) = Cardinality(Counted) + 1
           /\ \A s \in Counted : Cardinality(Counted \ {s}) = Cardinality(Counted) - 1
<1>1. Counted \subseteq Sessions BY DEF Counted
<1>2. IsFiniteSet(Counted) BY <1>1, FS_Subset, GateAssumption
<1>. QED BY <1>2, FS_CardinalityType, FS_AddElement, FS_RemoveElement

\* A fresh gate satisfies the invariant.
LEMMA GateInitInv == GateInit => GateInv
<1>. SUFFICES ASSUME GateInit PROVE GateInv OBVIOUS
<1>1. GateTypeOK /\ LockInv /\ RegistryTracksHolders
  BY GateAssumption DEF GateInit, GateTypeOK, LockInv, RegistryTracksHolders, Seats
<1>2. Counted = {} BY DEF GateInit, Counted
<1>3. SlotsCounted BY <1>2, FS_EmptySet, GateAssumption DEF GateInit, SlotsCounted
<1>. QED BY <1>1, <1>3 DEF GateInv

\* Every step of the gate keeps everything but the count.
LEMMA GateStepFlags ==
    ASSUME GateInv, [GateNext]_gateVars
    PROVE  LockInv' /\ RegistryTracksHolders' /\ leaked' \subseteq Sessions
<1>. USE GateAssumption DEF GateInv, GateTypeOK, LockInv, RegistryTracksHolders,
         Seats, Admits, LockFree, Sit
<1>1. CASE UNCHANGED gateVars BY <1>1 DEF gateVars
<1>2. CASE Close BY <1>2 DEF Close
<1>3. ASSUME NEW s \in Sessions, GateStep(s)
      PROVE  LockInv' /\ RegistryTracksHolders' /\ leaked' \subseteq Sessions
  <2>1. CASE Arrive(s) \/ Refuse(s) \/ Leave(s) BY <2>1 DEF Arrive, Refuse, Leave
  <2>2. CASE Register(s) BY <2>2 DEF Register, TrackOwner
  <2>3. CASE RegisterSuspends(s) BY <2>3 DEF RegisterSuspends
  <2>4. CASE Tracked(s) BY <2>4 DEF Tracked, TrackOwner
  <2>5. CASE RegisterFails(s) BY <2>5 DEF RegisterFails
  <2>6. CASE Release(s) BY <2>6 DEF Release, Released, OwnersWithout, ReturnSlot
  <2>7. CASE SlotReturned(s) BY <2>7 DEF SlotReturned, ReturnSlot
  <2>8. CASE ReleaseInterrupted(s) BY <2>8 DEF ReleaseInterrupted
  <2>. QED BY <1>3, <2>1, <2>2, <2>3, <2>4, <2>5, <2>6, <2>7, <2>8 DEF GateStep
<1>. QED BY <1>1, <1>2, <1>3 DEF GateNext

\* A step counts one session in with active + 1, one out with active - 1, or
\* counts the same sessions as before.
LEMMA GateStepCount ==
    ASSUME GateInv, [GateNext]_gateVars
    PROVE  \/ Counted' = Counted /\ active' = active
           \/ \E s \in Sessions \ Counted :
                 /\ Counted' = Counted \cup {s} /\ active' = active + 1
                 /\ active < MaxSessions
           \/ \E s \in Counted : Counted' = Counted \ {s} /\ active' = active - 1
<1>. USE GateAssumption DEF GateInv, GateTypeOK, LockInv, Counted, Seats, Admits,
         LockFree, Sit
<1>1. CASE UNCHANGED gateVars BY <1>1 DEF gateVars
<1>2. CASE Close BY <1>2 DEF Close
<1>3. ASSUME NEW s \in Sessions,
             \/ Arrive(s) \/ Refuse(s) \/ Leave(s) \/ RegisterSuspends(s)
             \/ RegisterFails(s) \/ ReleaseInterrupted(s)
      PROVE  Counted' = Counted /\ active' = active
  BY <1>3 DEF Arrive, Refuse, Leave, RegisterSuspends, RegisterFails, ReleaseInterrupted
<1>4. ASSUME NEW s \in Sessions, Register(s) \/ Tracked(s)
      PROVE  /\ s \notin Counted /\ Counted' = Counted \cup {s}
             /\ active' = active + 1 /\ active < MaxSessions
  BY <1>4 DEF Register, Tracked, TrackOwner
<1>5. ASSUME NEW s \in Sessions, Release(s) \/ SlotReturned(s)
      PROVE  \/ Counted' = Counted /\ active' = active
             \/ s \in Counted /\ Counted' = Counted \ {s} /\ active' = active - 1
  BY <1>5 DEF Release, Released, SlotReturned, ReturnSlot
<1>. QED BY <1>1, <1>2, <1>3, <1>4, <1>5 DEF GateNext, GateStep

\* Every step of the gate keeps the invariant.
LEMMA GateStepInv == ASSUME GateInv, [GateNext]_gateVars PROVE GateInv'
<1>. USE GateAssumption DEF GateInv
<1>1. LockInv' /\ RegistryTracksHolders' /\ leaked' \subseteq Sessions BY GateStepFlags
<1>2. SlotsCounted' /\ active' \in Nat
  <2>1. leaked \subseteq Sessions /\ active \in Nat BY DEF GateTypeOK
  <2>2. active = Cardinality(Counted) /\ active <= MaxSessions BY DEF SlotsCounted
  <2>3. /\ Cardinality(Counted) \in Nat
        /\ \A s \in Sessions : s \notin Counted =>
              Cardinality(Counted \cup {s}) = Cardinality(Counted) + 1
        /\ \A s \in Counted : Cardinality(Counted \ {s}) = Cardinality(Counted) - 1
    BY <2>1, CountedCardinality
  <2>4. Counted' \subseteq Sessions /\ IsFiniteSet(Counted')
    BY <1>1, FS_Subset DEF Counted
  <2>5. Cardinality(Counted') \in Nat BY <2>4, FS_CardinalityType
  <2>6. active' = Cardinality(Counted') /\ active' <= MaxSessions
    BY <2>1, <2>2, <2>3, GateStepCount
  <2>. QED BY <2>5, <2>6 DEF SlotsCounted
<1>3. GateTypeOK'
  <2>1. seat' \in [Sessions -> Seats] /\ gateLock' \in Sessions \cup {None}
        /\ closed' \in BOOLEAN /\ owners' \subseteq Sessions
    BY DEF GateTypeOK, GateNext, GateStep, gateVars, Close, Arrive, Refuse, Register,
       RegisterSuspends, Tracked, TrackOwner, RegisterFails, Release, Released, OwnersWithout, ReturnSlot,
       SlotReturned, ReleaseInterrupted, Leave, Sit, Seats
  <2>. QED BY <1>1, <1>2, <2>1 DEF GateTypeOK
<1>. QED BY <1>1, <1>2, <1>3

\* Every reachable state of the gate satisfies the invariant.
THEOREM GateInvHolds == GateSpec => []GateInv
BY GateInitInv, GateStepInv, PTL DEF GateSpec

\* Every variable of the gate keeps its type; in particular the counter is
\* never decremented below zero.
THEOREM GateTypes == GateSpec => []GateTypeOK
<1>1. GateInv => GateTypeOK BY DEF GateInv
<1>. QED BY <1>1, GateInvHolds, PTL

\* The gate never admits more than load_shed_max_sessions, and its counter is
\* the number of registrations not yet returned, whoever releases how often.
THEOREM SlotsAreCounted == GateSpec => []SlotsCounted
<1>1. GateInv => SlotsCounted BY DEF GateInv
<1>. QED BY <1>1, GateInvHolds, PTL

\* The registry that drain reads holds exactly the registered sessions.
THEOREM RegistryIsExact == GateSpec => []RegistryTracksHolders
<1>1. GateInv => RegistryTracksHolders BY DEF GateInv
<1>. QED BY <1>1, GateInvHolds, PTL

\* With a registry that never suspends, as the plugin's, the gate's counter
\* and the registry agree at every moment.
THEOREM GateAndRegistryAgree == GateSpec => []CountsAgree
<1>1. GateInv => CountsAgree
  <2>. SUFFICES ASSUME GateInv, ~Suspending PROVE active = Cardinality(owners)
    BY DEF CountsAgree
  <2>1. Counted = owners BY DEF GateInv, LockInv, RegistryTracksHolders, Counted
  <2>. QED BY <2>1 DEF GateInv, SlotsCounted
<1>. QED BY <1>1, GateInvHolds, PTL

\* Once close() has returned no owner appears and no slot is taken, not even
\* by a candidate that was being registered when close() was called.
THEOREM CloseIsFinal == GateSpec => ClosedForGood
<1>1. GateInv /\ [GateNext]_gateVars
         => [closed => owners' \subseteq owners /\ active' <= active]_gateVars
  <2>. SUFFICES ASSUME GateInv, GateNext, closed
                PROVE  owners' \subseteq owners /\ active' <= active
    BY DEF gateVars
  <2>1. active \in Nat BY DEF GateInv, GateTypeOK
  <2>2. ASSUME NEW s \in Sessions PROVE ~Register(s) /\ ~Tracked(s)
    BY GateAssumption DEF GateInv, LockInv, Admits, Register, Tracked
  <2>3. ASSUME NEW s \in Sessions, Release(s) \/ SlotReturned(s)
        PROVE  owners' \subseteq owners /\ active' <= active
    <3>1. owners' = owners \/ owners' = owners \ {s}
      BY <2>3 DEF Release, Released, OwnersWithout, ReturnSlot, SlotReturned
    <3>2. active' = active \/ active' = active - 1
      BY <2>3 DEF Release, Released, OwnersWithout, ReturnSlot, SlotReturned
    <3>. QED BY <2>1, <3>1, <3>2
  <2>4. ASSUME NEW s \in Sessions,
               \/ Arrive(s) \/ Refuse(s) \/ RegisterSuspends(s) \/ RegisterFails(s)
               \/ ReleaseInterrupted(s) \/ Leave(s)
        PROVE  owners' = owners /\ active' = active
    BY <2>4 DEF Arrive, Refuse, RegisterSuspends, RegisterFails,
       ReleaseInterrupted, Leave
  <2>5. CASE Close BY <2>1, <2>5 DEF Close
  <2>. QED BY <2>1, <2>2, <2>3, <2>4, <2>5 DEF GateNext, GateStep
<1>. QED BY <1>1, GateInvHolds, PTL DEF GateSpec, ClosedForGood

\* The desk counts its seats as the gate does.
LEMMA DeskCounts == ASSUME NEW S PROVE Desk!Cardinality(S) = Cardinality(S)
BY Zenon DEF Desk!Cardinality, Cardinality

\* One step of the gate is one step of the admission desk, or none.
LEMMA DeskStep ==
    ASSUME GateInv, [GateNext]_gateVars
    PROVE  [Desk!Next]_(Desk!vars)
<1>. USE GateAssumption DEF GateInv, GateTypeOK, LockInv, RegistryTracksHolders, Counted,
         Admits, LockFree, Sit, Desk!vars
<1>1. CASE UNCHANGED gateVars BY <1>1 DEF gateVars
<1>2. CASE Close BY <1>2 DEF Close, Desk!Close, Desk!Next
<1>3. ASSUME NEW s \in Sessions,
             \/ Arrive(s) \/ Refuse(s) \/ Leave(s) \/ RegisterSuspends(s)
             \/ RegisterFails(s) \/ ReleaseInterrupted(s)
      PROVE  UNCHANGED Desk!vars
  BY <1>3 DEF Arrive, Refuse, Leave, RegisterSuspends, RegisterFails, ReleaseInterrupted
<1>4. ASSUME NEW s \in Sessions, Register(s) \/ Tracked(s) PROVE Desk!Admit(s)
  <2>1. Cardinality(Counted) < MaxSessions
    BY <1>4 DEF Register, Tracked, SlotsCounted
  <2>2. /\ ~closed /\ closed' = closed
        /\ s \notin Counted /\ Counted' = Counted \cup {s} /\ owners' = owners \cup {s}
    BY <1>4 DEF Register, Tracked, TrackOwner
  <2>. QED BY <2>1, <2>2, DeskCounts DEF Desk!Admit
<1>5. ASSUME NEW s \in Sessions, Release(s) PROVE Desk!Depart(s) \/ UNCHANGED Desk!vars
  <2>1. CASE seat[s] = "released" BY <1>5, <2>1 DEF Release, Released
  <2>2. CASE seat[s] = "held"
    <3>1. s \in owners /\ owners' = owners \ {s} /\ closed' = closed
      BY <1>5, <2>2 DEF Release, Released, OwnersWithout
    <3>2. Counted' \in {Counted, Counted \ {s}}
      BY <1>5, <2>2 DEF Release, Released, ReturnSlot
    <3>. QED BY <3>1, <3>2 DEF Desk!Depart
  <2>. QED BY <1>5, <2>1, <2>2 DEF Release
<1>6. ASSUME NEW s \in Sessions, SlotReturned(s) PROVE Desk!Return(s)
  BY <1>6 DEF SlotReturned, ReturnSlot, Desk!Return
<1>. QED BY <1>1, <1>2, <1>3, <1>4, <1>5, <1>6 DEF GateNext, GateStep, Desk!Next

\* The gate and the registry together are the admission desk the plugin takes
\* them for, whatever the owner port does under the lock.
THEOREM ImplementsAdmission == GateSpec => AdmissionHolds
<1>1. GateInit => Desk!Init BY DEF GateInit, Desk!Init, Counted
<1>. QED BY <1>1, DeskStep, GateInvHolds, PTL DEF GateSpec, AdmissionHolds, Desk!Spec
=============================================================================

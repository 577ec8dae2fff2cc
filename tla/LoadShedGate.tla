---------------------------- MODULE LoadShedGate ----------------------------
(* The compatibility-local admission gate (admission.py: LoadShedGate and   *)
(* LoadShedRegistration) together with the registry of owner tasks it feeds *)
(* (lifecycle.py: CompatibilityOwnerRegistry.register and OwnerToken).      *)
(*                                                                          *)
(* A session task registers before it touches a request body and releases   *)
(* its registration at its end, possibly more than once.  register() calls  *)
(* the owner_register port under the gate's lock; the registry's own port   *)
(* never suspends there, another one could, and Suspending says which.      *)
(* A mutant is a plausible mistake in the definition that follows it.       *)
EXTENDS Naturals, FiniteSets

CONSTANTS
    Sessions,       \* session tasks
    MaxSessions,    \* load_shed_max_sessions
    Suspending,     \* may owner_register suspend under the gate's lock?
    None

ASSUME GateAssumption == /\ IsFiniteSet(Sessions) /\ None \notin Sessions
                         /\ MaxSessions \in Nat \ {0}
                         /\ Suspending \in BOOLEAN

VARIABLES
    closed, active,     \* _closed, _active
    gateLock,           \* holder of the gate's _lock while it is suspended
    owners,             \* the registry's _owners
    seat,               \* how far each session is with its registration
    leaked              \* sessions interrupted between _released and _active -= 1

gateVars == <<closed, active, gateLock, owners, seat, leaked>>

Seats == {"out", "registering", "tracking", "held", "releasing", "released"}

GateTypeOK == /\ closed \in BOOLEAN /\ active \in Nat
              /\ gateLock \in Sessions \cup {None}
              /\ owners \subseteq Sessions
              /\ seat \in [Sessions -> Seats]
              /\ leaked \subseteq Sessions

GateInit == /\ closed = FALSE /\ active = 0 /\ gateLock = None /\ owners = {}
            /\ seat = [s \in Sessions |-> "out"] /\ leaked = {}

Sit(s, where) == seat' = [seat EXCEPT ![s] = where]

AdmitsBeyondCap == ~closed                  \* mutant: no cap
AdmitsWhenClosed == active < MaxSessions    \* mutant: closing is ignored
Admits == ~closed /\ active < MaxSessions

LockIgnored == TRUE     \* mutant: nobody waits for the lock
LockFree == gateLock = None

\* A task asks for a registration.
Arrive(s) == /\ seat[s] = "out" /\ s \notin leaked
             /\ Sit(s, "registering")
             /\ UNCHANGED <<closed, active, gateLock, owners, leaked>>

\* "service_unavailable" once closed, "busy" at the cap: nothing is kept.
Refuse(s) == /\ seat[s] = "registering" /\ LockFree /\ ~Admits
             /\ Sit(s, "out")
             /\ UNCHANGED <<closed, active, gateLock, owners, leaked>>

TrackOwner(s) == /\ owners' = owners \cup {s}
                 /\ active' = active + 1
                 /\ Sit(s, "held")

Register(s) == /\ seat[s] = "registering" /\ LockFree /\ Admits
               /\ TrackOwner(s)
               /\ UNCHANGED <<closed, gateLock, leaked>>

\* owner_register suspends while the gate's lock is held.
RegisterSuspends(s) == /\ Suspending
                       /\ seat[s] = "registering" /\ LockFree /\ Admits
                       /\ gateLock' = s /\ Sit(s, "tracking")
                       /\ UNCHANGED <<closed, active, owners, leaked>>

Tracked(s) == /\ seat[s] = "tracking"
              /\ TrackOwner(s) /\ gateLock' = None
              /\ UNCHANGED <<closed, leaked>>

\* owner_register raises, or its task is cancelled there or at the lock.
RegisterFails(s) == /\ seat[s] = "tracking" \/ (seat[s] = "registering" /\ ~LockFree)
                    /\ Sit(s, "out")
                    /\ gateLock' = IF gateLock = s THEN None ELSE gateLock
                    /\ UNCHANGED <<closed, active, owners, leaked>>

ReturnSlot(s) == active' = active - 1 /\ Sit(s, "released")

Released(s) == seat[s] = "released"

OwnersWithout(s) == owners \ {s}

\* release(): the owner leaves the registry, then the slot is returned under
\* the gate's lock; a second release does nothing.
Release(s) == /\ seat[s] \in {"held", "released"}
              /\ IF Released(s) THEN UNCHANGED <<active, owners, seat>>
                 ELSE /\ owners' = OwnersWithout(s)
                      /\ IF LockFree THEN ReturnSlot(s)
                         ELSE Sit(s, "releasing") /\ UNCHANGED active
              /\ UNCHANGED <<closed, gateLock, leaked>>

SlotReturned(s) == /\ seat[s] = "releasing" /\ LockFree
                   /\ ReturnSlot(s)
                   /\ UNCHANGED <<closed, gateLock, owners, leaked>>

\* A cancellation while release() waits for the gate's lock: _released is
\* already set, so no later release() returns the slot.
ReleaseInterrupted(s) == /\ seat[s] = "releasing" /\ ~LockFree
                         /\ Sit(s, "released") /\ leaked' = leaked \cup {s}
                         /\ UNCHANGED <<closed, active, gateLock, owners>>

\* The session's task ends.
Leave(s) == /\ seat[s] = "released"
            /\ Sit(s, "out")
            /\ UNCHANGED <<closed, active, gateLock, owners, leaked>>

Close == /\ LockFree
         /\ closed' = TRUE
         /\ UNCHANGED <<active, gateLock, owners, seat, leaked>>

GateStep(s) == \/ Arrive(s) \/ Refuse(s) \/ Register(s) \/ RegisterSuspends(s)
               \/ Tracked(s) \/ RegisterFails(s) \/ Release(s)
               \/ SlotReturned(s) \/ ReleaseInterrupted(s) \/ Leave(s)

GateNext == Close \/ \E s \in Sessions : GateStep(s)

GateSpec == GateInit /\ [][GateNext]_gateVars

-----------------------------------------------------------------------------
Counted == {s \in Sessions : seat[s] \in {"held", "releasing"}} \cup leaked

\* The slot counter is exactly the number of registrations not yet returned,
\* so it never exceeds the configured cap and is never decremented twice,
\* whatever the order of registrations and repeated releases (admission.py:93-103).
SlotsCounted == active = Cardinality(Counted) /\ active <= MaxSessions

\* The registry tracks exactly the sessions that hold a registration: drain
\* finds every one of them, and none that left (lifecycle.py:125-137, 102-108).
RegistryTracksHolders == owners = {s \in Sessions : seat[s] = "held"}

\* With the registry as owner_register, the gate and the registry count the
\* same sessions: no slot is lost and none is returned early.
CountsAgree == ~Suspending => active = Cardinality(owners)

\* close() linearizes shutdown against every candidate (admission.py:165-168):
\* afterwards no owner appears, not even one that was being registered.
ClosedForGood == [][closed => owners' \subseteq owners /\ active' <= active]_gateVars

\* The gate is an admission desk as the plugin understands it: one seat per
\* session, never more than the cap, in the registry before its session works,
\* and none after close() (admission.py:106-168, lifecycle.py:125-137).
Desk == INSTANCE AdmissionContract WITH open <- ~closed, taken <- Counted, present <- owners
AdmissionHolds == Desk!Spec
=============================================================================

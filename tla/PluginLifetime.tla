--------------------------- MODULE PluginLifetime ---------------------------
(* The whole plugin between a successful __aenter__ and the end of          *)
(* quiesce_and_drain (lifecycle.py: PluginLifetime, and the registry's      *)
(* drain), composed with the gate every session registers at and with what  *)
(* a session does to its engine lease.  DirectLeaseOwner gives the detail   *)
(* of the lease: here a step is one of the moves of OwnerOutcome, which     *)
(* DirectLeaseOwner implements.                                             *)
(*                                                                          *)
(* The dialect adapters (gRPC, WebSocket, HTTP) share the order modelled    *)
(* here: host admission, gate registration, open, work, complete or cancel, *)
(* release of the registration and then of the host admission.  A mutant    *)
(* is a plausible mistake in the definition that follows it.                *)
EXTENDS LoadShedGate

VARIABLES
    admitted,               \* who holds the host's admission (external)
    lease,                  \* the engine lease of each session
    ready, live, faulted,   \* ready, live, _failure and _cleanup_faults
    withdraw,               \* progress of _withdraw_health_after_failure
    health,                 \* what the gRPC health service answers
    marking,                \* progress of mark_serving
    republished,            \* history: what mark_serving set since quiesce began
    quiesced,               \* _quiesced
    drain,                  \* progress of quiesce_and_drain
    waiting,                \* the owner tasks drain waits for
    cancelled,              \* tasks drain cancelled that have not noticed yet
    verdict,                \* how quiesce_and_drain ends
    listener                \* the auxiliary gRPC server runs

session == <<admitted, lease, cancelled>>
latch   == <<ready, live, faulted, withdraw>>
lifecycle == <<health, marking, republished, quiesced, drain, waiting, verdict, listener>>
vars == <<gateVars, session, latch, lifecycle>>

Services == {"", "riva"}
Signs    == Services \cup {"ready"}    \* by which the plugin says that it serves
AtWork   == {"opening", "settling", "live", "closing", "failing"}
Overdue  == {"late", "lateFailing"}
Leases   == AtWork \cup Overdue \cup {"none", "closed", "stuck", "lost"}

TypeOK == /\ GateTypeOK
          /\ admitted \subseteq Sessions
          /\ lease \in [Sessions -> Leases]
          /\ ready \in BOOLEAN /\ live \in BOOLEAN /\ faulted \in BOOLEAN
          /\ withdraw \in {"none", "due", "half"}
          /\ health \in [Services -> BOOLEAN]
          /\ marking \in {"no", "aggregate", "both", "done"}
          /\ republished \subseteq Signs /\ quiesced \in BOOLEAN
          /\ drain \in {"no", "health", "closing", "grace", "cancelled", "stopping", "ended"}
          /\ waiting \subseteq Sessions /\ cancelled \subseteq waiting
          /\ verdict \in {"none", "clean", "failed"}
          /\ listener \in BOOLEAN

\* __aenter__ has validated, bound and started everything, NOT_SERVING.
Init == /\ GateInit
        /\ admitted = {}
        /\ lease = [s \in Sessions |-> "none"]
        /\ ready = FALSE /\ live = TRUE /\ faulted = FALSE /\ withdraw = "none"
        /\ health = [v \in Services |-> FALSE]
        /\ marking = "no" /\ republished = {} /\ quiesced = FALSE /\ drain = "no"
        /\ waiting = {} /\ cancelled = {} /\ verdict = "none"
        /\ listener = TRUE

-----------------------------------------------------------------------------
\* Faults and the health service.

\* _record_cleanup_fault
Fault == /\ faulted' = TRUE /\ ready' = FALSE /\ live' = FALSE
         /\ withdraw' = "due"

WithdrawHealth ==
    /\ \/ /\ withdraw = "due" /\ withdraw' = "half"
          /\ health' = [health EXCEPT ![""] = FALSE]
       \/ /\ withdraw = "half" /\ withdraw' = "none"
          /\ health' = [health EXCEPT !["riva"] = FALSE]
    /\ UNCHANGED <<gateVars, session, ready, live, faulted,
                   marking, republished, quiesced, drain, waiting, verdict, listener>>

Sets(sign) == republished' = IF quiesced THEN republished \cup {sign} ELSE republished

\* mark_serving sets both services, then ready; it looks at nothing else.  The
\* host may call it at any time, and quiesce does not wait for it.
MarkServing ==
    /\ \/ /\ marking = "no" /\ marking' = "aggregate" /\ Sets("")
          /\ health' = [health EXCEPT ![""] = TRUE] /\ UNCHANGED ready
       \/ /\ marking = "aggregate" /\ marking' = "both" /\ Sets("riva")
          /\ health' = [health EXCEPT !["riva"] = TRUE] /\ UNCHANGED ready
       \/ /\ marking = "both" /\ marking' = "done" /\ Sets("ready")
          /\ ready' = TRUE /\ UNCHANGED health
    /\ UNCHANGED <<gateVars, session, live, faulted, withdraw,
                   quiesced, drain, waiting, verdict, listener>>

\* _watch_server_termination: only an exit before quiesce is a fault.
ListenerExits ==
    /\ listener /\ listener' = FALSE
    /\ IF quiesced THEN UNCHANGED latch ELSE Fault
    /\ UNCHANGED <<gateVars, session, health, marking, republished, quiesced, drain, waiting, verdict>>

-----------------------------------------------------------------------------
\* A session, from host admission to the release of everything it holds.

\* The host admits or not, as it likes.  A task slot serves one task after
\* another, but not one drain waits for or one whose lease is still out.
Admitted(s) == /\ s \notin waiting /\ lease[s] = "none"
               /\ admitted' = admitted \cup {s}
               /\ Arrive(s)
               /\ UNCHANGED <<lease, cancelled, latch, lifecycle>>

TurnedAway(s) == /\ Refuse(s)
                 /\ admitted' = admitted \ {s}
                 /\ UNCHANGED <<lease, cancelled, latch, lifecycle>>

Registered(s) == /\ Register(s)
                 /\ UNCHANGED <<session, latch, lifecycle>>

\* The lease of s moves on, with or without a fault report.
LeaseGoes(s, to) == /\ lease' = [lease EXCEPT ![s] = to]
                    /\ UNCHANGED <<gateVars, admitted, lifecycle>>

Quietly(s, from, to) ==
    /\ seat[s] = "held" /\ lease[s] = from
    /\ LeaseGoes(s, to) /\ UNCHANGED <<latch, cancelled>>

Open(s) == Quietly(s, "none", "opening")

OpenReturns(s) == \E to \in {"live", "closed"} : Quietly(s, "opening", to)

\* A timeout of the adapter or a lost peer interrupts open().
GiveUp(s) == Quietly(s, "opening", "settling")

OpenSettles(s) == \E to \in {"closing", "closed"} : Quietly(s, "settling", to)

\* A second interruption finds open() settling: the pending open is dropped.
\* The peer may cause it, or the cancellation of drain below.
LoseOpen(s) == Quietly(s, "settling", "lost")

\* complete() or cancel() begins, whatever the adapter's reason.
BeginClosing(s) == Quietly(s, "live", "closing")

\* abort and release, or finish and release, went well; or release did after
\* an abort that was reported.
Closed(s) == \/ Quietly(s, "closing", "closed")
             \/ Quietly(s, "failing", "stuck")

\* Reports of the owner: an overdue open; an abort that failed or was
\* interrupted while release follows; a closing call that ends the cleanup
\* by failing or by being overdue.
LeaseFault(s) ==
    /\ seat[s] = "held"
    /\ \/ lease[s] = "settling" /\ LeaseGoes(s, "late")
       \/ lease[s] = "closing" /\ \E to \in {"failing", "stuck"} : LeaseGoes(s, to)
       \/ lease[s] = "failing" /\ LeaseGoes(s, "stuck")
    /\ Fault /\ UNCHANGED cancelled

\* The background task of an overdue open, whose session may be long gone.
LateLease(s) ==
    /\ \/ lease[s] = "late" /\ LeaseGoes(s, "closed") /\ UNCHANGED latch
       \/ lease[s] = "late" /\ \E to \in {"lateFailing", "stuck"} : LeaseGoes(s, to) /\ Fault
       \/ lease[s] = "lateFailing" /\ LeaseGoes(s, "stuck") /\ (UNCHANGED latch \/ Fault)
    /\ UNCHANGED cancelled

\* The engine's answer to an open nobody waits for is that it failed.
LostOpenFails(s) == /\ lease[s] = "lost" /\ LeaseGoes(s, "closed")
                    /\ UNCHANGED <<latch, cancelled>>

\* The cancellation drain asked for is raised in the session's task.  One
\* that finds open() already settling loses the lease, unless the open just
\* failed; one that finds abort or release running is a fault there, and one
\* in flush or finish turns a complete() into a cancel().
NoticeCancel(s) ==
    /\ s \in cancelled /\ seat[s] = "held"
    /\ cancelled' = cancelled \ {s}
    /\ \/ lease[s] = "none" /\ LeaseGoes(s, "closed") /\ UNCHANGED latch
       \/ lease[s] = "opening" /\ LeaseGoes(s, "settling") /\ UNCHANGED latch
       \/ /\ lease[s] = "settling" /\ UNCHANGED latch
          /\ \E to \in {"lost", "closed"} : LeaseGoes(s, to)
       \/ lease[s] \in {"live", "closing"} /\ LeaseGoes(s, "closing") /\ UNCHANGED latch
       \/ /\ lease[s] = "closing" /\ Fault
          /\ \E to \in {"failing", "stuck"} : LeaseGoes(s, to)
       \/ lease[s] = "failing" /\ LeaseGoes(s, "stuck") /\ Fault

CleanSettled(s) == lease[s] \notin AtWork \cup {"stuck"}  \* mutant: faults keep the seat
Settled(s) == lease[s] \notin AtWork

\* The adapter's finally: registration, then host admission, at any time
\* after the owner settled; repeated calls change nothing.
ReleaseAll(s) == /\ Settled(s)
                 /\ Release(s)
                 /\ admitted' = admitted \ {s}
                 /\ UNCHANGED <<lease, cancelled, latch, lifecycle>>

\* The task ends; its slot may serve another one if no lease is left behind.
TaskEnds(s) == /\ Leave(s)
               /\ lease' = [lease EXCEPT ![s] = IF @ = "closed" THEN "none" ELSE @]
               /\ cancelled' = cancelled \ {s}
               /\ UNCHANGED <<admitted, latch, lifecycle>>

-----------------------------------------------------------------------------
\* quiesce_and_drain.

Progress(to) == drain' = to

Quiesce == /\ drain = "no"
           /\ quiesced' = TRUE /\ ready' = FALSE
           /\ health' = [health EXCEPT ![""] = FALSE]
           /\ Progress("health")
           /\ UNCHANGED <<gateVars, session, live, faulted, withdraw,
                          marking, republished, waiting, verdict, listener>>

\* Mutant: only the aggregate service is withdrawn.
QuiesceAggregate == /\ drain = "health" /\ Progress("closing")
                    /\ UNCHANGED <<gateVars, session, latch, health,
                                   marking, republished, quiesced, waiting, verdict, listener>>

QuiesceHealth == /\ drain = "health"
                 /\ health' = [health EXCEPT !["riva"] = FALSE]
                 /\ Progress("closing")
                 /\ UNCHANGED <<gateVars, session, latch,
                                marking, republished, quiesced, waiting, verdict, listener>>

\* load_shed.close(), then the registry's snapshot of its owners.
CloseAndSnapshot == /\ drain = "closing"
                    /\ Close
                    /\ waiting' = owners
                    /\ Progress("grace")
                    /\ UNCHANGED <<session, latch, health, marking, republished, quiesced, verdict, listener>>

Running == {s \in waiting : seat[s] # "out"}

ToCancel == Running

\* All owner tasks ended, or the graceful window did: cancel what is left.
GraceEnds == /\ drain = "grace"
             /\ waiting' = Running /\ cancelled' = ToCancel
             /\ Progress("cancelled")
             /\ UNCHANGED <<gateVars, admitted, lease, latch,
                            health, marking, republished, quiesced, verdict, listener>>

DrainOverdue == Running # {} \/ owners # {}     \* mutant: cleanup faults do not count
DrainFails == Running # {} \/ owners # {} \/ faulted

\* All ended, or the grace did: the verdict, and live on a failure.
DrainEnds == /\ drain = "cancelled"
             /\ verdict' = IF DrainFails THEN "failed" ELSE "clean"
             /\ live' = (live /\ verdict' = "clean")
             /\ Progress("stopping")
             /\ UNCHANGED <<gateVars, session, ready, faulted, withdraw,
                            health, marking, republished, quiesced, waiting, listener>>

StoppingIfClean == drain = "stopping" /\ verdict = "clean"   \* mutant: not in the finally
Stopping == drain = "stopping"

\* The finally clause stops the server and awaits its watch.
StopServer == /\ Stopping
              /\ listener' = FALSE
              /\ Progress("ended")
              /\ UNCHANGED <<gateVars, session, latch,
                             health, marking, republished, quiesced, waiting, verdict>>

Shutdown == \/ Quiesce \/ QuiesceHealth \/ CloseAndSnapshot
            \/ GraceEnds \/ DrainEnds \/ StopServer

\* The steps of a session that its timers and the engine owner bound.
Bounded(s) == \/ OpenSettles(s) \/ Closed(s) \/ LeaseFault(s) \/ NoticeCancel(s)
              \/ (seat[s] = "held" /\ lease[s] # "none" /\ ReleaseAll(s)) \/ TaskEnds(s)

SessionStep(s) == \/ Admitted(s) \/ TurnedAway(s) \/ Registered(s)
                  \/ Open(s) \/ OpenReturns(s) \/ GiveUp(s) \/ BeginClosing(s)
                  \/ OpenSettles(s) \/ LoseOpen(s) \/ Closed(s) \/ LeaseFault(s)
                  \/ LateLease(s) \/ LostOpenFails(s) \/ NoticeCancel(s) \/ ReleaseAll(s) \/ TaskEnds(s)

Next == \/ \E s \in Sessions : SessionStep(s)
        \/ WithdrawHealth \/ MarkServing \/ ListenerExits
        \/ Shutdown

Spec == Init /\ [][Next]_vars

\* The event loop runs what is runnable and fires timers.  Neither peers, the
\* engine nor the host owe anything; only a shutdown once begun is carried on.
FairSpec == /\ Spec
            /\ WF_vars(quiesced /\ Shutdown)
            /\ \A s \in Sessions : WF_vars(Bounded(s))

-----------------------------------------------------------------------------
\* A shutdown reported clean left nothing behind: no owner is registered and
\* no lease is open, settling, closing or stuck.  A lease lost to a second
\* interruption of open() is the exception (lifecycle.py:665-694).
CleanShutdown ==
    verdict = "clean" => /\ owners = {} /\ active = 0
                         /\ \A s \in Sessions : lease[s] \in {"none", "closed", "lost"}

\* Drain's snapshot misses nobody: whatever is registered later on was in it
\* and is still waited for (lifecycle.py:146-159).
SnapshotComplete == drain \in {"grace", "cancelled"} => owners \subseteq waiting

\* The host's admission covers a session for as long as it is registered or
\* its task works on a lease (nim_ws.py:1163-1179).
HostCoversSessions ==
    /\ owners \subseteq admitted
    /\ \A s \in Sessions : lease[s] \in AtWork => s \in owners

\* A shutdown, once begun, ends and has stopped the listener, even when
\* owners ignore it and the engine never answers.
ShutdownEnds == quiesced ~> (drain = "ended" /\ verdict # "none" /\ ~listener)

\* An owner that drain cancelled leaves the registry: its open settles or is
\* handed over, its lease is closed or reported.
CancelledOwnersLeave == \A s \in Sessions : s \in cancelled ~> s \notin owners

\* Quiesce withdraws readiness at once and both services before admission is
\* closed, and nothing brings them back, withdrawals and late faults included:
\* what the plugin still shows was set by a mark_serving that began late or was
\* still at an await (lifecycle.py:657-678).
QuiesceWithdraws ==
    /\ quiesced /\ ready => "ready" \in republished
    /\ closed => \A v \in Services : health[v] => v \in republished

\* lifecycle.py:492 "Latch the first failure for host supervision and
\* withdraw health.": after a latched failure the plugin is not ready.
FaultWithdrawsReadiness == faulted => ~ready
=============================================================================

---------------------------- MODULE NimRealtime ----------------------------
(* One NIM realtime WebSocket session: the ASGI task that dispatches its    *)
(* scope and runs nim_ws.py's _Connection, against a client, an engine and  *)
(* a clock.                                                                 *)
(*                                                                          *)
(* A step runs the task from one await to the next; at is the await it      *)
(* stands at.  Frames to send wait in out and next says where the task goes *)
(* when they are sent.  The lease owner is DirectLeaseOwner seen from       *)
(* outside: open and complete settle it by themselves when they fail or     *)
(* are given up, everything else leaves it live until cancel().             *)
(* Deadlines are elapsed ticks, of which only "reached" matters, so a clock *)
(* stops at its limit.  A mutant is a plausible mistake in the definition   *)
(* that follows it.                                                         *)
EXTENDS Naturals, Sequences

CONSTANTS
    Locales,        \* the served locales
    PreLimit,       \* preconfiguration_timeout
    IdleLimit,      \* session_idle_timeout
    MaxLimit,       \* max_session_duration, unless it is None
    FinLimit,       \* session_finalization_timeout
    MaxBytes,       \* bound: bytes of an append, and of a file's data chunk
    NoFile          \* _riff_remaining is None

ASSUME RealtimeAssumption ==
    /\ {PreLimit, IdleLimit, MaxLimit, FinLimit} \subseteq Nat \ {0}
    /\ MaxBytes \in Nat /\ NoFile \notin Nat

VARIABLES
    at, next, out,      \* the await, and the frames being sent
    ctx,                \* before run's try, in it, or in one of its handlers
    holds,              \* what _release_registration would still release
    owner,              \* the lease owner
    configured,         \* _configured
    deferred, bound,    \* _deferred; _frontend is not None
    pending, remaining, \* _riff_bytes is not empty; _riff_remaining
    pieces, credited,   \* pieces of the append not fed yet; accepted is set
    target, locale,     \* the locale being applied; the session's
    applied, acked,     \* the lease's locale; the one last acknowledged
    elapsed,            \* ticks of each deadline
    maximum,            \* max_session_duration as configured, 0 for None
    wire,               \* the last frame delivered
    lost, cancelled,    \* the peer is gone; the task was cancelled
    foreign             \* a TimeoutError that is not the adapter's own

audio == <<deferred, bound, pending, remaining, pieces, credited>>
clock == <<elapsed, maximum>>
lang  == <<target, locale, applied, acked>>
world == <<wire, lost, cancelled, foreign>>
vars  == <<at, next, out, ctx, holds, owner, configured, audio, lang, clock, world>>

Waits   == {"opening", "receiving", "updating", "feeding", "tail", "completing", "aborting"}
Places  == Waits \cup {"arriving", "registering", "sending", "top", "finally", "ended"}
Limit   == [configuration_timeout |-> PreLimit, idle_timeout |-> IdleLimit,
            request_timeout |-> maximum, finalization_timeout |-> FinLimit]
Frames  == {"none", "accepted", "created", "error", "updated", "committed", "cleared",
            "delta", "completed", "close"}
Owners  == {"none", "new", "live", "settled", "completed"}

TypeOK == /\ at \in Places /\ next \in Places /\ ctx \in {"outside", "body", "handler"}
          /\ \A i \in DOMAIN out : out[i][1] \in Frames
          /\ wire[1] \in Frames
          /\ holds \subseteq {"host", "slot"} /\ owner \in Owners
          /\ {configured, deferred, bound, pending, credited, lost, cancelled, foreign}
                \subseteq BOOLEAN
          /\ remaining \in {NoFile} \cup 0..MaxBytes /\ pieces \in 0..MaxBytes
          /\ {target, locale, applied, acked} \subseteq Locales
          /\ maximum \in {0, MaxLimit} /\ elapsed \in [DOMAIN Limit -> Nat]

Init == /\ at = "arriving" /\ next = "top" /\ out = <<>> /\ ctx = "outside"
        /\ holds = {} /\ owner = "none" /\ configured = FALSE
        /\ deferred = FALSE /\ bound = FALSE /\ pending = FALSE
        /\ remaining = NoFile /\ pieces = 0 /\ credited = FALSE
        /\ target \in Locales /\ locale = target /\ applied = target /\ acked = target
        /\ maximum \in {0, MaxLimit} /\ elapsed = [c \in DOMAIN Limit |-> 0]
        /\ wire = <<"none">>
        /\ lost = FALSE /\ cancelled = FALSE /\ foreign = FALSE

-----------------------------------------------------------------------------
\* Sending, failing and giving up.

Err(code)  == <<"error", code>>
Shut(code) == <<"close", code>>
NoCode     == 0

Send(frames, place) == /\ at' = IF frames = <<>> THEN place ELSE "sending"
                       /\ out' = frames /\ next' = place

NothingOwned == FALSE       \* mutant: the owner is not cancelled
Owned == owner = "live"

\* _abort, and then the frames of the caller; the session ends.  cancel() of an
\* owner that never opened, or has settled, returns or raises at once.
Abort(frames) ==
    IF Owned THEN /\ at' = "aborting" /\ out' = frames /\ next' = "finally"
                  /\ UNCHANGED <<owner, holds>>
             ELSE /\ Send(frames, "finally") /\ holds' = {} /\ UNCHANGED owner

\* The same after an open() or complete() that has already settled its owner.
Settled(frames) == owner' = "settled" /\ holds' = {} /\ Send(frames, "finally")

\* _fail with a close code; without one the session goes on.
Failure(code, close) == <<Err(code), Shut(close)>>
Reject(code) == Send(<<Err(code)>>, "top")

AbortReturns == /\ at = "aborting"
                /\ owner' = "settled" /\ holds' = {} /\ Send(out, next)
                /\ UNCHANGED <<ctx, configured, audio, lang, clock, world>>

Deliver ==
    /\ at = "sending" /\ ~lost
    /\ wire' = Head(out)
    /\ acked' = IF Head(out)[1] = "updated" THEN Head(out)[2] ELSE acked
    /\ Send(Tail(out), next)
    /\ ctx' = IF ctx = "outside" /\ next = "top" THEN "body" ELSE ctx
    /\ UNCHANGED <<holds, owner, configured, audio, target, locale, applied,
                   clock, lost, cancelled, foreign>>

\* An exception at an await: `except Exception` inside the try, the caller's
\* finally outside it.
Raise == IF ctx = "body"
         THEN ctx' = "handler" /\ Abort(Failure("internal", 1011))
         ELSE /\ at' = "finally" /\ out' = <<>>
              /\ UNCHANGED <<next, ctx, owner, holds>>

\* A peer that is gone stays gone.
SendFails == /\ at = "sending" /\ lost' = TRUE /\ Raise
             /\ UNCHANGED <<configured, audio, lang, clock, wire, cancelled, foreign>>

Finally == /\ at = "finally" /\ holds' = {} /\ at' = "ended"
           /\ UNCHANGED <<next, out, ctx, owner, configured, audio, lang, clock, world>>

-----------------------------------------------------------------------------
\* Deadlines.

Expired(code) == Limit[code] > 0 /\ elapsed[code] = Limit[code]

\* The clocks that run: configuration until the session is configured,
\* activity and duration from then on, finalization from `done` on.
Running == (IF configured THEN {"idle_timeout", "request_timeout"}
                         ELSE {"configuration_timeout"})
               \cup (IF at \in {"tail", "completing"} \/ next = "completing"
                     THEN {"finalization_timeout"} ELSE {})

\* The deadlines that bound a wait for the client or for the engine.
OverdueIdleOnly == {c \in {"idle_timeout"} : configured /\ Expired(c)}   \* mutant
Overdue == {c \in IF configured THEN {"idle_timeout", "request_timeout"}
                                ELSE {"configuration_timeout"} : Expired(c)}

BlameIdle(first) == "idle_timeout"      \* mutant: one code for every deadline
Blame(first) == IF first \in Overdue THEN first ELSE CHOOSE c \in Overdue : TRUE

CompletionDue == at = "completing" /\ Expired("finalization_timeout")    \* mutant
FinalizationDue == at \in {"tail", "completing"} /\ Expired("finalization_timeout")

TimerDue == \/ at \in {"receiving", "updating", "feeding"} /\ Overdue # {}
            \/ at = "opening" /\ Expired("configuration_timeout")
            \/ FinalizationDue

Tick == /\ at \notin {"arriving", "ended"} /\ ~TimerDue
        /\ elapsed' = [c \in DOMAIN Limit |->
                          IF c \in Running /\ elapsed[c] < Limit[c]
                          THEN elapsed[c] + 1 ELSE elapsed[c]]
        /\ UNCHANGED <<at, next, out, ctx, holds, owner, configured, audio, lang, world,
                       maximum>>

\* The loop's own check, before it waits again.
Top == /\ at = "top"
       /\ IF Overdue = {}
          THEN at' = "receiving" /\ UNCHANGED <<next, out, owner, holds>>
          ELSE Abort(Failure(Blame("request_timeout"), 1008))
       /\ UNCHANGED <<ctx, configured, audio, lang, clock, world>>

ReceiveTimesOut ==
    /\ at = "receiving" /\ Overdue # {}
    /\ ctx' = "handler" /\ Abort(Failure(Blame("idle_timeout"), 1008))
    /\ UNCHANGED <<configured, audio, lang, clock, world>>

-----------------------------------------------------------------------------
\* The dispatch, the start of run, and the client's events.

\* A query that cannot be decoded is denied, a connection the host does not admit
\* is closed without a code, and an admitted one is accepted.
Arrive ==
    /\ at = "arriving"
    /\ \/ /\ \E code \in {1008, NoCode} : Send(<<Shut(code)>>, "finally")
          /\ UNCHANGED holds
       \/ holds' = {"host"} /\ Send(<<<<"accepted">>>>, "registering")
    /\ UNCHANGED <<ctx, owner, configured, audio, lang, clock, world>>

\* The gate refuses ("busy", "service_unavailable") or registers.
Register ==
    /\ at = "registering"
    /\ \/ /\ \E c \in {"busy", "service_unavailable"} :
                Send(Failure(c, 1013), "finally")
          /\ UNCHANGED holds
       \/ holds' = holds \cup {"slot"} /\ Send(<<<<"created">>>>, "top")
    /\ UNCHANGED <<ctx, owner, configured, audio, lang, clock, world>>

Disconnect == /\ at = "receiving" /\ Abort(<<>>)
              /\ UNCHANGED <<ctx, configured, audio, lang, clock, world>>

\* Not text, too long, not an object, of unknown type or structure; or not a
\* configuration although none was made.
BadEvent ==
    /\ at = "receiving"
    /\ \/ Abort(Failure("invalid_event", 1008))
       \/ Abort(Failure("request_too_large", 1009))
       \/ ~configured /\ Abort(Failure("protocol_order", 1008))
    /\ UNCHANGED <<ctx, configured, audio, lang, clock, world>>

\* An unusable first configuration, or audio that is not base64; one error
\* stands for the list of them.
Refuse == /\ at = "receiving"
          /\ \/ ~configured /\ \E c \in {"invalid_config_field", "unsupported_capability",
                                         "unknown_locale", "unsupported_format"} : Reject(c)
             \/ configured /\ Reject("invalid_audio")
          /\ UNCHANGED <<ctx, holds, owner, configured, audio, lang, clock, world>>

\* The first configuration opens the lease.  Up to Python 3.10 the adapter's
\* own TimeoutError is not the one it expects there.
Configure ==
    /\ at = "receiving" /\ ~configured
    /\ deferred' \in BOOLEAN /\ bound' = ~deferred'
    /\ \E l \in Locales : locale' = l /\ target' = l
    /\ IF Expired("configuration_timeout")
       THEN /\ \E c \in {"configuration_timeout", "internal"} :
                 Send(Failure(c, 1011), "finally")
            /\ owner' = "new" /\ holds' = {}
       ELSE owner' = "new" /\ at' = "opening" /\ UNCHANGED <<next, out, holds>>
    /\ UNCHANGED <<ctx, configured, pending, remaining, pieces, credited,
                   applied, acked, clock, world>>

OpenReturns ==
    /\ at = "opening"
    /\ owner' = "live" /\ configured' = TRUE /\ applied' = locale
    /\ Send(<<<<"updated", locale>>>>, "top")
    /\ UNCHANGED <<ctx, holds, audio, target, locale, acked, clock, world>>

\* The engine raises, perhaps a TimeoutError of its own, or the deadline passes.
OpenFails ==
    /\ at = "opening"
    /\ \/ Settled(Failure("internal", 1011)) /\ UNCHANGED foreign
       \/ Settled(Failure("configuration_timeout", 1011)) /\ foreign' = TRUE
       \/ /\ Expired("configuration_timeout")
          /\ Settled(Failure("configuration_timeout", 1011)) /\ UNCHANGED foreign
    /\ UNCHANGED <<ctx, configured, audio, lang, clock, wire, lost, cancelled>>

\* A later configuration: what is immutable is refused, the locale may change.
Reconfigure ==
    /\ at = "receiving" /\ configured
    /\ \E errors \in {<<>>, <<Err("config_change_rejected")>>} :
         \/ Send(errors \o <<Err("unknown_locale")>>, "top") /\ UNCHANGED target
         \/ Send(errors \o <<<<"updated", locale>>>>, "top") /\ UNCHANGED target
         \/ \E l \in Locales \ {locale} : target' = l /\ Send(errors, "updating")
    /\ UNCHANGED <<ctx, holds, owner, configured, audio, locale, applied, acked,
                   clock, world>>

RememberNothing == UNCHANGED locale     \* mutant: the session keeps its old locale
Remember == locale' = target

LocaleUpdated ==
    /\ at = "updating"
    /\ applied' = target /\ Remember
    /\ Send(<<<<"updated", target>>>>, "top")
    /\ UNCHANGED <<ctx, holds, owner, configured, audio, target, acked, clock, world>>

\* The lease refuses, raises, raises a TimeoutError, or outlasts a deadline.
LocaleFails ==
    /\ at = "updating"
    /\ \/ Abort(Failure("session_terminal", 1008)) /\ UNCHANGED <<ctx, foreign>>
       \/ Raise /\ UNCHANGED foreign
       \/ /\ \E c \in {"idle_timeout", "request_timeout"} : Abort(Failure(c, 1008))
          /\ foreign' = TRUE /\ UNCHANGED ctx
       \/ /\ Overdue # {} /\ Abort(Failure(Blame("request_timeout"), 1008))
          /\ UNCHANGED <<ctx, foreign>>
    /\ UNCHANGED <<configured, audio, lang, clock, wire, lost, cancelled>>

-----------------------------------------------------------------------------
\* Audio.

Take(n, left) == IF left = NoFile \/ n <= left THEN n ELSE left

\* The n bytes of an append, of which the frontend makes up to as many pieces.
Push(n, left) ==
    /\ remaining' = IF left = NoFile THEN NoFile ELSE left - Take(n, left)
    /\ pieces' \in 0..n
    /\ at' = IF pieces' = 0 THEN "top" ELSE "feeding"

AppendAudio ==
    /\ at = "receiving" /\ configured /\ bound
    /\ \E n \in 0..MaxBytes : Push(n, remaining)
    /\ UNCHANGED <<next, out, ctx, holds, owner, configured, deferred, bound, pending,
                   credited, lang, clock, world>>

\* The append that completes a RIFF header brings the first bytes of its data.
HeaderResolves ==
    /\ at = "receiving" /\ configured /\ ~bound
    /\ bound' = TRUE /\ pending' = FALSE
    /\ \E size, n \in 0..MaxBytes : Push(n, size)
    /\ UNCHANGED <<next, out, ctx, holds, owner, configured, deferred,
                   credited, lang, clock, world>>

HeaderIncomplete ==
    /\ at = "receiving" /\ configured /\ ~bound
    /\ pending' \in {pending, TRUE} /\ at' = "top"
    /\ UNCHANGED <<next, out, ctx, holds, owner, configured, deferred, bound, remaining,
                   pieces, credited, lang, clock, world>>

\* Not RIFF, off the matrix, against the declaration, or too long.
HeaderRefused ==
    /\ at = "receiving" /\ configured /\ ~bound
    /\ \E c \in {"unsupported_format", "request_too_large"} : Abort(Failure(c, 1008))
    /\ UNCHANGED <<ctx, configured, audio, lang, clock, world>>

\* The engine accepts the whole piece, once, and the idle deadline moves.
Credit ==
    /\ at \in {"feeding", "tail"} /\ ~credited
    /\ credited' = TRUE /\ elapsed' = [elapsed EXCEPT !["idle_timeout"] = 0]
    /\ UNCHANGED <<at, next, out, ctx, holds, owner, configured, deferred, bound,
                   pending, remaining, pieces, lang, world, maximum>>

Deltas == {<<>>, <<<<"delta">>>>}

FedNext == IF at = "tail" THEN "completing" ELSE IF pieces = 1 THEN "top" ELSE "feeding"

FeedReturns ==
    /\ at \in {"feeding", "tail"} /\ credited
    /\ credited' = FALSE
    /\ pieces' = IF at = "tail" THEN pieces ELSE pieces - 1
    /\ \E d \in Deltas : Send(d, FedNext)
    /\ UNCHANGED <<ctx, holds, owner, configured, deferred, bound, pending, remaining,
                   lang, clock, world>>

\* The lease raises or gives no credit, raises a TimeoutError, or outlasts a
\* deadline.
FeedFails ==
    /\ at \in {"feeding", "tail"}
    /\ \/ Abort(Failure("internal", 1011)) /\ UNCHANGED foreign
       \/ Abort(Failure("finalization_timeout", 1011)) /\ foreign' = TRUE
       \/ /\ at = "feeding" /\ Overdue # {}
          /\ Abort(Failure(Blame("request_timeout"), 1008)) /\ UNCHANGED foreign
       \/ /\ FinalizationDue
          /\ Abort(Failure("finalization_timeout", 1011)) /\ UNCHANGED foreign
    /\ UNCHANGED <<ctx, configured, audio, lang, clock, wire, lost, cancelled>>

\* Mutant: a commit counts as activity.
CommitCounts ==
    /\ at = "receiving" /\ configured
    /\ Send(<<<<"committed">>>>, "top")
    /\ elapsed' = [elapsed EXCEPT !["idle_timeout"] = 0]
    /\ UNCHANGED <<ctx, holds, owner, configured, audio, lang, world, maximum>>

Commit == /\ at = "receiving" /\ configured
          /\ Send(<<<<"committed">>>>, "top")
          /\ UNCHANGED <<ctx, holds, owner, configured, audio, lang, clock, world>>

\* A deferred session waits for a new header, another gets a fresh frontend.
Clear == /\ at = "receiving" /\ configured
         /\ pending' = FALSE /\ remaining' = NoFile /\ bound' = ~deferred
         /\ Send(<<<<"cleared">>>>, "top")
         /\ UNCHANGED <<ctx, holds, owner, configured, deferred, pieces, credited,
                        lang, clock, world>>

-----------------------------------------------------------------------------
\* The end.

NeverTruncated == FALSE     \* mutant: the rest of the file is not missed
Truncated == remaining \notin {NoFile, 0}

\* The duration is checked once more, strictly; the resampler may have a tail.
Done ==
    /\ at = "receiving" /\ configured
    /\ \/ Truncated /\ Abort(Failure("invalid_audio", 1008))
       \/ /\ ~Truncated /\ Expired("request_timeout")
          /\ Abort(Failure("request_timeout", 1008))
       \/ /\ ~Truncated
          /\ at' \in IF bound THEN {"tail", "completing"} ELSE {"completing"}
          /\ UNCHANGED <<next, out, owner, holds>>
    /\ UNCHANGED <<ctx, configured, audio, lang, clock, world>>

StayOpen == "top"       \* mutant: _terminal is not set
Terminal == "finally"

\* complete() returned the transcript: what was not shown of it, then the one
\* completion, then the close.
CompleteReturns ==
    /\ at = "completing"
    /\ owner' = "completed"
    /\ \E d \in Deltas : Send(d \o <<<<"completed">>, Shut(1000)>>, Terminal)
    /\ UNCHANGED <<ctx, holds, configured, audio, lang, clock, world>>

\* complete() raised or returned no transcript; or raised the TimeoutError of
\* the engine or of its own overdue release; or the deadline passed.
CompleteFails ==
    /\ at = "completing"
    /\ \/ Settled(Failure("internal", 1011)) /\ UNCHANGED foreign
       \/ Settled(Failure("finalization_timeout", 1011)) /\ foreign' = TRUE
       \/ /\ FinalizationDue
          /\ Settled(Failure("finalization_timeout", 1011)) /\ UNCHANGED foreign
    /\ UNCHANGED <<ctx, configured, audio, lang, clock, wire, lost, cancelled>>

\* The shutdown cancels the task, once.  open() and complete() settle their
\* owner on the way out; a cancellation inside cancel() is swallowed.
Interrupt ==
    /\ ~cancelled /\ cancelled' = TRUE
    /\ \/ /\ at \in {"opening", "completing"}
          /\ ctx' = "handler" /\ Settled(<<>>)
       \/ /\ at \in {"receiving", "updating", "feeding", "tail"}
             \/ (at = "sending" /\ ctx = "body")
          /\ ctx' = "handler" /\ Abort(<<>>)
       \/ /\ at = "sending" /\ ctx # "body"
          /\ Send(<<>>, "finally") /\ UNCHANGED <<ctx, owner, holds>>
       \/ at = "aborting" /\ UNCHANGED <<at, next, out, ctx, owner, holds>>
    /\ UNCHANGED <<configured, audio, lang, clock, wire, lost, foreign>>

-----------------------------------------------------------------------------
\* What the event loop, its timers and the transport bring about.
Own == \/ Deliver \/ SendFails \/ AbortReturns \/ Finally \/ Top \/ ReceiveTimesOut
       \/ (at = "opening" /\ Expired("configuration_timeout") /\ OpenFails)
       \/ (at = "updating" /\ Overdue # {} /\ LocaleFails)
       \/ (at = "feeding" /\ Overdue # {} /\ FeedFails)
       \/ (FinalizationDue /\ (FeedFails \/ CompleteFails))

Client == \/ Disconnect \/ BadEvent \/ Refuse \/ Configure \/ Reconfigure
          \/ AppendAudio \/ HeaderResolves \/ HeaderIncomplete \/ HeaderRefused
          \/ Commit \/ Clear \/ Done

Engine == \/ OpenReturns \/ OpenFails \/ LocaleUpdated \/ LocaleFails
          \/ Credit \/ FeedReturns \/ FeedFails \/ CompleteReturns \/ CompleteFails

Start == Arrive \/ Register

Next == Start \/ Own \/ Client \/ Engine \/ Interrupt \/ Tick

Spec == Init /\ [][Next]_vars

\* Time passes, timers fire, a send returns or raises and cancel() returns;
\* neither the client nor the engine owes anything.
FairSpec == Spec /\ WF_vars(Tick) /\ WF_vars(Own) /\ WF_vars(Start)

-----------------------------------------------------------------------------
\* Properties.

\* The owner is closed before the gate's slot and host admission are given up
\* (_release_registration), and a session that ended holds neither.
SettledBeforeReleased ==
    /\ holds = {} => owner # "live" /\ at \notin {"opening", "aborting"}
    /\ at = "ended" => holds = {} /\ owner # "live"

\* The session is one of the contract's: the host admits it once, it has one
\* lease at most, live only while admitted, and completes what it serves.
Contract == INSTANCE SessionContract WITH
    admission <- CASE holds # {} -> "during"
                   [] holds = {} /\ at = "arriving" -> "before"
                   [] OTHER -> "after",
    lease <- CASE owner \in {"none", "new"} -> "none"
               [] owner = "live" -> "live"
               [] OTHER -> "settled",
    served <- owner = "completed"
SessionContractHolds == Contract!Spec

\* No frame follows a close, and after the one completion, which is sent for a
\* completed lease only, comes nothing but the normal close.
OrderlyEnd ==
    ~lost => /\ wire[1] = "close" => at \in {"sending", "finally", "ended"} /\ out = <<>>
             /\ wire[1] = "completed" => /\ owner = "completed"
                                        /\ at \in {"sending", "finally", "ended"}
                                        /\ out \in {<<>>, <<Shut(1000)>>}

\* Whenever the session waits for the client its locale, the lease's and the
\* one last acknowledged agree.
LocaleInForce ==
    at = "receiving" /\ owner = "live" => locale = applied /\ acked = applied

\* A timeout code names a deadline that was reached, unless an operation
\* raised a TimeoutError of its own.
TimeoutsAreTrue ==
    wire[1] = "error" /\ wire[2] \in DOMAIN Limit => Expired(wire[2]) \/ foreign

\* A transcript is completed only when no announced byte of the file is missing.
CompletedIsWhole == wire[1] = "completed" => remaining \in {NoFile, 0}

\* docs/surfaces.md says truncated RIFF data is invalid_audio: a session whose
\* header never became whole is not completed.
TruncatedHeaderRefused == wire[1] = "completed" => ~pending

\* Without a maximal duration, a session ends unless audio is accepted again
\* and again (session_idle_timeout).
SilentSessionEnds == <>(at = "ended") \/ []<><<Credit>>_vars

\* Terminal work ends, whatever the engine does (session_finalization_timeout).
DoneEnds == (at \in {"tail", "completing"}) ~> (at = "ended")

\* With a maximal duration every session ends (max_session_duration).
EverySessionEnds == maximum > 0 => <>(at = "ended")
=============================================================================

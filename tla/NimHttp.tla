------------------------------ MODULE NimHttp ------------------------------
(* One transcription request: the task that runs nim_http.py's handle,      *)
(* against a client, an engine and a clock.  Its body is Multipart's.       *)
(*                                                                          *)
(* A step runs the task from one await to the next; at is the await it      *)
(* stands at, or "parsing" between two awaits.  The lease owner is          *)
(* DirectLeaseOwner seen from outside, as in RivaRpc.  A clock stops at its *)
(* limit.  A mutant is a plausible mistake in the definition that follows.  *)
EXTENDS Multipart, Integers

CONSTANTS
    RequestLimit,   \* request_timeout
    FinLimit,       \* finalization_timeout
    PreSubmit,      \* pre_submit_max_samples
    MaxSamples      \* bound: samples the frontend makes of a file, without its tail

ASSUME HttpAssumption == /\ {RequestLimit, FinLimit, PreSubmit} \subseteq Nat \ {0}
                         /\ MaxSamples \in Nat

VARIABLES
    at,             \* the await
    holds,          \* what the finally clauses would still release
    owner,          \* the lease owner
    outcome,        \* the answer
    left, tail,     \* samples, and samples of the flush, not handed over yet
    piece,          \* those of the current handoff
    outstanding,    \* outstanding[0]
    credited,       \* credit is not None
    elapsed,        \* ticks of each deadline
    cancelled,      \* the task was cancelled
    foreign         \* a TimeoutError that is not the endpoint's own

handoff == <<piece, outstanding, credited>>
samples == <<left, tail>>
world   == <<elapsed, cancelled, foreign>>
own     == <<at, holds, owner, outcome, samples, handoff, world>>
vars    == <<body, own>>

Limit == [request_timeout |-> RequestLimit, finalization_timeout |-> FinLimit]

Leased == {"opening", "feeding", "completing"}
Timed  == Leased \cup {"receiving"}
Places == Timed \cup {"arriving", "registering", "parsing", "canceling", "finally",
                      "responding", "ended"}

Refusals == {"busy", "service_unavailable"}
Invalid  == {"invalid_config_field", "unknown_locale", "request_too_large",
             "unsupported_format", "invalid_audio"}
Codes    == DOMAIN Limit \cup Refusals \cup Invalid
               \cup {"malformed_request", "buffer_overflow", "internal"}

TypeOK == /\ BodyOK
          /\ at \in Places /\ holds \subseteq {"host", "slot"}
          /\ owner \in {"none", "new", "live", "settled"}
          /\ outcome \in Codes \cup {"none", "ok", "cancelled"}
          /\ {left, tail} \subseteq 0..MaxSamples /\ piece \in 0..PreSubmit
          /\ outstanding \in Int
          /\ {credited, cancelled, foreign} \subseteq BOOLEAN
          /\ \A c \in DOMAIN Limit : elapsed[c] \in 0..Limit[c]

Init == /\ BodyInit
        /\ at = "arriving" /\ holds = {} /\ owner = "none" /\ outcome = "none"
        /\ left = 0 /\ tail = 0 /\ piece = 0 /\ outstanding = 0 /\ credited = FALSE
        /\ elapsed = [c \in DOMAIN Limit |-> 0]
        /\ cancelled = FALSE /\ foreign = FALSE

-----------------------------------------------------------------------------
\* How the try block is left, by a return, a failure or a CancelledError.

ReleaseAtOnce == "finally"      \* mutant: the owner is not cancelled
ToClose == IF owner' = "live" THEN "canceling" ELSE "finally"

\* Every except clause cancels the owner first; without a live one that is a
\* no-op or an error they suppress.
Leave(how) == outcome' = how /\ at' = ToClose

CancelReturns == /\ at = "canceling" /\ at' = "finally" /\ owner' = "settled"
                 /\ UNCHANGED <<body, holds, outcome, samples, handoff, world>>

\* The registration, then the host's admission; a cancelled task answers nothing.
Finally == /\ at = "finally" /\ holds' = {}
           /\ at' = IF outcome = "cancelled" THEN "ended" ELSE "responding"
           /\ UNCHANGED <<body, owner, outcome, samples, handoff, world>>

\* Both ASGI messages of the answer are taken.
Respond == /\ at = "responding" /\ at' = "ended"
           /\ UNCHANGED <<body, holds, owner, outcome, samples, handoff, world>>

-----------------------------------------------------------------------------
\* Deadlines.

Expired(c) == elapsed[c] = Limit[c]

OnlyTheLease(place) == IF place \in Leased THEN DOMAIN Limit ELSE {}    \* mutant

\* request_timeout bounds every await of the handler.
Bounds(place) == IF place = "completing" THEN DOMAIN Limit ELSE {"request_timeout"}

BlameFinalization(place) ==     \* mutant: a late completion is always finalization's
    IF place = "completing" THEN {"finalization_timeout"} ELSE Bounds(place)
First(place) == {c \in Bounds(place) :
                    \A d \in Bounds(place) : Limit[c] - elapsed[c] <= Limit[d] - elapsed[d]}

Due(place) == \E c \in Bounds(place) : Expired(c)

\* open and complete settle their owner when they are given up.
GivenUp == IF at \in {"opening", "completing"} THEN "settled" ELSE owner

TimesOut == /\ at \in Timed \cup {"registering"} /\ Due(at)
            /\ owner' = GivenUp
            /\ \E c \in First(at) : Leave(c)
            /\ UNCHANGED <<body, holds, samples, handoff, world>>

Tick == /\ at \in Timed \cup {"registering"} /\ ~Due(at)
        /\ elapsed' = [c \in DOMAIN Limit |-> IF c \in Bounds(at) THEN elapsed[c] + 1
                                                                  ELSE elapsed[c]]
        /\ UNCHANGED <<body, at, holds, owner, outcome, samples, handoff, cancelled, foreign>>

-----------------------------------------------------------------------------
\* Admission, registration, and the body.

\* Another method, no admission, or headers that are not bytes are answered at
\* once, with nothing held.
Arrive == /\ at = "arriving"
          /\ \/ at' = "registering" /\ holds' = {"host"} /\ UNCHANGED outcome
             \/ /\ at' = "responding" /\ UNCHANGED holds
                /\ outcome' \in {"malformed_request", "service_unavailable"}
          /\ UNCHANGED <<body, owner, samples, handoff, world>>

Refuse == /\ at = "registering" /\ UNCHANGED owner
          /\ \E c \in Refusals : Leave(c)
          /\ UNCHANGED <<body, holds, samples, handoff, world>>

\* The Content-Type is right or not, and a declared length is within the limit.
Register ==
    /\ at = "registering" /\ holds' = {"host", "slot"} /\ UNCHANGED owner
    /\ \/ Leave("malformed_request")
       \/ Leave("request_too_large")
       \/ /\ declared # Undeclared => declared <= EnvelopeLimit
          /\ at' = "receiving" /\ UNCHANGED outcome
    /\ UNCHANGED <<body, samples, handoff, world>>

Receive == /\ at = "receiving"
           /\ \/ BadMessage /\ at' = "parsing"
              \/ \E n \in 0..MaxMessage :
                    /\ Message(n)
                    /\ at' = IF n = 0 /\ ~last' THEN "receiving" ELSE "parsing"
           /\ UNCHANGED <<holds, owner, outcome, samples, handoff, world>>

\* The parser runs to the end of the message without an await.
Parse == /\ at = "parsing" /\ verdict = "none"
         /\ \/ (Callback \/ Finish) /\ UNCHANGED at
            \/ fresh = 0 /\ ~last /\ at' = "receiving" /\ UNCHANGED body
         /\ UNCHANGED <<holds, owner, outcome, samples, handoff, world>>

Failed == verdict \in Codes

\* The parser's state and the fields are not used again.
ParseFails == /\ at = "parsing" /\ Failed /\ UNCHANGED owner
              /\ Leave(verdict)
              /\ Forget
              /\ UNCHANGED <<holds, samples, handoff, world>>

\* _validate; then the frontend decodes the whole file and a lease is opened.
Invalidate(code) == /\ code \in Invalid
                    /\ "extra" \in DOMAIN fields => code = "invalid_config_field"
Validate ==
    /\ at = "parsing" /\ verdict = "accepted"
    /\ \/ /\ UNCHANGED <<owner, samples>>
          /\ \E c \in Codes : Invalidate(c) /\ Leave(c)
       \/ /\ DOMAIN fields = {"file", "model"} /\ fields["file"] > 0
          /\ at' = "opening" /\ owner' = "new" /\ UNCHANGED outcome
          /\ left' \in 0..MaxSamples /\ tail' \in 0..MaxSamples
    /\ Forget
    /\ UNCHANGED <<holds, handoff, world>>

-----------------------------------------------------------------------------
\* The lease.

Least(a, b) == IF a <= b THEN a ELSE b

Piece(n) == Least(PreSubmit, n)

\* _bounded_feed up to its wait.
Submit(n) == IF outstanding + n > PreSubmit
             THEN Leave("buffer_overflow") /\ UNCHANGED handoff
             ELSE /\ piece' = n /\ outstanding' = outstanding + n /\ credited' = FALSE
                  /\ at' = "feeding" /\ UNCHANGED outcome

\* The next piece of the samples, then of the tail, then complete().
HandOver ==
    \/ left > 0 /\ left' = left - Piece(left) /\ UNCHANGED tail /\ Submit(Piece(left))
    \/ left = 0 /\ tail > 0 /\ tail' = tail - Piece(tail) /\ UNCHANGED left
       /\ Submit(Piece(tail))
    \/ /\ left = 0 /\ tail = 0 /\ at' = "completing"
       /\ UNCHANGED <<outcome, samples, handoff>>

OpenReturns == /\ at = "opening" /\ owner' = "live"
               /\ HandOver
               /\ UNCHANGED <<body, holds, world>>

Accepts(n) == n = piece /\ ~credited

\* The engine calls on_accepted.
Credit == /\ at = "feeding"
          /\ \E n \in 0..PreSubmit : Accepts(n) /\ outstanding' = outstanding - n
          /\ credited' = TRUE
          /\ UNCHANGED <<body, at, holds, owner, outcome, samples, piece, world>>

\* A wrong credit raises into the engine, which may pass it on.
BadCredit == /\ at = "feeding" /\ \E n \in 0..PreSubmit : ~Accepts(n)
             /\ UNCHANGED owner /\ Leave("internal")
             /\ UNCHANGED <<body, holds, samples, handoff, world>>

NotMissed == FALSE      \* mutant: a feed without its credit is taken for done
Missed == ~credited

FeedReturns == /\ at = "feeding" /\ UNCHANGED owner
               /\ \/ Missed /\ Leave("internal") /\ UNCHANGED <<samples, handoff>>
                  \/ ~Missed /\ HandOver
               /\ UNCHANGED <<body, holds, world>>

CompleteReturns == /\ at = "completing" /\ owner' = "settled" /\ Leave("ok")
                   /\ UNCHANGED <<body, holds, samples, handoff, world>>

-----------------------------------------------------------------------------
\* Failures.

\* receive() or the lease raises.
Raises == /\ at \in Timed /\ owner' = GivenUp /\ Leave("internal")
          /\ UNCHANGED <<body, holds, samples, handoff, world>>

\* A TimeoutError of the engine, or of complete()'s own release.
ForeignTimeout == /\ at = "completing" /\ foreign' = TRUE /\ owner' = "settled"
                  /\ Leave("finalization_timeout")
                  /\ UNCHANGED <<body, holds, samples, handoff, elapsed, cancelled>>

\* The server cancels the task, once.  cancel() runs under suppress.
Interrupt == /\ ~cancelled /\ cancelled' = TRUE
             /\ at \in Timed \cup {"registering", "canceling", "responding"}
             /\ owner' = GivenUp
             /\ \/ at = "canceling" /\ UNCHANGED <<at, outcome>>
                \/ at = "responding" /\ at' = "ended" /\ UNCHANGED outcome
                \/ at \notin {"canceling", "responding"} /\ Leave("cancelled")
             /\ UNCHANGED <<body, holds, samples, handoff, elapsed, foreign>>

-----------------------------------------------------------------------------
\* What the event loop, its timers and the endpoint's own code bring about.
Own == TimesOut \/ CancelReturns \/ Finally \/ Parse \/ ParseFails \/ Validate

Start == Arrive \/ Refuse \/ Register

Engine == \/ OpenReturns \/ Credit \/ BadCredit \/ FeedReturns \/ CompleteReturns
          \/ ForeignTimeout

Next == Start \/ Receive \/ Own \/ Engine \/ Raises \/ Interrupt \/ Tick \/ Respond

Spec == Init /\ [][Next]_vars

\* Time passes, timers fire, cancel() returns, the gate's lock is granted and
\* code without an await runs on; neither client nor engine owes anything.
FairSpec == Spec /\ WF_vars(Tick) /\ WF_vars(Own) /\ WF_vars(Start)

-----------------------------------------------------------------------------
\* Properties.

\* The owner is closed before the slot and the host's admission are given up,
\* and both are before the answer is sent (handle's finally clauses).
SettledBeforeReleased ==
    /\ holds = {} => owner # "live" /\ at \in {"arriving", "responding", "ended"}
    /\ at \in {"responding", "ended"} => holds = {}

\* outstanding[0] is exactly what the engine has not accepted of the current
\* handoff, so buffer_overflow is never reported, and a transcript is of all
\* the samples: each piece was accepted exactly once (_bounded_feed).
CreditExact ==
    /\ at \in Leased => outstanding = IF at = "feeding" /\ ~credited THEN piece ELSE 0
    /\ outcome # "buffer_overflow"
    /\ at = "completing" \/ outcome = "ok" => left = 0 /\ tail = 0 /\ outstanding = 0

\* A timeout code names a deadline that was reached, unless complete() raised
\* a TimeoutError of its own.
TimeoutsAreTrue == outcome \in DOMAIN Limit => Expired(outcome) \/ foreign

\* Each request keeps what the surfaces promise the host.
Contract == INSTANCE SessionContract WITH
    admission <- CASE holds # {} -> "during"
                   [] holds = {} /\ at = "arriving" -> "before"
                   [] OTHER -> "after",
    lease <- IF owner = "new" THEN "none" ELSE owner,
    served <- outcome = "ok"
SessionContractHolds == Contract!Spec

\* Every request is answered, or its task is cancelled, whatever the client and
\* the engine do; sending the answer is up to the client (request_timeout).
RequestEnds == <>(at \in {"responding", "ended"})
=============================================================================

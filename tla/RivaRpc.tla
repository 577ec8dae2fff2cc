------------------------------ MODULE RivaRpc ------------------------------
(* One Riva RPC: the task that runs grpc.py's StreamingRecognize or         *)
(* Recognize, against a client, an engine and a clock.                      *)
(*                                                                          *)
(* A step runs the task from one await to the next; at is the await it      *)
(* stands at.  The lease owner is DirectLeaseOwner seen from outside: open  *)
(* and complete settle it by themselves when they fail or are given up,     *)
(* everything else leaves it live until cancel().  Deadlines are elapsed    *)
(* ticks and a clock stops at its limit.  grpc.aio is external: the first   *)
(* context.abort decides the status, a later one changes nothing.           *)
(* A mutant is a plausible mistake in the definition that follows it.       *)
EXTENDS Integers

CONSTANTS
    PreLimit,       \* preconfiguration_timeout
    IdleLimit,      \* session_idle_timeout
    MaxLimit,       \* max_session_duration, unless it is None
    FinLimit,       \* session_finalization_timeout
    RpcLimit,       \* the client's gRPC deadline, unless it has none
    PreSubmit,      \* pre_submit_max_samples
    MaxBytes,       \* bound: bytes of a request, and of a file's data chunk
    NoFile          \* riff_remaining is None

ASSUME RivaAssumption ==
    /\ {PreLimit, IdleLimit, MaxLimit, FinLimit, RpcLimit, PreSubmit} \subseteq Nat \ {0}
    /\ MaxBytes \in Nat /\ NoFile \notin Nat

VARIABLES
    kind,               \* "stream" or "unary"
    at,                 \* the await
    holds,              \* what the finally clause would still release
    owner,              \* the lease owner
    ending,             \* how the try block was left
    status, shown,      \* the RPC's status; the last result sent
    bound,              \* frontend is not None
    pending, remaining, \* riff_head is not empty; riff_remaining
    left, piece,        \* samples not handed over yet; those of the current handoff
    outstanding,        \* outstanding[0]
    credited,           \* credit[0] is not None
    elapsed,            \* ticks of each deadline
    maximum, deadline,  \* max_session_duration and the gRPC deadline, 0 for None
    gone, cancelled,    \* context.cancelled(); the task was cancelled
    foreign             \* a TimeoutError that is not the adapter's own

file  == <<bound, pending, remaining>>
feed  == <<left, piece, outstanding, credited>>
clock == <<elapsed, maximum, deadline>>
fixed == <<kind, maximum, deadline>>
world == <<gone, cancelled, foreign>>
ends  == <<ending, status>>
vars  == <<kind, at, holds, owner, ends, shown, file, feed, clock, world>>

Limit == [configuration_timeout |-> PreLimit, idle_timeout |-> IdleLimit,
          request_timeout |-> maximum, finalization_timeout |-> FinLimit,
          rpc |-> deadline]

Timed  == {"configuring", "opening", "reading", "feeding", "tail", "completing"}
Writes == {"yielding", "answering"}
Places == Timed \cup Writes \cup {"arriving", "registering", "aborting", "finally", "ended"}

Refusals == {"busy", "service_unavailable"}
Invalid  == {"invalid_config_field", "unsupported_capability", "unknown_locale",
             "unsupported_format"}
Codes    == Refusals \cup Invalid \cup (DOMAIN Limit \ {"rpc"})
               \cup {"protocol_order", "request_too_large", "invalid_audio",
                     "buffer_overflow", "internal"}

TypeOK == /\ kind \in {"stream", "unary"} /\ at \in Places
          /\ holds \subseteq {"host", "slot"}
          /\ owner \in {"none", "new", "live", "settled"}
          /\ ending \in {"none", "projected", "internal", "cancelled", "returned"}
          /\ status \in Codes \cup {"none", "OK", "cancelled"}
          /\ shown \in {"none", "interim", "final"}
          /\ {bound, pending, credited, gone, cancelled, foreign} \subseteq BOOLEAN
          /\ remaining \in {NoFile} \cup 0..MaxBytes
          /\ left \in 0..MaxBytes /\ piece \in 0..PreSubmit /\ outstanding \in Int
          /\ maximum \in {0, MaxLimit} /\ deadline \in {0, RpcLimit}
          /\ elapsed \in [DOMAIN Limit -> Nat]

Init == /\ kind \in {"stream", "unary"} /\ at = "arriving"
        /\ holds = {} /\ owner = "none"
        /\ ending = "none" /\ status = "none" /\ shown = "none"
        /\ bound = FALSE /\ pending = FALSE /\ remaining = NoFile
        /\ left = 0 /\ piece = 0 /\ outstanding = 0 /\ credited = FALSE
        /\ maximum \in {0, MaxLimit} /\ deadline \in {0, RpcLimit}
        /\ elapsed = [c \in DOMAIN Limit |-> 0]
        /\ gone = FALSE /\ cancelled = FALSE /\ foreign = FALSE

-----------------------------------------------------------------------------
\* How the try block is left.

\* Both except clauses cancel the owner first; without a live one that is a
\* no-op or an error they suppress.
ReleaseAtOnce == "finally"      \* mutant: the owner is not cancelled
ToClose == IF owner' = "live" THEN "aborting" ELSE "finally"

Leave(how) == ending' = how /\ at' = ToClose

\* _abort: the status is sent, then the exception ends the RPC.
Fail(code) == status' = code /\ Leave("projected")

\* return, a raised exception, or a CancelledError.
Quit(how) == Leave(how) /\ UNCHANGED status

\* What the client is told once the owner is closed: nothing more after an
\* abort; "internal" for an exception, unless the client is gone.
InternalIsOK == IF status # "none" THEN status ELSE "OK"      \* mutant
Outcome == CASE status # "none" -> status
             [] status = "none" /\ ending = "internal" /\ ~gone -> "internal"
             [] status = "none" /\ ending = "cancelled" -> "cancelled"
             [] OTHER -> "OK"

AbortReturns == /\ at = "aborting" /\ at' = "finally" /\ owner' = "settled"
                /\ UNCHANGED <<kind, holds, ends, shown, file, feed, clock, world>>

\* The registration, then the host's admission.
Finally == /\ at = "finally" /\ at' = "ended" /\ holds' = {} /\ status' = Outcome
           /\ UNCHANGED <<kind, owner, ending, shown, file, feed, clock, world>>

-----------------------------------------------------------------------------
\* Deadlines.

Expired(c) == Limit[c] > 0 /\ elapsed[c] = Limit[c]

\* The awaits each deadline bounds, besides the gRPC deadline, which bounds
\* all.  A unary RPC has one deadline for all of its work.
HandshakeWaits == IF kind = "stream" THEN {"configuring", "opening"} ELSE {}

RequestsOnly == IF kind = "stream" THEN {"reading"} ELSE {}      \* mutant: feeds are not
ActivityWaits == IF kind = "stream" THEN {"reading", "feeding"} ELSE {}

NotTheTail == IF kind = "stream" THEN {"completing"}             \* mutant
              ELSE {"opening", "feeding", "completing"}
TerminalWaits == IF kind = "stream" THEN {"tail", "completing"}
                 ELSE {"opening", "feeding", "tail", "completing"}

Bounds(place) == {c \in DOMAIN Limit :
    \/ c = "configuration_timeout" /\ place \in HandshakeWaits
    \/ c = "idle_timeout" /\ place \in ActivityWaits
    \/ c = "request_timeout" /\ place \in ActivityWaits /\ maximum > 0
    \/ c = "finalization_timeout" /\ place \in TerminalWaits}

\* The deadlines that come first.  Clocks stop at their limits, so a tie may
\* stand for either order.
BlameIdle(place) == IF "idle_timeout" \in Bounds(place) THEN {"idle_timeout"}
                    ELSE Bounds(place)      \* mutant: one code for every deadline
First(place) == {c \in Bounds(place) :
                    \A d \in Bounds(place) : Limit[c] - elapsed[c] <= Limit[d] - elapsed[d]}

DueUnlessLong(place) ==         \* mutant: the session's duration is not enforced
    Expired("rpc") \/ \E c \in Bounds(place) \ {"request_timeout"} : Expired(c)
Due(place) == Expired("rpc") \/ \E c \in Bounds(place) : Expired(c)

\* _await_stream_activity up to its wait: every deadline has the code of the
\* first of the adapter's own.
Activity(place) == IF Due(place) THEN \E c \in First(place) : Fail(c)
                   ELSE at' = place /\ UNCHANGED ends

\* _await_until up to its wait: an expired gRPC deadline has a code of its own.
Await(place) == IF Expired("rpc") THEN Fail("request_timeout") ELSE Activity(place)

\* Any wait may reach its deadline; open and complete settle their owner then.
Settling == {"opening", "completing"}
TimesOut == /\ at \in Timed /\ Due(at)
            /\ owner' = IF at \in Settling THEN "settled" ELSE owner
            /\ \E c \in First(at) : Fail(c)
            /\ UNCHANGED <<kind, holds, shown, file, feed, clock, world>>

Running == {"rpc"} \cup CASE at \in Timed -> Bounds(at)
                          [] at = "yielding" -> Bounds("reading")
                          [] OTHER -> {}

Tick == /\ at \in Timed \cup {"registering", "yielding"}
        /\ ~(at \in Timed /\ Due(at))
        /\ elapsed' = [c \in DOMAIN Limit |->
                          IF c \in Running /\ elapsed[c] < Limit[c]
                          THEN elapsed[c] + 1 ELSE elapsed[c]]
        /\ UNCHANGED <<fixed, at, holds, owner, ends, shown, file, feed, world>>

-----------------------------------------------------------------------------
\* Handing samples to the lease.

Least(a, b) == IF a <= b THEN a ELSE b

\* The next piece of n samples, as much as the credit allows.
Submit(n, place) ==
    LET available == PreSubmit - outstanding
    IN IF available <= 0
       THEN Fail("buffer_overflow") /\ UNCHANGED feed
       ELSE /\ piece' = Least(available, n) /\ left' = n - piece'
            /\ outstanding' = outstanding + piece' /\ credited' = FALSE
            /\ Activity(place)

\* After the last sample: the announced bytes must all have come.
NeverTruncated == FALSE     \* mutant: the rest of the file is not missed
Truncated == remaining \notin {NoFile, 0}
Abandoned == kind = "unary" /\ gone /\ ~Expired("rpc")
Finalize == \/ Truncated /\ Fail("invalid_audio")
            \/ ~Truncated /\ Abandoned /\ Quit("returned")
            \/ ~Truncated /\ ~Abandoned /\ Await("completing")

\* flush: the resampler may have a tail.
Flush == \/ Finalize /\ UNCHANGED feed
         \/ \E n \in 1..MaxBytes : Submit(n, "tail")

\* n samples to feed, and what follows when there are none.
FeedAll(n) == \/ n > 0 /\ Submit(n, "feeding")
              \/ n = 0 /\ kind = "stream" /\ Await("reading") /\ UNCHANGED feed
              \/ n = 0 /\ kind = "unary" /\ Flush

AcceptsTwice(n) == n = piece       \* mutant: a second credit counts too
Accepts(n) == n = piece /\ ~credited

\* The engine calls on_accepted.  In a stream's feed that is activity.
Credit ==
    /\ at \in {"feeding", "tail"}
    /\ \E n \in 1..PreSubmit : Accepts(n) /\ outstanding' = outstanding - n
    /\ credited' = TRUE
    /\ elapsed' = IF at = "feeding" /\ kind = "stream"
                  THEN [elapsed EXCEPT !["idle_timeout"] = 0] ELSE elapsed
    /\ UNCHANGED <<fixed, at, holds, owner, ends, shown, file, left, piece, world>>

\* A wrong credit raises into the engine, which may pass it on.
BadCredit == /\ at \in {"feeding", "tail"} /\ \E n \in 0..PreSubmit : ~Accepts(n)
             /\ UNCHANGED owner /\ Fail("internal")
             /\ UNCHANGED <<kind, holds, shown, file, feed, clock, world>>

\* The lease's feed returns, with all of its credit or without.  Interim
\* results are sent when all samples of the request are fed.
FeedReturns ==
    /\ at \in {"feeding", "tail"}
    /\ UNCHANGED owner
    /\ \/ ~credited /\ Fail("internal") /\ UNCHANGED <<feed, shown>>
       \/ credited /\ left > 0 /\ Submit(left, at) /\ UNCHANGED shown
       \/ credited /\ left = 0 /\ at = "tail" /\ Finalize /\ UNCHANGED <<feed, shown>>
       \/ credited /\ left = 0 /\ at = "feeding" /\ FeedAll(0) /\ UNCHANGED shown
       \/ /\ credited /\ left = 0 /\ at = "feeding" /\ kind = "stream"
          /\ at' = "yielding" /\ shown' = "interim" /\ UNCHANGED <<feed, ends>>
    /\ UNCHANGED <<kind, holds, file, clock, world>>

-----------------------------------------------------------------------------
\* Admission, registration and configuration.

Arrive == /\ at = "arriving"
          /\ \/ at' = "registering" /\ holds' = {"host"} /\ UNCHANGED status
             \/ at' = "ended" /\ status' = "service_unavailable" /\ UNCHANGED holds
          /\ UNCHANGED <<kind, owner, ending, shown, file, feed, clock, world>>

Refuse == /\ at = "registering" /\ UNCHANGED owner
          /\ \E c \in Refusals : Fail(c)
          /\ UNCHANGED <<kind, holds, shown, file, feed, clock, world>>

\* A streaming RPC then waits for its configuration.
RegisterStream == /\ at = "registering" /\ kind = "stream"
                  /\ holds' = {"host", "slot"} /\ UNCHANGED owner
                  /\ Await("configuring")
                  /\ UNCHANGED <<kind, shown, file, feed, clock, world>>

\* A unary RPC has its whole input: it is refused, or opens its lease.
RegisterUnary ==
    /\ at = "registering" /\ kind = "unary"
    /\ holds' = {"host", "slot"} /\ bound' = TRUE
    /\ \/ /\ owner' = "none" /\ left' = 0
          /\ \E c \in Invalid \cup {"request_too_large"} : Fail(c)
       \/ owner' = "none" /\ left' = 0 /\ Expired("rpc") /\ Fail("request_timeout")
       \/ owner' = "none" /\ left' = 0 /\ ~Expired("rpc") /\ gone /\ Quit("returned")
       \/ owner' = "none" /\ left' = 0 /\ ~Expired("rpc") /\ ~gone /\ Fail("invalid_audio")
       \/ /\ owner' = "new" /\ left' \in 0..MaxBytes /\ ~Expired("rpc") /\ ~gone
          /\ Await("opening")
    /\ UNCHANGED <<kind, shown, pending, remaining, piece, outstanding, credited,
                   clock, world>>

\* No request, none with a configuration, or an invalid one.
ConfigureRefused == /\ at = "configuring" /\ UNCHANGED owner
                    /\ \E c \in Invalid \cup {"protocol_order"} : Fail(c)
                    /\ UNCHANGED <<kind, holds, shown, file, feed, clock, world>>

Configure == /\ at = "configuring" /\ owner' = "new"
             /\ bound' \in BOOLEAN
             /\ Await("opening")
             /\ UNCHANGED <<kind, holds, shown, pending, remaining, feed, clock, world>>

OpenReturns == /\ at = "opening" /\ owner' = "live"
               /\ FeedAll(left)
               /\ UNCHANGED <<kind, holds, shown, file, clock, world>>

-----------------------------------------------------------------------------
\* The requests of a stream.

\* A client that is gone is noticed when the next request arrives.
GoneNoticed == /\ at = "reading" /\ gone /\ UNCHANGED owner
               /\ Quit("returned")
               /\ UNCHANGED <<kind, holds, shown, file, feed, clock, world>>

BadRequest == /\ at = "reading" /\ ~gone /\ UNCHANGED owner
              /\ \E c \in {"invalid_config_field", "protocol_order"} : Fail(c)
              /\ UNCHANGED <<kind, holds, shown, file, feed, clock, world>>

Take(n, size) == IF size = NoFile THEN n ELSE Least(n, size)

\* n bytes and what the frontend makes of them, in units of which a byte makes
\* one at most (for 8 kHz MULAW such a unit is two samples of 16 kHz).
Push(n, size) == /\ remaining' = IF size = NoFile THEN NoFile ELSE size - Take(n, size)
                 /\ \E k \in 0..Take(n, size) : FeedAll(k)

Audio == /\ at = "reading" /\ ~gone /\ bound /\ UNCHANGED owner
         /\ \E n \in 0..MaxBytes : Push(n, remaining)
         /\ UNCHANGED <<kind, holds, shown, bound, pending, clock, world>>

\* The request that completes a RIFF header brings the first bytes of its data.
HeaderResolves == /\ at = "reading" /\ ~gone /\ ~bound /\ UNCHANGED owner
                  /\ bound' = TRUE /\ pending' = FALSE
                  /\ \E size, n \in 0..MaxBytes : Push(n, size)
                  /\ UNCHANGED <<kind, holds, shown, clock, world>>

HeaderIncomplete == /\ at = "reading" /\ ~gone /\ ~bound /\ UNCHANGED owner
                    /\ pending' \in {pending, TRUE}
                    /\ Await("reading")
                    /\ UNCHANGED <<kind, holds, shown, bound, remaining, feed, clock, world>>

\* Not RIFF, off the matrix, against the declaration, or too long a header.
HeaderRefused == /\ at = "reading" /\ ~gone /\ ~bound /\ UNCHANGED owner
                 /\ \E c \in {"unsupported_format", "request_too_large"} : Fail(c)
                 /\ UNCHANGED <<kind, holds, shown, file, feed, clock, world>>

\* The client's side of the stream ends.
EndOfStream ==
    /\ at = "reading" /\ UNCHANGED owner
    /\ \/ gone /\ Quit("returned") /\ UNCHANGED feed
       \/ ~gone /\ bound /\ Flush
       \/ ~gone /\ ~bound /\ pending /\ Fail("unsupported_format") /\ UNCHANGED feed
       \/ ~gone /\ ~bound /\ ~pending /\ Finalize /\ UNCHANGED feed
    /\ UNCHANGED <<kind, holds, shown, file, clock, world>>

\* The transport has taken a result: the generator goes on after its yield.
Resume == /\ at \in Writes /\ UNCHANGED owner
          /\ IF at = "yielding" THEN Await("reading") ELSE Quit("returned")
          /\ UNCHANGED <<kind, holds, shown, file, feed, clock, world>>

CompleteReturns == /\ at = "completing" /\ owner' = "settled" /\ shown' = "final"
                   /\ IF kind = "stream" THEN at' = "answering" /\ UNCHANGED ends
                      ELSE Quit("returned")
                   /\ UNCHANGED <<kind, holds, file, feed, clock, world>>

-----------------------------------------------------------------------------
\* Failures.

\* The request iterator or the lease raises.
Raises == /\ at \in Timed
          /\ owner' = IF at \in Settling THEN "settled" ELSE owner
          /\ Quit("internal")
          /\ UNCHANGED <<kind, holds, shown, file, feed, clock, world>>

\* A TimeoutError of the engine, or of complete()'s own release, is taken for
\* the deadline of the wait.
ForeignTimeout == /\ at \in Settling /\ foreign' = TRUE /\ owner' = "settled"
                  /\ \E c \in Bounds(at) : Fail(c)
                  /\ UNCHANGED <<kind, holds, shown, file, feed, clock, gone, cancelled>>

ClientGone == /\ ~gone /\ at # "ended" /\ gone' = TRUE
              /\ UNCHANGED <<kind, at, holds, owner, ends, shown, file, feed, clock,
                             cancelled, foreign>>

\* The RPC's task is cancelled, once.  At a yield the generator is closed
\* instead: it sees a GeneratorExit.  cancel() swallows a cancellation.
Interrupt == /\ ~cancelled /\ at \in Timed \cup Writes \cup {"registering", "aborting"}
             /\ cancelled' = TRUE
             /\ owner' = IF at \in Settling THEN "settled" ELSE owner
             /\ \/ at = "aborting" /\ UNCHANGED <<at, ends>>
                \/ at \in Writes /\ Quit("internal")
                \/ at \notin Writes \cup {"aborting"} /\ Quit("cancelled")
             /\ UNCHANGED <<kind, holds, shown, file, feed, clock, gone, foreign>>

-----------------------------------------------------------------------------
\* What the event loop and its timers bring about.
Own == TimesOut \/ AbortReturns \/ Finally

Client == \/ ConfigureRefused \/ Configure \/ GoneNoticed \/ BadRequest \/ Audio
          \/ HeaderResolves \/ HeaderIncomplete \/ HeaderRefused \/ EndOfStream
          \/ Resume \/ ClientGone

Engine == \/ OpenReturns \/ Credit \/ BadCredit \/ FeedReturns \/ CompleteReturns
          \/ ForeignTimeout

Start == Arrive \/ Refuse \/ RegisterStream \/ RegisterUnary

Next == Start \/ Own \/ Client \/ Engine \/ Raises \/ Interrupt \/ Tick

Spec == Init /\ [][Next]_vars

\* Time passes, timers fire, cancel() returns and the gate's lock is granted;
\* neither the client nor the engine nor the transport owes anything.
FairSpec == Spec /\ WF_vars(Tick) /\ WF_vars(Own) /\ WF_vars(Start)

-----------------------------------------------------------------------------
\* Properties.

\* The owner is closed before the slot and the host's admission are given
\* up, and an RPC that ended holds neither (the except and finally clauses).
SettledBeforeReleased ==
    /\ holds = {} => owner # "live" /\ at \notin Timed \cup Writes \cup {"aborting"}
    /\ at = "ended" => holds = {}

\* outstanding[0] is exactly what the engine has not accepted of the current
\* handoff, which never exceeds pre_submit_max_samples: buffer_overflow is
\* never reported, whatever credits the engine gives.
CreditExact ==
    /\ at \in Timed \cup Writes =>
          outstanding = IF at \in {"feeding", "tail"} /\ ~credited THEN piece ELSE 0
    /\ status # "buffer_overflow"

\* A final result is the last one, and comes from a completed lease; OK is
\* told only after it, or to a client that is gone.
ResultsInOrder ==
    /\ shown = "final" => /\ owner = "settled"
                          /\ at \in {"answering", "finally", "ended"}
                          /\ status \in {"none", "OK"} \/ cancelled
    /\ status = "OK" => shown = "final" \/ gone

\* A timeout code names a deadline that was reached, or the client's own was,
\* unless an operation raised a TimeoutError of its own.
TimeoutsAreTrue ==
    status \in DOMAIN Limit => Expired(status) \/ Expired("rpc") \/ foreign

\* A final result is for a file whose header and data all came.
FinalIsWhole == shown = "final" => remaining \in {NoFile, 0} /\ ~pending

\* Each RPC keeps what the surfaces promise the host.
Contract == INSTANCE SessionContract WITH
    admission <- CASE holds # {} -> "during"
                   [] holds = {} /\ at = "arriving" -> "before"
                   [] OTHER -> "after",
    lease <- IF owner = "new" THEN "none" ELSE owner,
    served <- shown = "final"
SessionContractHolds == Contract!Spec

\* A silent stream ends: unless audio is accepted again and again or the
\* transport never takes a result (session_idle_timeout).
SilentStreamEnds == <>(at = "ended") \/ []<><<Credit>>_vars \/ <>[](at \in Writes)

\* Terminal work ends, whatever the engine does (session_finalization_timeout).
FinalizationEnds == (at \in {"tail", "completing"}) ~> (at \in {"answering", "ended"})

\* A unary RPC, and any with a maximal duration or a gRPC deadline, ends
\* whatever the engine does, unless the transport never takes a result.
BoundedRpcEnds == kind = "unary" \/ maximum > 0 \/ deadline > 0
                      => <>(at = "ended") \/ <>[](at \in Writes)
=============================================================================

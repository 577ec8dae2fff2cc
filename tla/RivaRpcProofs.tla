--------------------------- MODULE RivaRpcProofs ---------------------------
(* What every Riva RPC keeps, for every limit, credit and audio: the order  *)
(* of settlement and release, and SessionContract, which it implements.     *)
EXTENDS RivaRpc, TLAPS

\* The awaits at which a lease is open.
Open == {"reading", "feeding", "tail", "completing", "yielding", "aborting"}

\* The owner's state at each await.
OwnerInv ==
    /\ at \in Places
    /\ owner \in {"none", "new", "live", "settled"}
    /\ owner = "live" <=> at \in Open
    /\ at \in {"arriving", "registering", "configuring"} => owner = "none"
    /\ at = "opening" => owner = "new"
    /\ at = "answering" => owner = "settled"

\* Something is held from admission to the end.
HeldInv == holds = {} <=> at \in {"arriving", "ended"}

\* A final result comes from a settled lease.
FinalInv ==
    /\ shown = "final" => owner = "settled" /\ at \in {"answering", "finally", "ended"}
    /\ at = "answering" => shown = "final"

\* The codes of the deadlines.
TimeoutCodes == {"configuration_timeout", "idle_timeout", "request_timeout",
                 "finalization_timeout"}

\* The status is open until the try block is left, and a return without a
\* final result means that the client is gone.
StatusInv ==
    /\ at \notin {"aborting", "finally", "ended"} => ending = "none"
    /\ ending = "none" /\ at # "ended" => status = "none"
    /\ at \in {"aborting", "finally"} =>
          ending \in {"projected", "internal", "cancelled", "returned"}
    /\ ending \in {"internal", "cancelled", "returned"} /\ at # "ended" => status = "none"
    /\ ending = "projected" => status \notin {"none", "OK"}
    /\ ending = "returned" => shown = "final" \/ gone
    /\ shown = "final" => ending \in {"none", "returned"} \/ cancelled
    /\ status = "OK" => shown = "final" \/ gone
    /\ shown = "final" => status \in {"none", "OK"} \/ cancelled

\* What has come of the file where the RPC stands.
FileInv ==
    /\ kind \in {"stream", "unary"}
    /\ at \in {"configuring", "reading", "yielding"} => kind = "stream"
    /\ kind = "unary" => remaining = NoFile /\ ~pending
    /\ bound => ~pending
    /\ at \in {"arriving", "registering", "configuring", "opening"} => ~pending
    /\ at \in {"arriving", "registering", "configuring"} => left = 0
    /\ at = "opening" /\ kind = "stream" => left = 0
    /\ at = "opening" /\ kind = "unary" => bound
    /\ at \in {"feeding", "tail", "yielding"} => bound
    /\ at \in {"completing", "answering"} \/ shown = "final" =>
          remaining \in {NoFile, 0} /\ ~pending

\* Outside a handoff nothing is outstanding.
CreditInv ==
    /\ outstanding \in Int /\ left \in Nat /\ piece \in Nat
    /\ at \in {"feeding", "tail"} /\ ~credited => outstanding = piece
    /\ at \in {"feeding", "tail"} /\ credited => outstanding = 0
    /\ at \in {"arriving", "registering", "configuring", "opening", "reading",
               "completing", "yielding", "answering"} => outstanding = 0
    /\ status # "buffer_overflow"

RpcInv == OwnerInv /\ HeldInv /\ FinalInv /\ StatusInv /\ FileInv

-----------------------------------------------------------------------------
\* An RPC starts with nothing.
LEMMA RpcInit == Init => RpcInv
<1> SUFFICES ASSUME Init PROVE RpcInv
  OBVIOUS
<1> USE DEF Init
<1>1. OwnerInv /\ HeldInv /\ FinalInv
  BY DEF OwnerInv, HeldInv, FinalInv, Places, Timed, Writes, Open
<1>2. StatusInv
  BY DEF StatusInv
<1>3. FileInv
  BY DEF FileInv
<1> QED BY <1>1, <1>2, <1>3 DEF RpcInv

\* A deadline's code is one of its own.
LEMMA DeadlineCodes == \A place : /\ Bounds(place) \subseteq TimeoutCodes
                                  /\ First(place) \subseteq TimeoutCodes
BY DEF First, Bounds, TimeoutCodes

\* Every step keeps the order of opening, settling and releasing.
LEMMA RpcStep == RpcInv /\ [Next]_vars => RpcInv'
<1> SUFFICES ASSUME RpcInv, [Next]_vars PROVE RpcInv'
  OBVIOUS
<1> USE RivaAssumption, DeadlineCodes
    DEF RpcInv, OwnerInv, HeldInv, FinalInv, StatusInv, FileInv, Places, Timed,
        Writes, Open, ends, file, feed, world, TimeoutCodes, Refusals, Invalid
<1>1. CASE Arrive
  BY <1>1 DEF Arrive
<1>2. CASE Refuse
  BY <1>2 DEF Refuse, Fail, Leave, ToClose
<1>3. CASE RegisterStream
  BY <1>3 DEF RegisterStream, Await, Activity, Fail, Leave, ToClose
<1>4. CASE RegisterUnary
  BY <1>4 DEF RegisterUnary, Await, Activity, Fail, Quit, Leave, ToClose
<1>5. CASE TimesOut
  BY <1>5 DEF TimesOut, Settling, Fail, Leave, ToClose
<1>6. CASE AbortReturns
  BY <1>6 DEF AbortReturns
<1>7. CASE Finally
  BY <1>7 DEF Finally, Outcome
<1>8. CASE ConfigureRefused
  BY <1>8 DEF ConfigureRefused, Fail, Leave, ToClose
<1>9. CASE Configure
  BY <1>9 DEF Configure, Await, Activity, Fail, Leave, ToClose
<1>10. CASE GoneNoticed
  BY <1>10 DEF GoneNoticed, Quit, Leave, ToClose
<1>11. CASE BadRequest
  BY <1>11 DEF BadRequest, Fail, Leave, ToClose
<1>12. CASE Audio
  BY <1>12 DEF Audio, Push, FeedAll, Flush, Finalize, Truncated, Abandoned,
               Submit, Await, Activity, Fail, Quit, Leave, ToClose
<1>13. CASE HeaderResolves
  BY <1>13 DEF HeaderResolves, Push, FeedAll, Flush, Finalize, Truncated, Abandoned,
               Submit, Await, Activity, Fail, Quit, Leave, ToClose
<1>14. CASE HeaderIncomplete
  BY <1>14 DEF HeaderIncomplete, Await, Activity, Fail, Leave, ToClose
<1>15. CASE HeaderRefused
  BY <1>15 DEF HeaderRefused, Fail, Leave, ToClose
<1>16. CASE EndOfStream
  BY <1>16 DEF EndOfStream, Flush, Finalize, Truncated, Abandoned, Submit, Await, Activity,
               Fail, Quit, Leave, ToClose
<1>17. CASE Resume
  BY <1>17 DEF Resume, Await, Activity, Fail, Quit, Leave, ToClose
<1>18. CASE ClientGone
  BY <1>18 DEF ClientGone
<1>19. CASE OpenReturns
  BY <1>19 DEF OpenReturns, FeedAll, Flush, Finalize, Truncated, Abandoned,
               Submit, Await, Activity, Fail, Quit, Leave, ToClose
<1>20. CASE Credit
  BY <1>20 DEF Credit, fixed
<1>21. CASE BadCredit
  BY <1>21 DEF BadCredit, Fail, Leave, ToClose
<1>22. CASE FeedReturns
  BY <1>22 DEF FeedReturns, FeedAll, Flush, Finalize, Truncated, Abandoned,
               Submit, Await, Activity, Fail, Quit, Leave, ToClose
<1>23. CASE CompleteReturns
  BY <1>23 DEF CompleteReturns, Quit, Leave, ToClose
<1>24. CASE Raises
  BY <1>24 DEF Raises, Settling, Quit, Leave, ToClose
<1>25. CASE ForeignTimeout
  BY <1>25 DEF ForeignTimeout, Settling, Fail, Leave, ToClose
<1>26. CASE Interrupt
  BY <1>26 DEF Interrupt, Settling, Quit, Leave, ToClose
<1>27. CASE Tick
  BY <1>27 DEF Tick, fixed
<1>28. CASE UNCHANGED vars
  BY <1>28 DEF vars
<1> QED
  BY <1>1, <1>2, <1>3, <1>4, <1>5, <1>6, <1>7, <1>8, <1>9, <1>10, <1>11, <1>12,
     <1>13, <1>14, <1>15, <1>16, <1>17, <1>18, <1>19, <1>20, <1>21, <1>22, <1>23,
     <1>24, <1>25, <1>26, <1>27, <1>28
     DEF Next, Start, Own, Client, Engine

\* Whatever fails, expires or is cancelled, the lease owner is closed before
\* the slot and the host's admission are given up (grpc.py's except and
\* finally clauses).
THEOREM SettlesBeforeRelease == Spec => []SettledBeforeReleased
<1>1. RpcInv => SettledBeforeReleased
  BY DEF RpcInv, OwnerInv, HeldInv, SettledBeforeReleased, Places, Timed, Writes, Open
<1> QED BY RpcInit, RpcStep, <1>1, PTL DEF Spec

\* One final result, last and from a completed lease; OK only after it or to
\* a client that is gone (StreamingRecognize, Recognize).
THEOREM ResultsComeInOrder == Spec => []ResultsInOrder
<1>1. RpcInv => ResultsInOrder
  BY DEF RpcInv, FinalInv, StatusInv, ResultsInOrder
<1> QED BY RpcInit, RpcStep, <1>1, PTL DEF Spec

\* No transcript of a file is final unless all announced bytes came.
THEOREM FinalResultIsWhole == Spec => []FinalIsWhole
<1>1. RpcInv => FinalIsWhole
  BY DEF RpcInv, FileInv, FinalIsWhole
<1> QED BY RpcInit, RpcStep, <1>1, PTL DEF Spec

\* Every step of an RPC is one of the contract's, or none.
LEMMA ContractStep == RpcInv /\ RpcInv' /\ [Next]_vars => [Contract!Next]_(Contract!vars)
<1> SUFFICES ASSUME RpcInv, RpcInv', [Next]_vars PROVE [Contract!Next]_(Contract!vars)
  OBVIOUS
<1> USE DEF RpcInv, OwnerInv, HeldInv, FinalInv, Open, Contract!Next, Contract!vars,
            Contract!Admit, Contract!Refuse, Contract!Open, Contract!Settle,
            Contract!Serve, Contract!Release
<1>1. CASE Arrive
  BY <1>1 DEF Arrive
<1>2. CASE Refuse \/ RegisterStream
  BY <1>2 DEF Refuse, RegisterStream
<1>3. CASE RegisterUnary
  BY <1>3 DEF RegisterUnary
<1>4. CASE TimesOut
  BY <1>4 DEF TimesOut, Settling, Places, Timed, Writes
<1>5. CASE AbortReturns \/ Finally
  BY <1>5 DEF AbortReturns, Finally
<1>6. CASE ConfigureRefused \/ Configure
  BY <1>6 DEF ConfigureRefused, Configure
<1>7. CASE GoneNoticed \/ BadRequest \/ Audio \/ HeaderResolves \/ HeaderIncomplete
           \/ HeaderRefused \/ EndOfStream
  BY <1>7 DEF GoneNoticed, BadRequest, Audio, HeaderResolves, HeaderIncomplete,
              HeaderRefused, EndOfStream
<1>8. CASE Resume
  BY <1>8 DEF Resume, Writes
<1>9. CASE OpenReturns \/ CompleteReturns
  BY <1>9 DEF OpenReturns, CompleteReturns
<1>10. CASE Credit \/ BadCredit
  BY <1>10 DEF Credit, BadCredit, fixed
<1>11. CASE FeedReturns
  BY <1>11 DEF FeedReturns
<1>12. CASE Raises \/ ForeignTimeout
  BY <1>12 DEF Raises, ForeignTimeout, Settling, Places, Timed, Writes
<1>13. CASE Interrupt
  BY <1>13 DEF Interrupt, Settling, Places, Timed, Writes
<1>14. CASE ClientGone \/ Tick \/ UNCHANGED vars
  BY <1>14 DEF ClientGone, Tick, vars, fixed
<1> QED
  BY <1>1, <1>2, <1>3, <1>4, <1>5, <1>6, <1>7, <1>8, <1>9, <1>10, <1>11, <1>12,
     <1>13, <1>14
     DEF Next, Start, Own, Client, Engine

\* An RPC of either kind keeps the contract every surface has with the host.
THEOREM ImplementsSessionContract == Spec => SessionContractHolds
<1>1. Init => Contract!Init
  BY DEF Init, Contract!Init
<1> QED BY RpcInit, RpcStep, <1>1, ContractStep, PTL
        DEF Spec, SessionContractHolds, Contract!Spec

-----------------------------------------------------------------------------
\* Handing samples over keeps the credit exact: from nothing outstanding, a
\* piece that fits is outstanding afterwards.
LEMMA SubmitExact ==
    ASSUME NEW n \in Nat \ {0}, NEW place \in {"feeding", "tail"},
           outstanding = 0, status # "buffer_overflow", Submit(n, place)
    PROVE  /\ outstanding' \in Int /\ left' \in Nat /\ piece' \in Nat
           /\ outstanding' = piece' /\ ~credited'
           /\ at' \in {place, "aborting", "finally"}
           /\ status' # "buffer_overflow"
BY RivaAssumption, DeadlineCodes
   DEF Submit, Least, Activity, Fail, Leave, ToClose, ends, TimeoutCodes

\* A wait never reports buffer_overflow.
LEMMA AwaitQuiet ==
    ASSUME NEW place, Await(place), status # "buffer_overflow"
    PROVE  at' \in {place, "aborting", "finally"} /\ status' # "buffer_overflow"
BY DeadlineCodes DEF Await, Activity, Fail, Leave, ToClose, ends, TimeoutCodes

\* Nor does finalization.
LEMMA FinalizeQuiet ==
    ASSUME Finalize, status # "buffer_overflow"
    PROVE  /\ at' \in {"completing", "aborting", "finally"}
           /\ status' # "buffer_overflow"
BY AwaitQuiet DEF Finalize, Fail, Quit, Leave, ToClose

\* So do the operations made of it.
LEMMA FeedAllExact ==
    ASSUME NEW n \in Nat, CreditInv, outstanding = 0, FeedAll(n) \/ Flush
    PROVE  CreditInv'
<1> USE DEF CreditInv
<1>1. CASE \E m \in 1..MaxBytes : Submit(m, "tail")
  BY <1>1, SubmitExact, RivaAssumption
<1>2. CASE Finalize /\ UNCHANGED feed
  BY <1>2, FinalizeQuiet DEF feed
<1>3. CASE n > 0 /\ Submit(n, "feeding")
  BY <1>3, SubmitExact
<1>4. CASE Await("reading") /\ UNCHANGED feed
  BY <1>4, AwaitQuiet DEF feed
<1> QED BY <1>1, <1>2, <1>3, <1>4 DEF FeedAll, Flush

\* Every step keeps the credit exact.
LEMMA CreditStep == RpcInv /\ CreditInv /\ [Next]_vars => CreditInv'
<1> SUFFICES ASSUME RpcInv, CreditInv, [Next]_vars PROVE CreditInv'
  OBVIOUS
<1> USE DEF CreditInv, feed, ends, Timed, Writes
<1>1. CASE Arrive \/ Refuse \/ RegisterStream
  BY <1>1, AwaitQuiet DEF Arrive, Refuse, Refusals, RegisterStream, Fail, Leave, ToClose,
                          RpcInv, StatusInv
<1>2. CASE RegisterUnary
  BY <1>2, AwaitQuiet, RivaAssumption
     DEF RegisterUnary, Invalid, Fail, Quit, Leave, ToClose
<1>3. CASE TimesOut \/ AbortReturns \/ Finally
  BY <1>3, DeadlineCodes DEF TimesOut, AbortReturns, Finally, Outcome, Fail, Leave, ToClose,
                             TimeoutCodes
<1>4. CASE ConfigureRefused \/ Configure
  BY <1>4, AwaitQuiet DEF ConfigureRefused, Invalid, Configure, Fail, Leave, ToClose
<1>5. CASE GoneNoticed \/ BadRequest \/ HeaderIncomplete \/ HeaderRefused \/ Resume
  <2>1. CASE GoneNoticed \/ BadRequest \/ HeaderRefused
    BY <2>1 DEF GoneNoticed, BadRequest, HeaderRefused, Fail, Quit, Leave, ToClose
  <2>2. CASE HeaderIncomplete
    BY <2>2, AwaitQuiet DEF HeaderIncomplete
  <2>3. CASE Resume
    BY <2>3, AwaitQuiet DEF Resume, Quit, Leave, ToClose
  <2> QED BY <1>5, <2>1, <2>2, <2>3
<1>6. CASE Audio \/ HeaderResolves
  <2>1. PICK n, size : Push(n, size)
    BY <1>6 DEF Audio, HeaderResolves
  <2>2. PICK k \in 0..Take(n, size) : FeedAll(k)
    BY <2>1 DEF Push
  <2>3. k \in Nat
    OBVIOUS
  <2> QED BY <1>6, <2>2, <2>3, FeedAllExact DEF Audio, HeaderResolves
<1>7. CASE EndOfStream
  <2>1. CASE Flush
    BY <1>7, <2>1, FeedAllExact DEF EndOfStream
  <2>2. CASE Finalize /\ UNCHANGED feed
    BY <1>7, <2>2, FinalizeQuiet DEF EndOfStream
  <2> QED BY <1>7, <2>1, <2>2 DEF EndOfStream, Fail, Quit, Leave, ToClose
<1>8. CASE OpenReturns
  BY <1>8, FeedAllExact DEF OpenReturns
<1>9. CASE Credit
  BY <1>9, RivaAssumption DEF Credit, Accepts, fixed
<1>10. CASE BadCredit \/ CompleteReturns \/ Raises
  BY <1>10 DEF BadCredit, CompleteReturns, Raises, Fail, Quit, Leave, ToClose
<1>11. CASE FeedReturns
  <2>1. CASE ~credited /\ Fail("internal") /\ UNCHANGED <<feed, shown>>
    BY <1>11, <2>1 DEF Fail, Leave, ToClose
  <2>2. CASE credited /\ left > 0 /\ Submit(left, at)
    BY <1>11, <2>2, SubmitExact DEF FeedReturns
  <2>3. CASE credited /\ Finalize /\ UNCHANGED <<feed, shown>>
    BY <1>11, <2>3, FinalizeQuiet DEF FeedReturns
  <2>4. CASE credited /\ FeedAll(0)
    BY <1>11, <2>4, FeedAllExact DEF FeedReturns
  <2>5. CASE credited /\ at' = "yielding" /\ UNCHANGED <<feed, ends>>
    BY <1>11, <2>5 DEF FeedReturns
  <2> QED BY <1>11, <2>1, <2>2, <2>3, <2>4, <2>5 DEF FeedReturns
<1>12. CASE ForeignTimeout \/ ClientGone \/ Interrupt
  BY <1>12, DeadlineCodes DEF ForeignTimeout, ClientGone, Interrupt, Fail, Quit, Leave,
                              ToClose, TimeoutCodes
<1>13. CASE Tick \/ UNCHANGED vars
  BY <1>13 DEF Tick, vars, fixed
<1> QED
  BY <1>1, <1>2, <1>3, <1>4, <1>5, <1>6, <1>7, <1>8, <1>9, <1>10, <1>11, <1>12, <1>13
     DEF Next, Start, Own, Client, Engine

\* An RPC starts without samples.
LEMMA CreditInit == Init => CreditInv
BY DEF Init, CreditInv

\* Whatever credits the engine gives, no more than one handoff is ever
\* outstanding and buffer_overflow is never reported (_bounded_feed).
THEOREM CreditStaysExact == Spec => []CreditExact
<1>1. CreditInv => CreditExact
  BY DEF CreditInv, CreditExact, Timed, Writes
<1> QED BY RpcInit, RpcStep, CreditInit, CreditStep, <1>1, PTL DEF Spec

-----------------------------------------------------------------------------
\* The clocks stop at their limits.
ClockInv == /\ maximum \in {0, MaxLimit} /\ deadline \in {0, RpcLimit}
            /\ elapsed \in [TimeoutCodes \cup {"rpc"} -> Nat]
            /\ \A c \in TimeoutCodes \cup {"rpc"} : elapsed[c] <= Limit[c]

Reached == {c \in TimeoutCodes \cup {"rpc"} : Expired(c)}

\* A step leaves the status alone, gives one that names no deadline, or names
\* one of the adapter's when it, or the client's, was reached.
Others == Refusals \cup Invalid \cup {"protocol_order", "request_too_large", "invalid_audio",
                                      "buffer_overflow", "internal", "OK", "cancelled"}
Endings == {"none", "projected", "internal", "cancelled", "returned"}
Honest == /\ \/ status' = status \/ status' \in Others
             \/ status' \in TimeoutCodes /\ (status' \in Reached \/ "rpc" \in Reached)
          /\ ending' = ending \/ ending' \in Endings

\* No status names a deadline that was not reached.
StatusTrue == /\ ClockInv /\ ending \in Endings
              /\ status \in TimeoutCodes \cup Others \cup {"none"}
              /\ status \in TimeoutCodes => status \in Reached \/ "rpc" \in Reached \/ foreign

\* A limit is a natural number, and no deadline of the adapter's own bounds a
\* wait without one.
LEMMA Limits ==
    ASSUME ClockInv
    PROVE  /\ DOMAIN Limit = TimeoutCodes \cup {"rpc"}
           /\ \A c \in TimeoutCodes \cup {"rpc"} : Limit[c] \in Nat /\ elapsed[c] \in Nat
           /\ \A place : \A c \in Bounds(place) : c \in TimeoutCodes /\ Limit[c] > 0
<1>1. DOMAIN Limit = TimeoutCodes \cup {"rpc"}
  BY DEF Limit, TimeoutCodes
<1>2. ASSUME NEW c \in TimeoutCodes \cup {"rpc"} PROVE Limit[c] \in Nat /\ elapsed[c] \in Nat
  BY <1>2, RivaAssumption DEF ClockInv, Limit, TimeoutCodes
<1>3. ASSUME NEW place, NEW c \in Bounds(place) PROVE c \in TimeoutCodes /\ Limit[c] > 0
  <2>1. c \in TimeoutCodes
    BY DeadlineCodes
  <2>2. c = "request_timeout" => maximum > 0
    BY DEF Bounds
  <2>3. /\ Limit.configuration_timeout > 0 /\ Limit.idle_timeout > 0
        /\ Limit.finalization_timeout > 0 /\ Limit.request_timeout = maximum
    BY RivaAssumption DEF Limit
  <2> QED BY <2>1, <2>2, <2>3 DEF TimeoutCodes
<1> QED BY <1>1, <1>2, <1>3

\* Whichever deadline of a wait comes first, it was reached when one was.
LEMMA FirstReached ==
    ASSUME ClockInv, NEW place, Due(place), NEW c \in First(place)
    PROVE  c \in TimeoutCodes /\ (c \in Reached \/ "rpc" \in Reached)
<1>1. c \in Bounds(place) /\ c \in TimeoutCodes
  BY DeadlineCodes DEF First
<1>2. CASE Expired("rpc")
  BY <1>1, <1>2 DEF Reached
<1>3. CASE \E d \in Bounds(place) : Expired(d)
  <2>1. PICK d \in Bounds(place) : Expired(d)
    BY <1>3
  <2>2. Limit[c] - elapsed[c] <= Limit[d] - elapsed[d]
    BY DEF First
  <2>3. /\ Limit[c] \in Nat /\ elapsed[c] \in Nat /\ Limit[d] \in Nat /\ elapsed[d] \in Nat
        /\ Limit[c] > 0 /\ elapsed[c] <= Limit[c]
    BY <1>1, Limits DEF ClockInv
  <2>4. Expired(c)
    BY <2>1, <2>2, <2>3 DEF Expired
  <2> QED BY <1>1, <2>4 DEF Reached
<1> QED BY <1>2, <1>3 DEF Due

\* What the operations say when they do not go on.
LEMMA HonestWait ==
    ASSUME ClockInv, NEW place, Await(place) \/ Activity(place)
    PROVE  Honest
<1>1. CASE Activity(place)
  BY <1>1, FirstReached DEF Activity, Fail, Leave, Honest, Endings, ends
<1>2. CASE Expired("rpc") /\ Fail("request_timeout")
  BY <1>2 DEF Fail, Leave, Honest, Endings, Reached, TimeoutCodes
<1> QED BY <1>1, <1>2 DEF Await

LEMMA HonestEnd ==
    ASSUME NEW code, NEW how \in Endings, (code \in Others /\ Fail(code)) \/ Quit(how)
    PROVE  Honest
BY DEF Fail, Quit, Leave, Honest, Endings

LEMMA HonestFeed ==
    ASSUME ClockInv, NEW n, NEW place,
           Submit(n, place) \/ Finalize \/ Flush \/ FeedAll(n)
    PROVE  Honest
<1>1. ASSUME NEW m, NEW p, Submit(m, p) PROVE Honest
  BY <1>1, HonestWait, HonestEnd DEF Submit, Others, Endings
<1>2. Finalize => Honest
  BY HonestWait, HonestEnd DEF Finalize, Others, Endings
<1>3. Flush => Honest
  BY <1>1, <1>2 DEF Flush
<1>4. FeedAll(n) => Honest
  BY <1>1, <1>3, HonestWait DEF FeedAll
<1> QED BY <1>1, <1>2, <1>3, <1>4

\* Every step but the three below is honest and leaves the clocks alone.
Timeless == UNCHANGED <<maximum, deadline, elapsed, foreign>>
LEMMA HonestStep ==
    ASSUME RpcInv, ClockInv,
           Start \/ Own \/ Client \/ Engine \/ Raises \/ Interrupt,
           ~Credit, ~ForeignTimeout
    PROVE  Honest /\ Timeless
<1> USE DEF Timeless, file, feed, clock, world, ends, Others, Endings
<1>1. CASE Arrive \/ AbortReturns \/ ClientGone
  BY <1>1 DEF Arrive, AbortReturns, ClientGone, Honest, Refusals
<1>2. CASE Refuse \/ ConfigureRefused \/ BadRequest \/ HeaderRefused \/ BadCredit
  BY <1>2, HonestEnd DEF Refuse, ConfigureRefused, BadRequest, HeaderRefused, BadCredit,
                         Refusals, Invalid
<1>3. CASE RegisterStream \/ Configure \/ HeaderIncomplete
  BY <1>3, HonestWait DEF RegisterStream, Configure, HeaderIncomplete
<1>4. CASE RegisterUnary
  <2>1. \/ \E c \in Others : Fail(c)
        \/ Expired("rpc") /\ Fail("request_timeout")
        \/ Quit("returned")
        \/ Await("opening")
    BY <1>4 DEF RegisterUnary
  <2>2. Expired("rpc") /\ Fail("request_timeout") => Honest
    BY HonestWait DEF Await
  <2>3. Honest
    BY <2>1, <2>2, HonestWait, HonestEnd
  <2> QED BY <1>4, <2>3 DEF RegisterUnary
<1>5. CASE TimesOut
  <2>1. PICK c \in First(at) : Fail(c)
    BY <1>5 DEF TimesOut
  <2>2. Honest
    BY <1>5, <2>1, FirstReached DEF TimesOut, Fail, Leave, Honest
  <2> QED BY <1>5, <2>2 DEF TimesOut
<1>6. CASE Finally
  BY <1>6 DEF Finally, Outcome, Honest
<1>7. CASE GoneNoticed \/ CompleteReturns \/ Raises \/ Interrupt
  <2>1. Honest
    BY <1>7, HonestEnd DEF GoneNoticed, CompleteReturns, Raises, Interrupt, Honest
  <2> QED BY <1>7, <2>1 DEF GoneNoticed, CompleteReturns, Raises, Interrupt
<1>8. CASE Audio \/ HeaderResolves
  <2>1. Honest
    BY <1>8, HonestFeed DEF Audio, HeaderResolves, Push
  <2> QED BY <1>8, <2>1 DEF Audio, HeaderResolves
<1>9. CASE EndOfStream
  <2>1. Flush \/ Finalize \/ Quit("returned") \/ \E c \in Others : Fail(c)
    BY <1>9 DEF EndOfStream, Invalid
  <2>2. Flush \/ Finalize => Honest
    BY HonestFeed
  <2>3. Honest
    BY <2>1, <2>2, HonestEnd
  <2> QED BY <1>9, <2>3 DEF EndOfStream
<1>10. CASE Resume
  BY <1>10, HonestWait, HonestEnd DEF Resume
<1>11. CASE OpenReturns
  BY <1>11, HonestFeed DEF OpenReturns
<1>12. CASE FeedReturns
  <2>1. Honest
    BY <1>12, HonestFeed, HonestEnd DEF FeedReturns, Honest
  <2> QED BY <1>12, <2>1 DEF FeedReturns
<1> QED
  BY <1>1, <1>2, <1>3, <1>4, <1>5, <1>6, <1>7, <1>8, <1>9, <1>10, <1>11, <1>12
     DEF Start, Own, Client, Engine

\* A credit and a tick move the clocks, never past a limit; a foreign timeout
\* is recorded.
LEMMA ClockStep ==
    ASSUME RpcInv, StatusTrue, Credit \/ Tick
    PROVE  StatusTrue'
<1> USE Limits DEF StatusTrue
<1>1. Limit' = Limit /\ UNCHANGED <<maximum, deadline, ending, status, foreign>>
  BY DEF Credit, Tick, fixed, ends, world, Limit
<1>2. CASE Credit
  <2>1. status = "none"
    BY <1>2 DEF Credit, RpcInv, StatusInv
  <2>2. elapsed' = elapsed \/ elapsed' = [elapsed EXCEPT !["idle_timeout"] = 0]
    BY <1>2 DEF Credit
  <2>3. ClockInv'
    BY <1>1, <2>2 DEF ClockInv
  <2> QED BY <1>1, <2>1, <2>3 DEF TimeoutCodes
<1>3. CASE Tick
  <2>1. elapsed' = [c \in TimeoutCodes \cup {"rpc"} |->
                       IF c \in Running /\ elapsed[c] < Limit[c]
                       THEN elapsed[c] + 1 ELSE elapsed[c]]
    BY <1>3 DEF Tick
  <2>2. ClockInv'
    BY <1>1, <2>1 DEF ClockInv
  <2>3. Reached \subseteq Reached'
    BY <1>1, <2>1 DEF Reached, Expired
  <2> QED BY <1>1, <2>2, <2>3
<1> QED BY <1>2, <1>3

\* Every step keeps the reported timeouts true.
LEMMA StatusStep == RpcInv /\ StatusTrue /\ [Next]_vars => StatusTrue'
<1> SUFFICES ASSUME RpcInv, StatusTrue, [Next]_vars PROVE StatusTrue'
  OBVIOUS
<1>1. CASE Credit \/ Tick
  BY <1>1, ClockStep
<1>2. CASE ForeignTimeout
  <2>1. PICK c \in Bounds(at) : Fail(c)
    BY <1>2 DEF ForeignTimeout
  <2>2. c \in TimeoutCodes
    BY DeadlineCodes
  <2>3. foreign' /\ status' \in TimeoutCodes /\ ending' \in Endings
    BY <1>2, <2>1, <2>2 DEF ForeignTimeout, Fail, Leave, Endings
  <2>4. ClockInv'
    BY <1>2 DEF ForeignTimeout, StatusTrue, ClockInv, clock, Limit
  <2> QED BY <2>3, <2>4 DEF StatusTrue
<1>3. CASE Honest /\ Timeless
  <2>1. ClockInv' /\ Reached' = Reached /\ foreign' = foreign
    BY <1>3 DEF Timeless, StatusTrue, ClockInv, Reached, Expired, Limit
  <2>2. ending' \in Endings
    BY <1>3 DEF Honest, StatusTrue
  <2>3. \A c \in Others : c \notin TimeoutCodes
    BY DEF Others, TimeoutCodes, Refusals, Invalid
  <2>4. /\ status' \in TimeoutCodes \cup Others \cup {"none"}
        /\ status' \in TimeoutCodes => status' \in Reached \/ "rpc" \in Reached \/ foreign
    BY <1>3, <2>3 DEF Honest, StatusTrue
  <2> QED BY <2>1, <2>2, <2>4 DEF StatusTrue
<1>4. CASE UNCHANGED vars
  BY <1>4 DEF vars, ends, clock, world, StatusTrue, ClockInv, Reached, Expired, Limit
<1> QED BY <1>1, <1>2, <1>3, <1>4, HonestStep DEF Next, Engine, StatusTrue

LEMMA StatusInit == Init => StatusTrue
<1> SUFFICES ASSUME Init PROVE StatusTrue
  OBVIOUS
<1>1. ClockInv
  BY RivaAssumption DEF Init, ClockInv, Limit, TimeoutCodes
<1> QED BY <1>1 DEF Init, StatusTrue, Endings, TimeoutCodes

\* A timeout code names a deadline that was reached, unless the client's own
\* was or an operation raised a TimeoutError of its own (_await_until,
\* _await_stream_activity).
THEOREM TimeoutsStayTrue == Spec => []TimeoutsAreTrue
<1>1. StatusTrue => TimeoutsAreTrue
  <2> SUFFICES ASSUME StatusTrue, status \in DOMAIN Limit PROVE TimeoutsAreTrue
    BY DEF TimeoutsAreTrue
  <2>1. status \in TimeoutCodes \cup {"rpc"}
    BY Limits DEF StatusTrue
  <2>2. status # "rpc"
    BY DEF StatusTrue, TimeoutCodes, Others, Refusals, Invalid
  <2> QED BY <2>1, <2>2 DEF StatusTrue, Reached, TimeoutsAreTrue
<1> QED BY RpcInit, RpcStep, StatusInit, StatusStep, <1>1, PTL DEF Spec

-----------------------------------------------------------------------------
\* The types that the invariants above leave open.
FlagTypes == /\ bound \in BOOLEAN /\ pending \in BOOLEAN
             /\ gone \in BOOLEAN /\ cancelled \in BOOLEAN /\ foreign \in BOOLEAN
FeedTypes == left \in 0..MaxBytes /\ piece \in 0..PreSubmit /\ credited \in BOOLEAN
DataTypes == /\ holds \subseteq {"host", "slot"}
             /\ shown \in {"none", "interim", "final"}
             /\ remaining \in {NoFile} \cup 0..MaxBytes

\* Handing samples over keeps the types of the feed.
LEMMA FeedKept ==
    ASSUME FeedTypes, outstanding = 0, NEW n \in 0..MaxBytes,
           (Finalize /\ UNCHANGED feed) \/ Flush \/ FeedAll(n)
              \/ \E place : Submit(n, place)
    PROVE  FeedTypes'
<1>1. UNCHANGED feed => left' \in 0..MaxBytes /\ piece' \in 0..PreSubmit
  BY DEF feed, FeedTypes
<1>2. UNCHANGED feed => credited' \in BOOLEAN
  BY Zenon DEF feed, FeedTypes
<1>3. ASSUME NEW m \in 0..MaxBytes, NEW place, Submit(m, place)
      PROVE  left' \in 0..MaxBytes /\ piece' \in 0..PreSubmit /\ credited' \in BOOLEAN
  <2>1. UNCHANGED feed \/ credited' = FALSE
    BY <1>3, Zenon DEF Submit
  <2>2. \/ UNCHANGED feed
        \/ piece' = Least(PreSubmit, m) /\ left' = m - piece'
    BY <1>3, RivaAssumption DEF Submit
  <2>3. left' \in 0..MaxBytes /\ piece' \in 0..PreSubmit
    BY <1>1, <2>2, RivaAssumption DEF Least
  <2>4. credited' \in BOOLEAN
    BY <1>2, <2>1, Zenon
  <2> QED BY <2>3, <2>4
<1>4. ASSUME Flush
      PROVE  left' \in 0..MaxBytes /\ piece' \in 0..PreSubmit /\ credited' \in BOOLEAN
  <2>1. UNCHANGED feed \/ \E m \in 1..MaxBytes : Submit(m, "tail")
    BY <1>4, Zenon DEF Flush
  <2>2. \A m \in 1..MaxBytes : m \in 0..MaxBytes
    BY RivaAssumption
  <2> QED BY <1>1, <1>2, <1>3, <2>1, <2>2, Zenon
<1>5. FeedAll(n) => Submit(n, "feeding") \/ UNCHANGED feed \/ Flush
  BY Zenon DEF FeedAll
<1> QED BY <1>1, <1>2, <1>3, <1>4, <1>5, Zenon DEF FeedTypes

\* What a step does to the flags of the file and of the world.
LEMMA FlagStep == FlagTypes /\ [Next]_vars => FlagTypes'
<1> SUFFICES ASSUME FlagTypes, [Next]_vars PROVE FlagTypes'
  OBVIOUS
<1> USE DEF FlagTypes, file, world
<1>1. CASE UNCHANGED <<file, world>>
  BY <1>1, Zenon
<1>2. CASE RegisterUnary
  BY <1>2, Zenon DEF RegisterUnary
<1>3. CASE Configure
  BY <1>3, Zenon DEF Configure
<1>4. CASE HeaderResolves
  BY <1>4, Zenon DEF HeaderResolves
<1>5. CASE HeaderIncomplete
  BY <1>5, Zenon DEF HeaderIncomplete
<1>6. CASE Audio
  BY <1>6, Zenon DEF Audio
<1>7. CASE ForeignTimeout
  BY <1>7, Zenon DEF ForeignTimeout
<1>8. CASE ClientGone
  BY <1>8, Zenon DEF ClientGone
<1>9. CASE Interrupt
  BY <1>9, Zenon DEF Interrupt
<1>10. ASSUME ~RegisterUnary, ~Configure, ~HeaderResolves, ~HeaderIncomplete, ~Audio,
              ~ForeignTimeout, ~ClientGone, ~Interrupt
       PROVE  UNCHANGED <<file, world>>
  <2>1. CASE Arrive \/ Refuse \/ RegisterStream \/ TimesOut \/ AbortReturns \/ Finally
    BY <2>1 DEF Arrive, Refuse, RegisterStream, TimesOut, AbortReturns, Finally
  <2>2. CASE \/ ConfigureRefused \/ GoneNoticed \/ BadRequest \/ HeaderRefused
             \/ EndOfStream \/ Resume
    BY <2>2 DEF ConfigureRefused, GoneNoticed, BadRequest, HeaderRefused, EndOfStream, Resume
  <2>3. CASE OpenReturns \/ Credit \/ BadCredit \/ FeedReturns \/ CompleteReturns
    BY <2>3 DEF OpenReturns, Credit, BadCredit, FeedReturns, CompleteReturns
  <2>4. CASE Raises \/ Tick \/ UNCHANGED vars
    BY <2>4 DEF Raises, Tick, vars
  <2> QED BY <1>10, <2>1, <2>2, <2>3, <2>4 DEF Next, Start, Own, Client, Engine
<1> QED BY <1>1, <1>2, <1>3, <1>4, <1>5, <1>6, <1>7, <1>8, <1>9, <1>10, Zenon

\* What it does to the feed.
LEMMA FeedStep ==
    RpcInv /\ CreditInv /\ FeedTypes /\ DataTypes /\ [Next]_vars => FeedTypes'
<1> SUFFICES ASSUME RpcInv, CreditInv, FeedTypes, DataTypes, [Next]_vars PROVE FeedTypes'
  OBVIOUS
<1>1. CASE UNCHANGED feed
  <2>1. left' \in 0..MaxBytes /\ piece' \in 0..PreSubmit
    BY <1>1 DEF feed, FeedTypes
  <2>2. credited' \in BOOLEAN
    BY <1>1, Zenon DEF feed, FeedTypes
  <2> QED BY <2>1, <2>2 DEF FeedTypes
<1>2. CASE RegisterUnary
  <2>1. left' \in 0..MaxBytes /\ piece' \in 0..PreSubmit
    BY <1>2, RivaAssumption DEF RegisterUnary, FeedTypes
  <2>2. credited' \in BOOLEAN
    BY <1>2, Zenon DEF RegisterUnary, FeedTypes
  <2> QED BY <2>1, <2>2 DEF FeedTypes
<1>3. CASE Credit
  <2>1. left' \in 0..MaxBytes /\ piece' \in 0..PreSubmit
    BY <1>3 DEF Credit, FeedTypes
  <2>2. credited' \in BOOLEAN
    BY <1>3, Zenon DEF Credit
  <2> QED BY <2>1, <2>2 DEF FeedTypes
<1>4. CASE Audio \/ HeaderResolves
  <2>1. outstanding = 0
    BY <1>4 DEF Audio, HeaderResolves, CreditInv
  <2>2. PICK n \in 0..MaxBytes, size \in {NoFile} \cup 0..MaxBytes : Push(n, size)
    BY <1>4 DEF Audio, HeaderResolves, DataTypes
  <2>3. PICK k \in 0..Take(n, size) : FeedAll(k)
    BY <2>2 DEF Push
  <2>4. k \in 0..MaxBytes
    BY RivaAssumption DEF Take, Least
  <2> QED BY <2>1, <2>3, <2>4, FeedKept
<1>5. CASE EndOfStream
  <2>1. outstanding = 0 /\ 0 \in 0..MaxBytes
    BY <1>5, RivaAssumption DEF EndOfStream, CreditInv
  <2>2. UNCHANGED feed \/ Flush
    BY <1>5 DEF EndOfStream
  <2> QED BY <1>1, <2>1, <2>2, FeedKept
<1>6. CASE OpenReturns
  BY <1>6, FeedKept DEF OpenReturns, FeedTypes, CreditInv
<1>7. CASE FeedReturns
  <2>1. credited /\ at \in {"feeding", "tail"} => outstanding = 0
    BY DEF CreditInv
  <2>2. \/ UNCHANGED feed
        \/ credited /\ Submit(left, at)
        \/ credited /\ FeedAll(0)
    BY <1>7 DEF FeedReturns
  <2>3. 0 \in 0..MaxBytes /\ left \in 0..MaxBytes
    BY RivaAssumption DEF FeedTypes
  <2> QED BY <1>1, <1>7, <2>1, <2>2, <2>3, FeedKept DEF FeedReturns
<1>8. ASSUME ~RegisterUnary, ~Credit, ~Audio, ~HeaderResolves, ~EndOfStream,
             ~OpenReturns, ~FeedReturns
      PROVE  UNCHANGED feed
  <2>1. CASE Arrive \/ Refuse \/ RegisterStream \/ TimesOut \/ AbortReturns \/ Finally
    BY <2>1 DEF Arrive, Refuse, RegisterStream, TimesOut, AbortReturns, Finally
  <2>2. CASE \/ ConfigureRefused \/ Configure \/ GoneNoticed \/ BadRequest
             \/ HeaderIncomplete \/ HeaderRefused \/ Resume
    BY <2>2 DEF ConfigureRefused, Configure, GoneNoticed, BadRequest, HeaderIncomplete,
                HeaderRefused, Resume
  <2>3. CASE BadCredit \/ CompleteReturns \/ ForeignTimeout \/ Raises \/ Interrupt
    BY <2>3 DEF BadCredit, CompleteReturns, ForeignTimeout, Raises, Interrupt
  <2>4. CASE ClientGone \/ Tick \/ UNCHANGED vars
    BY <2>4 DEF ClientGone, Tick, vars
  <2> QED BY <1>8, <2>1, <2>2, <2>3, <2>4 DEF Next, Start, Own, Client, Engine
<1> QED BY <1>1, <1>2, <1>3, <1>4, <1>5, <1>6, <1>7, <1>8

\* And to the rest.
LEMMA DataStep == RpcInv /\ DataTypes /\ [Next]_vars => DataTypes'
<1> SUFFICES ASSUME RpcInv, DataTypes, [Next]_vars PROVE DataTypes'
  OBVIOUS
<1> USE RivaAssumption DEF DataTypes, file
<1>1. CASE Arrive \/ Refuse \/ RegisterStream
  BY <1>1 DEF Arrive, Refuse, RegisterStream
<1>2. CASE RegisterUnary
  BY <1>2 DEF RegisterUnary
<1>3. CASE TimesOut \/ AbortReturns \/ Finally
  BY <1>3 DEF TimesOut, AbortReturns, Finally
<1>4. CASE ConfigureRefused \/ Configure \/ GoneNoticed \/ BadRequest
  BY <1>4 DEF ConfigureRefused, Configure, GoneNoticed, BadRequest
<1>5. CASE HeaderIncomplete \/ HeaderRefused \/ Resume \/ EndOfStream
  BY <1>5 DEF HeaderIncomplete, HeaderRefused, Resume, EndOfStream
<1>6. CASE Audio \/ HeaderResolves
  <2>1. PICK n \in 0..MaxBytes, size \in {NoFile} \cup 0..MaxBytes : Push(n, size)
    BY <1>6 DEF Audio, HeaderResolves
  <2>2. remaining' \in {NoFile} \cup 0..MaxBytes
    BY <2>1 DEF Push, Take, Least
  <2> QED BY <1>6, <2>2 DEF Audio, HeaderResolves
<1>7. CASE OpenReturns \/ Credit \/ BadCredit \/ FeedReturns \/ CompleteReturns
  BY <1>7 DEF OpenReturns, Credit, BadCredit, FeedReturns, CompleteReturns
<1>8. CASE ForeignTimeout \/ Raises \/ Interrupt \/ ClientGone \/ Tick \/ UNCHANGED vars
  BY <1>8 DEF ForeignTimeout, Raises, Interrupt, ClientGone, Tick, vars
<1> QED BY <1>1, <1>2, <1>3, <1>4, <1>5, <1>6, <1>7, <1>8
        DEF Next, Start, Own, Client, Engine

\* The invariants and types together, which the state's type follows from.
RpcTyped == RpcInv /\ CreditInv /\ StatusTrue /\ FlagTypes /\ FeedTypes /\ DataTypes

\* Every variable of an RPC keeps its type: the bounds on what is left of a
\* handoff and of a file among them.
THEOREM RpcTypes == Spec => []TypeOK
<1>1. Init => RpcTyped
  <2> SUFFICES ASSUME Init PROVE RpcTyped
    OBVIOUS
  <2>1. FlagTypes
    BY Zenon DEF Init, FlagTypes
  <2>2. left \in 0..MaxBytes /\ piece \in 0..PreSubmit /\ DataTypes
    BY RivaAssumption DEF Init, DataTypes
  <2>3. credited \in BOOLEAN
    BY Zenon DEF Init
  <2> QED BY <2>1, <2>2, <2>3, RpcInit, CreditInit, StatusInit DEF RpcTyped, FeedTypes
<1>2. RpcTyped /\ [Next]_vars => RpcTyped'
  BY RpcStep, CreditStep, StatusStep, FlagStep, FeedStep, DataStep DEF RpcTyped
<1>3. RpcTyped => TypeOK
  <2> SUFFICES ASSUME RpcTyped PROVE TypeOK
    OBVIOUS
  <2>1. /\ kind \in {"stream", "unary"} /\ at \in Places
        /\ owner \in {"none", "new", "live", "settled"}
        /\ ending \in {"none", "projected", "internal", "cancelled", "returned"}
    BY DEF RpcTyped, RpcInv, FileInv, OwnerInv, StatusTrue, Endings
  <2>2. DOMAIN Limit = TimeoutCodes \cup {"rpc"}
    BY Limits DEF RpcTyped, StatusTrue
  <2>3. status \in Codes \cup {"none", "OK", "cancelled"}
    BY <2>2 DEF RpcTyped, StatusTrue, Codes, TimeoutCodes, Others
  <2>4. {bound, pending, credited, gone, cancelled, foreign} \subseteq BOOLEAN
    BY Zenon DEF RpcTyped, FlagTypes, FeedTypes
  <2>5. DataTypes /\ left \in 0..MaxBytes /\ piece \in 0..PreSubmit /\ outstanding \in Int
    BY DEF RpcTyped, FeedTypes, CreditInv
  <2>6. /\ maximum \in {0, MaxLimit} /\ deadline \in {0, RpcLimit}
        /\ elapsed \in [DOMAIN Limit -> Nat]
    BY <2>2 DEF RpcTyped, StatusTrue, ClockInv
  <2> QED BY <2>1, <2>3, <2>4, <2>5, <2>6, Zenon DEF TypeOK, DataTypes
<1> QED BY <1>1, <1>2, <1>3, PTL DEF Spec
=============================================================================

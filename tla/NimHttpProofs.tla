--------------------------- MODULE NimHttpProofs ---------------------------
(* What every transcription request keeps, for every limit, every cut of    *)
(* its body into messages and every credit.                                 *)
EXTENDS NimHttp, FiniteSetTheorems, TLAPS

Settled == {"finally", "responding", "ended"}

\* The owner, what is held and the answer, at each await.
TaskInv ==
    /\ at \in Places
    /\ owner \in {"none", "new", "live", "settled"}
    /\ owner = "live" <=> at \in {"feeding", "completing", "canceling"}
    /\ at = "opening" => owner = "new"
    /\ at \in {"arriving", "registering", "receiving", "parsing"} => owner = "none"
    /\ holds = {} <=> at \in {"arriving", "responding", "ended"}
    /\ outcome = "none" <=> at \notin Settled \cup {"canceling"}
    /\ outcome = "ok" => owner = "settled"

\* Nothing is outstanding but the current piece, and completion comes last.
CreditInv ==
    /\ outstanding \in Int /\ left \in Nat /\ tail \in Nat /\ piece \in Nat
    /\ at = "feeding" => outstanding = IF credited THEN 0 ELSE piece
    /\ at \in {"arriving", "registering", "receiving", "parsing", "opening",
               "completing"} => outstanding = 0
    /\ outcome # "buffer_overflow"
    /\ at = "completing" \/ outcome = "ok" => left = 0 /\ tail = 0 /\ outstanding = 0

\* No clock passes its limit, and a deadline's code was due.
ClockInv ==
    /\ elapsed \in [DOMAIN Limit -> Nat]
    /\ \A c \in DOMAIN Limit : elapsed[c] <= Limit[c]
    /\ outcome \in DOMAIN Limit => Expired(outcome) \/ foreign

\* What the parse may return.
VerdictInv == verdict \in {"none", "malformed_request", "request_too_large", "accepted"}

HttpInv == TaskInv /\ CreditInv /\ ClockInv /\ VerdictInv

-----------------------------------------------------------------------------
\* A request starts with nothing.
LEMMA HttpInit == Init => HttpInv
<1> SUFFICES ASSUME Init PROVE HttpInv
  OBVIOUS
<1> USE HttpAssumption DEF Init
<1>1. TaskInv /\ CreditInv /\ VerdictInv
  BY DEF TaskInv, CreditInv, VerdictInv, BodyInit, Places, Timed, Leased, Settled
<1>2. ClockInv
  BY DEF ClockInv, Limit
<1> QED BY <1>1, <1>2 DEF HttpInv

\* The parser returns one of four verdicts.
LEMMA VerdictStep == VerdictInv /\ [Next]_vars => VerdictInv'
<1> SUFFICES ASSUME VerdictInv, [Next]_vars PROVE VerdictInv'
  OBVIOUS
<1> USE DEF VerdictInv, body, Malformed, TooLarge, Reject
<1>1. CASE Receive
  BY <1>1 DEF Receive, BadMessage, Message
<1>2. CASE Parse
  <2>1. CASE Callback
    BY <2>1 DEF Callback, BadFraming, PartBegin, BadDisposition, PartEnd, End, Epilogue,
                HeaderBytes, PartData, HeaderEnd, HeadersFinished
  <2>2. CASE Finish
    BY <2>2 DEF Finish
  <2> QED BY <1>2, <2>1, <2>2 DEF Parse
<1>3. CASE ParseFails \/ Validate
  BY <1>3 DEF ParseFails, Validate, Forget
<1> QED
  BY <1>1, <1>2, <1>3
     DEF Next, Start, Own, Engine, Arrive, Refuse, Register, TimesOut, CancelReturns,
         Finally, OpenReturns, Credit, BadCredit, FeedReturns, CompleteReturns,
         ForeignTimeout, Raises, Interrupt, Tick, Respond, vars

\* A deadline that ends a wait was reached.
LEMMA FirstIsDue ==
    ASSUME ClockInv, NEW place, Due(place), NEW c \in First(place)
    PROVE  c \in DOMAIN Limit /\ Expired(c)
<1>1. PICK d \in Bounds(place) : Expired(d)
  BY DEF Due
<1>2. c \in DOMAIN Limit /\ d \in DOMAIN Limit
  BY <1>1 DEF First, Bounds, Limit
<1>3. Limit[c] - elapsed[c] <= Limit[d] - elapsed[d]
  BY <1>1 DEF First
<1>4. Limit[c] \in Nat /\ Limit[d] \in Nat
  BY <1>2, HttpAssumption DEF Limit
<1> QED BY <1>1, <1>2, <1>3, <1>4 DEF ClockInv, Expired

\* The next piece always fits, and is all that is outstanding.
LEMMA HandOverExact ==
    ASSUME CreditInv, outstanding = 0, outcome = "none", HandOver
    PROVE  /\ at' \in {"feeding", "completing"} /\ outcome' = "none"
           /\ outstanding' \in Int /\ left' \in Nat /\ tail' \in Nat /\ piece' \in Nat
           /\ at' = "feeding" => outstanding' = piece' /\ ~credited'
           /\ at' = "completing" => left' = 0 /\ tail' = 0 /\ outstanding' = 0
BY HttpAssumption DEF HandOver, Submit, Piece, Least, samples, handoff, CreditInv

\* Every step keeps the task's order, its credit and its clocks.
LEMMA TaskStep == HttpInv /\ [Next]_vars => TaskInv' /\ CreditInv' /\ ClockInv'
<1> SUFFICES ASSUME HttpInv, [Next]_vars PROVE TaskInv' /\ CreditInv' /\ ClockInv'
  OBVIOUS
<1> USE HttpAssumption
    DEF HttpInv, TaskInv, CreditInv, ClockInv, Places, Timed, Leased, Settled, samples,
        handoff, world, Expired, Limit
<1>1. CASE Arrive
  BY <1>1 DEF Arrive
<1>2. CASE Refuse
  BY <1>2 DEF Refuse, Refusals, Leave, ToClose
<1>3. CASE Register
  BY <1>3 DEF Register, Leave, ToClose
<1>4. CASE Receive
  BY <1>4 DEF Receive
<1>5. CASE Parse
  BY <1>5 DEF Parse
<1>6. CASE ParseFails
  BY <1>6 DEF ParseFails, Failed, Codes, Invalid, Refusals, VerdictInv, Leave, ToClose
<1>7. CASE Validate
  BY <1>7 DEF Validate, Invalidate, Invalid, Leave, ToClose
<1>8. CASE TimesOut
  <2>1. PICK c \in First(at) : Leave(c)
    BY <1>8 DEF TimesOut
  <2>2. c \in DOMAIN Limit /\ Expired(c)
    BY <1>8, <2>1, FirstIsDue DEF TimesOut
  <2> QED BY <1>8, <2>1, <2>2 DEF TimesOut, GivenUp, Leave, ToClose
<1>9. CASE CancelReturns \/ Finally \/ Respond
  BY <1>9 DEF CancelReturns, Finally, Respond
<1>10. CASE OpenReturns
  BY <1>10, HandOverExact DEF OpenReturns
<1>11. CASE Credit
  BY <1>11 DEF Credit, Accepts
<1>12. CASE BadCredit
  BY <1>12 DEF BadCredit, Leave, ToClose
<1>13. CASE FeedReturns
  <2>1. CASE Missed /\ Leave("internal") /\ UNCHANGED <<samples, handoff>>
    BY <1>13, <2>1 DEF FeedReturns, Leave, ToClose
  <2>2. CASE ~Missed /\ HandOver
    BY <1>13, <2>2, HandOverExact DEF FeedReturns, Missed
  <2> QED BY <1>13, <2>1, <2>2 DEF FeedReturns
<1>14. CASE CompleteReturns
  BY <1>14 DEF CompleteReturns, Leave, ToClose
<1>15. CASE Raises
  BY <1>15 DEF Raises, GivenUp, Leave, ToClose
<1>16. CASE ForeignTimeout
  BY <1>16 DEF ForeignTimeout, Leave, ToClose
<1>17. CASE Interrupt
  BY <1>17 DEF Interrupt, GivenUp, Leave, ToClose
<1>18. CASE Tick
  BY <1>18 DEF Tick, Due, Bounds
<1>19. CASE UNCHANGED vars
  BY <1>19 DEF vars, own
<1> QED
  BY <1>1, <1>2, <1>3, <1>4, <1>5, <1>6, <1>7, <1>8, <1>9, <1>10, <1>11, <1>12,
     <1>13, <1>14, <1>15, <1>16, <1>17, <1>18, <1>19
     DEF Next, Start, Own, Engine

\* The invariant is inductive.
LEMMA HttpStep == HttpInv /\ [Next]_vars => HttpInv'
BY TaskStep, VerdictStep DEF HttpInv

\* Whatever happens, the lease owner is closed before the slot and the host's
\* admission are given up, and both before the answer (handle).
THEOREM SettlesBeforeRelease == Spec => []SettledBeforeReleased
<1>1. HttpInv => SettledBeforeReleased
  BY DEF HttpInv, TaskInv, SettledBeforeReleased, Places, Timed, Leased
<1> QED BY HttpInit, HttpStep, <1>1, PTL DEF Spec

\* Whatever credits the engine gives, buffer_overflow is never reported and a
\* transcript is of samples each accepted exactly once (_bounded_feed).
THEOREM CreditStaysExact == Spec => []CreditExact
<1>1. HttpInv => CreditExact
  BY DEF HttpInv, CreditInv, CreditExact, Leased
<1> QED BY HttpInit, HttpStep, <1>1, PTL DEF Spec

\* A timeout is only ever reported for a deadline that passed, or for a
\* TimeoutError that complete() raised (handle, _handle_admitted).
THEOREM TimeoutsAreNotInvented == Spec => []TimeoutsAreTrue
<1>1. HttpInv => TimeoutsAreTrue
  BY DEF HttpInv, ClockInv, TimeoutsAreTrue
<1> QED BY HttpInit, HttpStep, <1>1, PTL DEF Spec

-----------------------------------------------------------------------------
\* Every step of a request is one of the contract's, or none.
LEMMA ContractStep == HttpInv /\ HttpInv' /\ [Next]_vars => [Contract!Next]_(Contract!vars)
<1> SUFFICES ASSUME HttpInv, HttpInv', [Next]_vars PROVE [Contract!Next]_(Contract!vars)
  OBVIOUS
<1> USE DEF HttpInv, TaskInv, Settled, Places, Timed, Leased,
            Contract!Next, Contract!vars, Contract!Admit, Contract!Refuse,
            Contract!Open, Contract!Settle, Contract!Serve, Contract!Release
<1>1. CASE Arrive
  BY <1>1 DEF Arrive
<1>2. CASE Refuse \/ Register
  BY <1>2 DEF Refuse, Refusals, Register, Leave
<1>3. CASE Receive \/ Parse
  BY <1>3 DEF Receive, Parse
<1>4. CASE ParseFails \/ Validate
  BY <1>4 DEF ParseFails, Failed, Codes, Invalid, Refusals, Limit, Validate, Invalidate, Leave
<1>5. CASE TimesOut
  BY <1>5 DEF TimesOut, GivenUp, First, Bounds, Limit, Leave
<1>6. CASE CancelReturns \/ Finally \/ Respond
  BY <1>6 DEF CancelReturns, Finally, Respond
<1>7. CASE OpenReturns
  BY <1>7 DEF OpenReturns
<1>8. CASE Credit \/ BadCredit
  BY <1>8 DEF Credit, BadCredit, Leave
<1>9. CASE FeedReturns
  BY <1>9 DEF FeedReturns
<1>10. CASE CompleteReturns
  BY <1>10 DEF CompleteReturns, Leave
<1>11. CASE Raises \/ ForeignTimeout
  BY <1>11 DEF Raises, ForeignTimeout, GivenUp, Leave
<1>12. CASE Interrupt
  BY <1>12 DEF Interrupt, GivenUp, Leave
<1>13. CASE Tick \/ UNCHANGED vars
  BY <1>13 DEF Tick, vars, own
<1> QED
  BY <1>1, <1>2, <1>3, <1>4, <1>5, <1>6, <1>7, <1>8, <1>9, <1>10, <1>11, <1>12, <1>13
     DEF Next, Start, Own, Engine

\* A request keeps the contract every surface has with the host.
THEOREM ImplementsSessionContract == Spec => SessionContractHolds
<1>1. Init => Contract!Init
  BY DEF Init, Contract!Init
<1> QED BY HttpInit, HttpStep, <1>1, ContractStep, PTL
        DEF Spec, SessionContractHolds, Contract!Spec

-----------------------------------------------------------------------------
\* The parser's counters.
SizesInv ==
    /\ fresh \in Nat /\ envelope \in Nat /\ parts \in Nat /\ headerBytes \in Nat /\ size \in Nat
    /\ name \in Names \cup {"none"}
    /\ where = "data" => name \in Names
    /\ DOMAIN fields \subseteq Names /\ fields \in [DOMAIN fields -> Nat]
    /\ sent \in [Names -> Nat]

\* A part's data starts with nothing kept.
PartInv == where = "headers" => size = 0

\* While nothing was refused: the part that is begun is not a field yet, and
\* every byte that came under a name is kept.
WholeInv ==
    /\ IsFiniteSet(DOMAIN fields) /\ Cardinality(DOMAIN fields) \in Nat
    /\ verdict = "accepted" => where = "end"
    /\ verdict \in {"none", "accepted"} =>
        /\ parts = Cardinality(DOMAIN fields) + IF where \in {"headers", "data"} THEN 1 ELSE 0
        /\ where = "data" => name \notin DOMAIN fields /\ sent[name] = size
        /\ \A n \in DOMAIN fields : fields[n] = sent[n]
        /\ \A n \in Names \ DOMAIN fields : sent[n] = 0 \/ (where = "data" /\ n = name)

ParseInv == SizesInv /\ PartInv /\ LimitsHold /\ WholeInv

\* A body starts empty.
LEMMA ParseInit == Init => ParseInv
BY FS_EmptySet, MultipartAssumption
   DEF Init, BodyInit, ParseInv, SizesInv, PartInv, LimitsHold, WholeInv, Names, DataLimit

\* The parser's locals are dropped in a consistent state.
LEMMA ForgetOK == Forget => ParseInv'
BY FS_EmptySet, MultipartAssumption
   DEF Forget, ParseInv, SizesInv, PartInv, LimitsHold, WholeInv, Names, DataLimit

\* Every callback keeps the counters, the limits and what was sent.
LEMMA CallbackOK == ParseInv /\ verdict = "none" /\ Callback => ParseInv'
<1> SUFFICES ASSUME ParseInv, verdict = "none", Callback PROVE ParseInv'
  OBVIOUS
<1> USE MultipartAssumption
    DEF ParseInv, SizesInv, PartInv, LimitsHold, WholeInv, message, part, Malformed,
        TooLarge, Reject, Eat, Fits
<1>1. CASE BadFraming \/ BadDisposition
  BY <1>1 DEF BadFraming, BadDisposition
<1>2. CASE PartBegin
  BY <1>2 DEF PartBegin, NoData
<1>3. CASE End \/ Epilogue
  BY <1>3 DEF End, Epilogue
<1>4. CASE \E k \in 1..MaxMessage : HeaderBytes(k)
  BY <1>4 DEF HeaderBytes
<1>5. CASE \E h \in Headers : HeaderEnd(h)
  BY <1>5 DEF HeaderEnd
<1>6. CASE \E n \in Names : HeadersFinished(n)
  BY <1>6 DEF HeadersFinished, NewName, Names, DataLimit
<1>7. CASE \E k \in 1..MaxMessage : PartData(k)
  BY <1>7 DEF PartData, Names, DataLimit
<1>8. CASE PartEnd
  <2>1. name \in Names /\ name \notin DOMAIN fields /\ sent[name] = size
    BY <1>8 DEF PartEnd
  <2>2. CASE verdict' = "none"
    <3>1. fields' = [n \in DOMAIN fields \cup {name} |-> IF n = name THEN size ELSE fields[n]]
      BY <1>8, <2>2 DEF PartEnd
    <3>2. DOMAIN fields' = DOMAIN fields \cup {name} /\ fields' \in [DOMAIN fields' -> Nat]
      BY <2>1, <3>1
    <3>3. /\ IsFiniteSet(DOMAIN fields')
          /\ Cardinality(DOMAIN fields') = Cardinality(DOMAIN fields) + 1
      BY <2>1, <3>2, FS_AddElement
    <3>4. SizesInv' /\ PartInv' /\ LimitsHold'
      BY <1>8, <2>1, <2>2, <3>1, <3>2 DEF PartEnd, Names, DataLimit
    <3>5. WholeInv'
      BY <1>8, <2>1, <2>2, <3>1, <3>2, <3>3 DEF PartEnd
    <3> QED BY <3>4, <3>5
  <2>3. CASE verdict' # "none"
    BY <1>8, <2>3 DEF PartEnd
  <2> QED BY <2>2, <2>3
<1> QED BY <1>1, <1>2, <1>3, <1>4, <1>5, <1>6, <1>7, <1>8 DEF Callback

\* Every step does.
LEMMA ParseStep == ParseInv /\ [Next]_vars => ParseInv'
<1> SUFFICES ASSUME ParseInv, [Next]_vars PROVE ParseInv'
  OBVIOUS
<1>1. CASE Receive
  BY <1>1, MultipartAssumption
     DEF Receive, BadMessage, Message, Malformed, TooLarge, Reject, Fits, message, part,
         ParseInv, SizesInv, PartInv, LimitsHold, WholeInv
<1>2. CASE Parse
  <2>1. CASE Finish
    BY <1>2, <2>1 DEF Parse, Finish, Complete, message, part, ParseInv, SizesInv, PartInv,
                      LimitsHold, WholeInv
  <2>2. CASE UNCHANGED body
    BY <2>2 DEF body, message, part, ParseInv, SizesInv, PartInv, LimitsHold, WholeInv
  <2> QED BY <1>2, <2>1, <2>2, CallbackOK DEF Parse
<1>3. CASE ParseFails \/ Validate
  BY <1>3, ForgetOK DEF ParseFails, Validate
<1>4. CASE UNCHANGED body
  BY <1>4 DEF body, message, part, ParseInv, SizesInv, PartInv, LimitsHold, WholeInv
<1> QED
  BY <1>1, <1>2, <1>3, <1>4
     DEF Next, Start, Own, Engine, Arrive, Refuse, Register, TimesOut, CancelReturns,
         Finally, OpenReturns, Credit, BadCredit, FeedReturns, CompleteReturns,
         ForeignTimeout, Raises, Interrupt, Tick, Respond, vars

\* However a body is cut into messages, its limits hold: on the envelope, on
\* the parts, on each part's headers and on each field.
THEOREM LimitsAlwaysHold == Spec => []LimitsHold
<1>1. ParseInv => LimitsHold
  BY DEF ParseInv
<1> QED BY ParseInit, ParseStep, <1>1, PTL DEF Spec

\* However a body is cut, an accepted one has every part that was sent and
\* each field every byte of it (parse_transcription_multipart).
THEOREM NothingIsLost == Spec => []AcceptedAsSent
<1>1. ParseInv => AcceptedAsSent
  BY DEF ParseInv, WholeInv, SizesInv, AcceptedAsSent
<1> QED BY ParseInit, ParseStep, <1>1, PTL DEF Spec

-----------------------------------------------------------------------------
\* The types that the invariants above leave open.
ParserTypes == /\ where \in {"boundary", "headers", "data", "end"}
               /\ declared \in Lengths \cup {Undeclared}
               /\ headers \in Seq(Headers) /\ found \subseteq Seq(Headers)
BodyFlags   == last \in BOOLEAN /\ inHeader \in BOOLEAN
TaskFlags   == credited \in BOOLEAN /\ cancelled \in BOOLEAN /\ foreign \in BOOLEAN
TaskTypes   == /\ holds \subseteq {"host", "slot"}
               /\ outcome \in Codes \cup {"none", "ok", "cancelled"}
               /\ left \in 0..MaxSamples /\ tail \in 0..MaxSamples /\ piece \in 0..PreSubmit

\* A step that is neither the parser's nor the end of the parse keeps the body.
LEMMA BodyKept ==
    ASSUME [Next]_vars, ~Receive, ~(Parse /\ (Callback \/ Finish)), ~ParseFails, ~Validate
    PROVE  UNCHANGED body
<1>1. CASE Parse
  BY <1>1 DEF Parse
<1> QED BY <1>1 DEF Next, Start, Own, Engine, Arrive, Refuse, Register, TimesOut,
                    CancelReturns, Finally, OpenReturns, Credit, BadCredit, FeedReturns,
                    CompleteReturns, ForeignTimeout, Raises, Interrupt, Tick, Respond, vars

\* What a callback does to the parser's place, headers and flags.
LEMMA ParserStep == ParserTypes /\ [Next]_vars => ParserTypes'
<1> SUFFICES ASSUME ParserTypes, [Next]_vars PROVE ParserTypes'
  OBVIOUS
<1> USE DEF ParserTypes, message, part
<1>1. CASE Receive
  BY <1>1 DEF Receive, BadMessage, Message
<1>2. CASE Callback
  <2>1. CASE BadFraming \/ BadDisposition \/ End \/ Epilogue \/ PartEnd
    BY <2>1 DEF BadFraming, BadDisposition, End, Epilogue, PartEnd
  <2>2. CASE PartBegin
    BY <2>2 DEF PartBegin
  <2>3. CASE \E k \in 1..MaxMessage : HeaderBytes(k) \/ PartData(k)
    BY <2>3 DEF HeaderBytes, PartData
  <2>4. ASSUME NEW h \in Headers, HeaderEnd(h) PROVE ParserTypes'
    <3>1. Append(headers, h) \in Seq(Headers)
      OBVIOUS
    <3> QED BY <2>4, <3>1 DEF HeaderEnd
  <2>5. CASE \E n \in Names : HeadersFinished(n)
    BY <2>5 DEF HeadersFinished
  <2> QED BY <1>2, <2>1, <2>2, <2>3, <2>4, <2>5 DEF Callback
<1>3. CASE Finish
  BY <1>3 DEF Finish
<1>4. CASE ParseFails \/ Validate
  <2>1. /\ where' = "end" /\ declared' = Undeclared
        /\ headers' = <<>> /\ found' = {}
    BY <1>4, Zenon DEF ParseFails, Validate, Forget
  <2>2. <<>> \in Seq(Headers)
    OBVIOUS
  <2> QED BY <2>1, <2>2
<1>5. CASE UNCHANGED body
  BY <1>5 DEF body
<1> QED BY <1>1, <1>2, <1>3, <1>4, <1>5, BodyKept

LEMMA BodyFlagStep == BodyFlags /\ [Next]_vars => BodyFlags'
<1> SUFFICES ASSUME BodyFlags, [Next]_vars PROVE BodyFlags'
  OBVIOUS
<1> USE DEF BodyFlags, message, part
<1>1. CASE Receive
  BY <1>1, Zenon DEF Receive, BadMessage, Message
<1>2. CASE Callback
  <2>1. CASE BadFraming
    BY <2>1, Zenon DEF BadFraming
  <2>2. CASE BadDisposition
    BY <2>2, Zenon DEF BadDisposition
  <2>3. CASE End
    BY <2>3, Zenon DEF End, Eat
  <2>4. CASE Epilogue
    BY <2>4, Zenon DEF Epilogue, Eat
  <2>5. CASE PartEnd
    BY <2>5, Zenon DEF PartEnd
  <2>6. CASE PartBegin
    BY <2>6, Zenon DEF PartBegin, Eat
  <2>7. ASSUME NEW k, HeaderBytes(k) PROVE BodyFlags'
    BY <2>7, Zenon DEF HeaderBytes, Eat
  <2>8. ASSUME NEW k, PartData(k) PROVE BodyFlags'
    BY <2>8, Zenon DEF PartData, Eat
  <2>9. ASSUME NEW h, HeaderEnd(h) PROVE BodyFlags'
    BY <2>9, Zenon DEF HeaderEnd
  <2>10. ASSUME NEW n, HeadersFinished(n) PROVE BodyFlags'
    BY <2>10, Zenon DEF HeadersFinished
  <2> QED BY <1>2, <2>1, <2>2, <2>3, <2>4, <2>5, <2>6, <2>7, <2>8, <2>9, <2>10, Zenon
          DEF Callback
<1>3. CASE Finish
  BY <1>3, Zenon DEF Finish
<1>4. CASE ParseFails
  BY <1>4, Zenon DEF ParseFails, Forget
<1>5. CASE Validate
  BY <1>5, Zenon DEF Validate, Forget
<1>6. CASE UNCHANGED body
  BY <1>6, Zenon DEF body
<1> QED BY <1>1, <1>2, <1>3, <1>4, <1>5, <1>6, BodyKept

LEMMA TaskFlagStep == TaskFlags /\ [Next]_vars => TaskFlags'
<1> SUFFICES ASSUME TaskFlags, [Next]_vars PROVE TaskFlags'
  OBVIOUS
<1> USE DEF TaskFlags, handoff, world, samples
<1>1. ASSUME UNCHANGED handoff, UNCHANGED <<cancelled, foreign>> PROVE TaskFlags'
  BY <1>1, Zenon
<1>2. CASE Credit
  BY <1>2, Zenon DEF Credit
<1>3. HandOver => UNCHANGED handoff \/ credited' = FALSE
  BY Zenon DEF HandOver, Submit
<1>4. CASE OpenReturns
  BY <1>3, <1>4, Zenon DEF OpenReturns
<1>5. CASE FeedReturns
  BY <1>3, <1>5, Zenon DEF FeedReturns
<1>6. CASE ForeignTimeout
  BY <1>6, Zenon DEF ForeignTimeout
<1>7. CASE Interrupt
  BY <1>7, Zenon DEF Interrupt
<1>8. ASSUME ~Credit, ~OpenReturns, ~FeedReturns, ~ForeignTimeout, ~Interrupt
      PROVE  UNCHANGED handoff /\ UNCHANGED <<cancelled, foreign>>
  BY <1>8 DEF Next, Start, Own, Engine, Arrive, Refuse, Register, Receive, TimesOut,
              CancelReturns, Finally, Parse, ParseFails, Validate, BadCredit,
              CompleteReturns, Raises, Tick, Respond, vars, own
<1> QED BY <1>1, <1>2, <1>4, <1>5, <1>6, <1>7, <1>8

\* What a step does to the rest of the task.
LEMMA TaskTypeStep == HttpInv /\ TaskTypes /\ [Next]_vars => TaskTypes'
<1> SUFFICES ASSUME HttpInv, TaskTypes, [Next]_vars PROVE TaskTypes'
  OBVIOUS
<1> USE HttpAssumption DEF TaskTypes, samples, handoff, world
<1>1. CASE Arrive
  BY <1>1 DEF Arrive, Codes, Refusals
<1>2. CASE Refuse \/ Register
  BY <1>2 DEF Refuse, Register, Leave, Codes, Invalid
<1>3. CASE Receive \/ Parse
  BY <1>3 DEF Receive, Parse
<1>4. CASE ParseFails
  BY <1>4 DEF ParseFails, Failed, Leave
<1>5. CASE Validate
  BY <1>5 DEF Validate, Leave
<1>6. CASE TimesOut
  BY <1>6 DEF TimesOut, First, Bounds, Limit, Leave, Codes
<1>7. CASE CancelReturns \/ Finally \/ Respond
  BY <1>7 DEF CancelReturns, Finally, Respond
<1>8. ASSUME HandOver, UNCHANGED holds PROVE TaskTypes'
  <2>1. left' \in 0..MaxSamples /\ tail' \in 0..MaxSamples
    BY <1>8 DEF HandOver, Piece, Least
  <2>2. piece' \in 0..PreSubmit
    BY <1>8 DEF HandOver, Submit, Piece, Least
  <2>3. outcome' \in Codes \cup {"none", "ok", "cancelled"}
    BY <1>8 DEF HandOver, Submit, Leave, Codes
  <2> QED BY <1>8, <2>1, <2>2, <2>3
<1>9. CASE OpenReturns
  BY <1>8, <1>9 DEF OpenReturns
<1>10. CASE FeedReturns
  <2>1. CASE Leave("internal") /\ UNCHANGED <<samples, handoff>>
    BY <1>10, <2>1 DEF FeedReturns, Leave, Codes
  <2> QED BY <1>8, <1>10, <2>1 DEF FeedReturns
<1>11. CASE Credit \/ BadCredit \/ CompleteReturns
  BY <1>11 DEF Credit, BadCredit, CompleteReturns, Leave, Codes
<1>12. CASE Raises \/ ForeignTimeout \/ Interrupt
  BY <1>12 DEF Raises, ForeignTimeout, Interrupt, Leave, Codes, Limit
<1>13. CASE Tick \/ UNCHANGED vars
  BY <1>13 DEF Tick, vars, own
<1> QED BY <1>1, <1>2, <1>3, <1>4, <1>5, <1>6, <1>7, <1>9, <1>10, <1>11, <1>12, <1>13
        DEF Next, Start, Own, Engine

\* The invariants and types together, which the state's type follows from.
HttpTyped == HttpInv /\ ParseInv /\ ParserTypes /\ BodyFlags /\ TaskFlags /\ TaskTypes

\* Every variable of a request keeps its type: the counters of its parse and
\* the bounds on what is handed over among them.
THEOREM HttpTypes == Spec => []TypeOK
<1>1. Init => HttpTyped
  <2> SUFFICES ASSUME Init PROVE HttpTyped
    OBVIOUS
  <2>1. ParserTypes /\ TaskTypes
    BY HttpAssumption DEF Init, BodyInit, ParserTypes, TaskTypes
  <2>2. BodyFlags /\ TaskFlags
    BY Zenon DEF Init, BodyInit, BodyFlags, TaskFlags
  <2> QED BY <2>1, <2>2, HttpInit, ParseInit DEF HttpTyped
<1>2. HttpTyped /\ [Next]_vars => HttpTyped'
  BY HttpStep, ParseStep, ParserStep, BodyFlagStep, TaskFlagStep, TaskTypeStep DEF HttpTyped
<1>3. HttpTyped => TypeOK
  <2> SUFFICES ASSUME HttpTyped PROVE TypeOK
    OBVIOUS
  <2>1. BodyOK
    <3>1. {last, inHeader} \subseteq BOOLEAN
      BY Zenon DEF HttpTyped, BodyFlags
    <3>2. {fresh, envelope, parts, headerBytes, size} \subseteq Nat
      BY DEF HttpTyped, ParseInv, SizesInv
    <3>3. /\ name \in Names \cup {"none"} /\ sent \in [Names -> Nat]
          /\ DOMAIN fields \subseteq Names /\ \A n \in DOMAIN fields : fields[n] \in Nat
      BY DEF HttpTyped, ParseInv, SizesInv
    <3>4. verdict \in {"none", "malformed_request", "request_too_large", "accepted"}
      BY DEF HttpTyped, HttpInv, VerdictInv
    <3> QED BY <3>1, <3>2, <3>3, <3>4, Zenon DEF HttpTyped, ParserTypes, BodyOK
  <2>2. {credited, cancelled, foreign} \subseteq BOOLEAN
    BY Zenon DEF HttpTyped, TaskFlags
  <2>3. \A c \in DOMAIN Limit : elapsed[c] \in 0..Limit[c]
    BY HttpAssumption DEF HttpTyped, HttpInv, ClockInv, Limit
  <2>4. {left, tail} \subseteq 0..MaxSamples /\ piece \in 0..PreSubmit
    BY DEF HttpTyped, TaskTypes
  <2>5. /\ at \in Places /\ owner \in {"none", "new", "live", "settled"}
        /\ outstanding \in Int
    BY DEF HttpTyped, HttpInv, TaskInv, CreditInv
  <2> QED BY <2>1, <2>2, <2>3, <2>4, <2>5, Zenon DEF HttpTyped, TaskTypes, TypeOK
<1> QED BY <1>1, <1>2, <1>3, PTL DEF Spec
=============================================================================

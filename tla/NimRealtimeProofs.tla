------------------------- MODULE NimRealtimeProofs -------------------------
(* What a WebSocket session promises, for every set of locales, every limit *)
(* and every audio: the lease owner is closed before the registrations that *)
(* cover it are released, and the frames end, name locales and deadlines,   *)
(* and complete a transcript as they should.  The queue of frames takes one *)
(* of a few shapes (QueueInv), which carries the rest.                      *)
EXTENDS NimRealtime, SequenceTheorems, TLAPS

\* Where the task may stand, by what would handle an exception there.
ContextInv ==
    /\ ctx \in {"outside", "body", "handler"}
    /\ ctx = "outside" =>
         /\ owner = "none"
         /\ at \in {"arriving", "registering", "sending", "finally", "ended"}
         /\ at = "sending" => next \in {"registering", "top", "finally"}
    /\ ctx = "handler" => at \in {"aborting", "sending", "finally", "ended"}
    /\ ctx = "body" => at \notin {"arriving", "registering"}
    /\ at = "sending" /\ next = "registering" => ctx = "outside"

\* A live owner is where its session will still close it.
LiveInv ==
    /\ at = "aborting" \/ (at = "sending" /\ ctx = "handler") => next = "finally"
    /\ at \in {"finally", "ended"} => owner # "live"
    /\ at = "aborting" => owner = "live"
    /\ at = "sending" /\ next = "finally" => owner # "live"

\* What is still held while the task goes on.
HeldInv ==
    /\ owner = "live" => holds # {}
    /\ at \in Waits \cup {"registering", "top"} => holds # {}
    /\ at = "sending" /\ next # "finally" => holds # {}
    /\ at = "ended" => holds = {}
    /\ at = "sending" => next \in {"registering", "top", "updating", "feeding",
                                  "completing", "finally"}

SettlementInv == ContextInv /\ LiveInv /\ HeldInv

-----------------------------------------------------------------------------
\* A session starts outside the try, holding host admission only.
LEMMA SettlementInit == Init => SettlementInv
BY DEF Init, SettlementInv, ContextInv, LiveInv, HeldInv, Waits

\* Every step keeps the settlement order.
LEMMA SettlementStep == SettlementInv /\ [Next]_vars => SettlementInv'
<1> SUFFICES ASSUME SettlementInv, [Next]_vars PROVE SettlementInv'
  OBVIOUS
<1> USE DEF SettlementInv, ContextInv, LiveInv, HeldInv, Waits
<1>0. CASE Arrive
  BY <1>0 DEF Arrive, Send
<1>1. CASE Register
  BY <1>1 DEF Register, Send
<1>2. CASE Deliver
  BY <1>2 DEF Deliver, Send
<1>3. CASE SendFails
  BY <1>3 DEF SendFails, Send, Abort, Raise, Owned
<1>4. CASE AbortReturns
  BY <1>4 DEF AbortReturns, Send
<1>5. CASE Finally
  BY <1>5 DEF Finally
<1>6. CASE Top
  BY <1>6 DEF Top, Send, Abort, Owned
<1>7. CASE ReceiveTimesOut
  BY <1>7 DEF ReceiveTimesOut, Send, Abort, Owned
<1>8. CASE Disconnect
  BY <1>8 DEF Disconnect, Send, Abort, Owned
<1>9. CASE BadEvent
  BY <1>9 DEF BadEvent, Send, Abort, Owned
<1>10. CASE Refuse
  BY <1>10 DEF Refuse, Send, Reject
<1>11. CASE Configure
  BY <1>11 DEF Configure, Send
<1>12. CASE Reconfigure
  BY <1>12 DEF Reconfigure, Send
<1>13. CASE AppendAudio
  BY <1>13 DEF AppendAudio, Push
<1>14. CASE HeaderResolves
  BY <1>14 DEF HeaderResolves, Push
<1>15. CASE HeaderIncomplete
  BY <1>15 DEF HeaderIncomplete
<1>16. CASE HeaderRefused
  BY <1>16 DEF HeaderRefused, Send, Abort, Owned
<1>17. CASE Commit
  BY <1>17 DEF Commit, Send
<1>18. CASE Clear
  BY <1>18 DEF Clear, Send
<1>19. CASE Done
  BY <1>19 DEF Done, Send, Abort, Owned
<1>20. CASE OpenReturns
  BY <1>20 DEF OpenReturns, Send
<1>21. CASE OpenFails
  BY <1>21 DEF OpenFails, Send, Settled
<1>22. CASE LocaleUpdated
  BY <1>22 DEF LocaleUpdated, Send
<1>23. CASE LocaleFails
  BY <1>23 DEF LocaleFails, Send, Abort, Raise, Owned
<1>24. CASE Credit
  BY <1>24 DEF Credit
<1>25. CASE FeedReturns
  BY <1>25 DEF FeedReturns, Send, FedNext
<1>26. CASE FeedFails
  BY <1>26 DEF FeedFails, Send, Abort, Owned
<1>27. CASE CompleteReturns
  BY <1>27 DEF CompleteReturns, Send, Terminal
<1>28. CASE CompleteFails
  BY <1>28 DEF CompleteFails, Send, Settled
<1>29. CASE Interrupt
  BY <1>29 DEF Interrupt, Send, Abort, Settled, Owned
<1>30. CASE Tick
  BY <1>30 DEF Tick
<1>31. CASE UNCHANGED vars
  BY <1>31 DEF vars
<1> QED
  BY <1>0, <1>1, <1>2, <1>3, <1>4, <1>5, <1>6, <1>7, <1>8, <1>9, <1>10, <1>11,
     <1>12, <1>13, <1>14, <1>15, <1>16, <1>17, <1>18, <1>19, <1>20, <1>21, <1>22,
     <1>23, <1>24, <1>25, <1>26, <1>27, <1>28, <1>29, <1>30, <1>31
     DEF Next, Start, Own, Client, Engine

\* The settlement order follows from the invariant.
LEMMA InvSettles == SettlementInv => SettledBeforeReleased
BY DEF SettlementInv, ContextInv, LiveInv, HeldInv, Waits, SettledBeforeReleased

\* Whatever fails, is interrupted or is lost, the lease owner is closed
\* before the slot and host admission are given up (nim_ws.py:1163-1179).
THEOREM SettlesBeforeRelease == Spec => []SettledBeforeReleased
BY SettlementInit, SettlementStep, InvSettles, PTL DEF Spec

\* The contract with the host: which owner stands behind each await.
StageInv ==
    /\ owner = "live" => configured
    /\ at \in {"updating", "feeding", "tail", "completing"} => owner = "live"
    /\ at = "sending" /\ next \in {"updating", "feeding", "completing"} => owner = "live"
    /\ at \in {"receiving", "top"} \/ (at = "sending" /\ next = "top")
          => owner = IF configured THEN "live" ELSE "none"
    /\ at = "opening" => owner = "new" /\ ~configured
    /\ at \in {"arriving", "registering"} \/ (at = "sending" /\ next = "registering")
          => owner = "none" /\ ~configured
    /\ at = "arriving" => holds = {}

HostInv == SettlementInv /\ StageInv

\* Every step keeps the owner its await needs.
LEMMA StageStep == HostInv /\ [Next]_vars => StageInv'
<1> SUFFICES ASSUME HostInv, [Next]_vars PROVE StageInv'
  OBVIOUS
<1> USE DEF HostInv, SettlementInv, ContextInv, LiveInv, HeldInv, StageInv, Waits
<1>1. CASE Start
  BY <1>1 DEF Start, Arrive, Register, Send
<1>2. CASE Deliver
  BY <1>2 DEF Deliver, Send
<1>3. CASE SendFails
  BY <1>3 DEF SendFails, Send, Abort, Raise, Owned
<1>4. CASE AbortReturns \/ Finally
  BY <1>4 DEF AbortReturns, Finally, Send
<1>5. CASE Top \/ ReceiveTimesOut \/ Disconnect \/ BadEvent \/ HeaderRefused \/ Done
  BY <1>5 DEF Top, ReceiveTimesOut, Disconnect, BadEvent, HeaderRefused, Done, Send,
     Abort, Owned
<1>6. CASE Refuse \/ Configure \/ Reconfigure \/ Commit \/ Clear
  BY <1>6 DEF Refuse, Reject, Configure, Reconfigure, Commit, Clear, Send
<1>7. CASE AppendAudio \/ HeaderResolves \/ HeaderIncomplete
  BY <1>7 DEF AppendAudio, HeaderResolves, HeaderIncomplete, Push
<1>8. CASE OpenReturns \/ LocaleUpdated \/ CompleteReturns
  BY <1>8 DEF OpenReturns, LocaleUpdated, CompleteReturns, Terminal, Send
<1>9. CASE OpenFails \/ CompleteFails
  BY <1>9 DEF OpenFails, CompleteFails, Settled, Send
<1>10. CASE LocaleFails \/ FeedFails
  BY <1>10 DEF LocaleFails, FeedFails, Raise, Abort, Owned, Send
<1>11. CASE Credit \/ FeedReturns
  BY <1>11 DEF Credit, FeedReturns, FedNext, Send
<1>12. CASE Interrupt
  BY <1>12 DEF Interrupt, Send, Abort, Settled, Owned
<1>13. CASE Tick \/ UNCHANGED vars
  BY <1>13 DEF Tick, vars
<1> QED
  BY <1>1, <1>2, <1>3, <1>4, <1>5, <1>6, <1>7, <1>8, <1>9, <1>10, <1>11, <1>12, <1>13
     DEF Next, Own, Client, Engine

\* Every step of a session is one of the contract's, or none.
LEMMA ContractStep == HostInv /\ [Next]_vars => [Contract!Next]_(Contract!vars)
<1> SUFFICES ASSUME HostInv, [Next]_vars PROVE [Contract!Next]_(Contract!vars)
  OBVIOUS
<1> USE DEF HostInv, SettlementInv, ContextInv, LiveInv, HeldInv, StageInv, Waits,
            Contract!Next, Contract!vars, Contract!Admit, Contract!Refuse, Contract!Open,
            Contract!Settle, Contract!Serve, Contract!Release
<1>1. CASE Start
  BY <1>1 DEF Start, Arrive, Register, Send
<1>2. CASE Deliver
  BY <1>2 DEF Deliver, Send
<1>3. CASE SendFails
  BY <1>3 DEF SendFails, Send, Abort, Raise, Owned
<1>4. CASE AbortReturns
  BY <1>4 DEF AbortReturns, Send
<1>14. CASE Finally
  BY <1>14 DEF Finally
<1>5. CASE Top \/ ReceiveTimesOut \/ Disconnect \/ BadEvent \/ HeaderRefused \/ Done
  BY <1>5 DEF Top, ReceiveTimesOut, Disconnect, BadEvent, HeaderRefused, Done, Send,
     Abort, Owned
<1>6. CASE Refuse \/ Reconfigure \/ Commit \/ Clear
  BY <1>6 DEF Refuse, Reject, Reconfigure, Commit, Clear, Send
<1>15. CASE Configure
  BY <1>15 DEF Configure, Send
<1>7. CASE AppendAudio \/ HeaderResolves \/ HeaderIncomplete
  BY <1>7 DEF AppendAudio, HeaderResolves, HeaderIncomplete, Push
<1>8. CASE OpenReturns \/ LocaleUpdated \/ CompleteReturns
  BY <1>8 DEF OpenReturns, LocaleUpdated, CompleteReturns, Terminal, Send
<1>9. CASE OpenFails \/ CompleteFails
  BY <1>9 DEF OpenFails, CompleteFails, Settled, Send
<1>10. CASE LocaleFails \/ FeedFails
  BY <1>10 DEF LocaleFails, FeedFails, Raise, Abort, Owned, Send
<1>11. CASE Credit \/ FeedReturns
  BY <1>11 DEF Credit, FeedReturns, FedNext, Send
<1>12. CASE Interrupt
  BY <1>12 DEF Interrupt, Send, Abort, Settled, Owned
<1>13. CASE Tick \/ UNCHANGED vars
  BY <1>13 DEF Tick, vars
<1> QED
  BY <1>1, <1>2, <1>3, <1>4, <1>5, <1>6, <1>7, <1>8, <1>9, <1>10, <1>11, <1>12, <1>13,
     <1>14, <1>15
     DEF Next, Own, Client, Engine

\* A WebSocket session, from its dispatch to its end, keeps the contract every
\* surface has with the host (nim_ws.py: middleware, run, _abort,
\* _release_registration).
THEOREM ImplementsSessionContract == Spec => SessionContractHolds
<1>1. Init => Contract!Init
  BY DEF Init, Contract!Init
<1>2. Init => HostInv
  BY SettlementInit DEF Init, HostInv, StageInv
<1>3. HostInv /\ [Next]_vars => HostInv'
  BY SettlementStep, StageStep DEF HostInv
<1> QED BY <1>1, <1>2, <1>3, ContractStep, PTL DEF Spec, SessionContractHolds, Contract!Spec

-----------------------------------------------------------------------------
\* The deadlines that were reached, and the codes they have.
Timeouts == {"configuration_timeout", "idle_timeout", "request_timeout", "finalization_timeout"}
Reached  == {c \in Timeouts : Expired(c)}

Plain(f) == /\ f[1] \in Frames \ {"close", "completed"}
            /\ ~(f[1] = "error" /\ f[2] \in Timeouts)
Truthful(f)  == f[1] = "error" /\ f[2] \in Timeouts => f[2] \in Reached \/ foreign
Rejected == Err("config_change_rejected")

\* What a session that goes on may still have to send: an answer, or the
\* rejection of a field in front of it.
Answer == \E f : Plain(f) /\ out \in {<<f>>, <<Rejected, f>>}

\* What a session that ends sends last.
Farewell == /\ next = "finally"
            /\ \E c : \/ out = <<Shut(c)>>
                      \/ \E code : out = <<Err(code), Shut(c)>> /\ Truthful(Err(code))
Completion == /\ next = "finally" /\ owner = "completed" /\ ~Truncated
              /\ out \in {<<<<"completed">>, Shut(1000)>>,
                          <<<<"delta">>, <<"completed">>, Shut(1000)>>}

QueueInv == /\ at \notin {"sending", "aborting"} => out = <<>>
            /\ at = "sending" => out # <<>>
            /\ out = <<>> \/ Answer \/ Farewell \/ Completion

\* A close, a completion and the name of a deadline belong to a session that
\* ends, and what follows a close or a completion is fixed.
Over == at \in {"finally", "ended"} \/ (at = "sending" /\ next = "finally")

WireInv ==
    /\ wire[1] \in Frames
    /\ wire[1] \in {"close", "completed"} => Over
    /\ wire[1] = "error" /\ wire[2] \in Timeouts => Over
    /\ Truthful(wire)
    /\ wire[1] = "completed" => owner = "completed" /\ ~Truncated
    /\ ~lost => /\ wire[1] = "close" => out = <<>>
                /\ wire[1] = "completed" => out \in {<<>>, <<Shut(1000)>>}

\* Behind done, no byte of the file is missing.
WholeInv == at \in {"tail", "completing"} \/ (at = "sending" /\ next = "completing")
               => ~Truncated

\* The locale of a live lease is the session's, and the client knows it or is
\* about to.
LocaleInv ==
    /\ {target, locale, applied, acked} \subseteq Locales
    /\ \A f : out \in {<<f>>, <<Rejected, f>>} /\ f[1] = "updated" =>
                /\ f[2] \in Locales
                /\ owner = "live" => f[2] = applied
    /\ owner = "live" =>
        /\ locale = applied
        /\ \/ acked = applied \/ at = "aborting"
           \/ at = "sending" /\ out \in {<<<<"updated", applied>>>>,
                                        <<Rejected, <<"updated", applied>>>>}

ProtocolInv == /\ SettlementInv /\ QueueInv /\ WireInv /\ WholeInv /\ LocaleInv
               /\ maximum \in {0, MaxLimit}

\* Short sequences.
LEMMA Tuples ==
    ASSUME NEW f, NEW g, NEW h
    PROVE  /\ <<f>> # <<>> /\ <<f, g>> # <<>> /\ <<f, g, h>> # <<>>
           /\ Head(<<f>>) = f /\ Head(<<f, g>>) = f /\ Head(<<f, g, h>>) = f
           /\ Tail(<<f>>) = <<>> /\ Tail(<<f, g>>) = <<g>> /\ Tail(<<f, g, h>>) = <<g, h>>
<1>1. <<f>> # <<>> /\ <<f, g>> # <<>> /\ <<f, g, h>> # <<>>
  OBVIOUS
<1>2. Head(<<f>>) = f /\ Head(<<f, g>>) = f /\ Head(<<f, g, h>>) = f
  OBVIOUS
<1>3. Tail(<<f>>) = <<>>
  OBVIOUS
<1>4. Tail(<<f, g>>) = <<g>>
  OBVIOUS
<1>5. Tail(<<f, g, h>>) = <<g, h>>
  OBVIOUS
<1> QED BY <1>1, <1>2, <1>3, <1>4, <1>5

LEMMA Joined ==
    ASSUME NEW f, NEW g, NEW h
    PROVE  /\ <<>> \o <<f>> = <<f>> /\ <<f>> \o <<g>> = <<f, g>>
           /\ <<>> \o <<f, g>> = <<f, g>> /\ <<f>> \o <<g, h>> = <<f, g, h>>
<1> DEFINE S == {f, g, h}
<1>1. <<>> \o <<f>> = <<f>> /\ <<>> \o <<f, g>> = <<f, g>>
  OBVIOUS
<1>2. <<f>> \o <<g>> = <<f, g>>
  <2>1. <<f>> \in Seq(S) /\ <<g>> \in Seq(S) /\ <<f, g>> \in Seq(S)
    OBVIOUS
  <2>2. <<f>> \o <<g>> \in Seq(S) /\ Len(<<f>> \o <<g>>) = 2
    BY <2>1, ConcatProperties
  <2>3. \A i \in 1..2 : (<<f>> \o <<g>>)[i] = <<f, g>>[i]
    BY <2>1, ConcatProperties
  <2> QED BY <2>1, <2>2, <2>3, SeqEqual
<1>3. <<f>> \o <<g, h>> = <<f, g, h>>
  <2>1. <<f>> \in Seq(S) /\ <<g, h>> \in Seq(S) /\ <<f, g, h>> \in Seq(S)
    OBVIOUS
  <2>2. <<f>> \o <<g, h>> \in Seq(S) /\ Len(<<f>> \o <<g, h>>) = 3
    BY <2>1, ConcatProperties
  <2>3. \A i \in 1..3 : (<<f>> \o <<g, h>>)[i] = <<f, g, h>>[i]
    BY <2>1, ConcatProperties
  <2> QED BY <2>1, <2>2, <2>3, SeqEqual
<1> QED BY <1>1, <1>2, <1>3

\* A deadline the code blames was reached.
LEMMA BlameReached ==
    /\ Overdue \subseteq Reached
    /\ Overdue # {} => \A first : Blame(first) \in Overdue
    /\ \A c \in Timeouts : Expired(c) => c \in Reached
    /\ UNCHANGED clock => Reached' = Reached
<1>1. Overdue \subseteq Reached
  BY DEF Overdue, Reached, Timeouts
<1>2. Overdue # {} => \A first : Blame(first) \in Overdue
  BY DEF Blame
<1>3. UNCHANGED clock => Reached' = Reached
  BY DEF Reached, Expired, Limit, clock
<1> QED BY <1>1, <1>2, <1>3 DEF Reached

\* Nothing was sent yet.
LEMMA ProtocolInit == Init => ProtocolInv
<1> SUFFICES ASSUME Init PROVE ProtocolInv
  OBVIOUS
<1>1. SettlementInv
  BY SettlementInit
<1>2. QueueInv /\ WholeInv /\ LocaleInv
  BY DEF Init, QueueInv, WholeInv, LocaleInv
<1>3. wire[1] = "none"
  BY DEF Init
<1>4. WireInv
  BY <1>3 DEF WireInv, Truthful, Frames
<1> QED BY <1>1, <1>2, <1>4 DEF Init, ProtocolInv
\* A deadline that was reached stays reached while time passes.
LEMMA TickReaches == maximum \in {0, MaxLimit} /\ Tick => Reached \subseteq Reached'
<1> SUFFICES ASSUME maximum \in {0, MaxLimit}, Tick, NEW c \in Timeouts, Expired(c)
             PROVE  Expired(c)'
  BY DEF Reached
<1>1. maximum' = maximum /\ DOMAIN Limit = Timeouts /\ Limit[c] \in Nat
  BY RealtimeAssumption DEF Tick, Limit, Timeouts
<1>2. elapsed'[c] = elapsed[c]
  BY <1>1 DEF Tick, Expired
<1> QED BY <1>1, <1>2 DEF Expired, Limit

\* max_session_duration does not change under a session.
LEMMA MaximumFixed == [Next]_vars => maximum' = maximum
<1>1. UNCHANGED clock => maximum' = maximum
  BY DEF clock
<1>0. Start => maximum' = maximum
  BY <1>1 DEF Start, Arrive, Register
<1>2. Own => maximum' = maximum
  BY <1>1 DEF Own, Deliver, SendFails, AbortReturns, Finally, Top, ReceiveTimesOut,
     OpenFails, LocaleFails, FeedFails, CompleteFails
<1>3. Client => maximum' = maximum
  BY <1>1 DEF Client, Disconnect, BadEvent, Refuse, Configure, Reconfigure,
     AppendAudio, HeaderResolves, HeaderIncomplete, HeaderRefused, Commit, Clear, Done
<1>4. Engine => maximum' = maximum
  BY <1>1 DEF Engine, OpenReturns, OpenFails, LocaleUpdated, LocaleFails, Credit,
     FeedReturns, FeedFails, CompleteReturns, CompleteFails
<1>5. Interrupt \/ Tick \/ UNCHANGED vars => maximum' = maximum
  BY <1>1 DEF Interrupt, Tick, vars
<1> QED BY <1>0, <1>2, <1>3, <1>4, <1>5 DEF Next

\* A delivered frame is the first of the queue, and the queue keeps its shape.
LEMMA DeliverStep ==
    ASSUME ProtocolInv, Deliver
    PROVE  QueueInv' /\ WireInv' /\ WholeInv' /\ LocaleInv'
<1>1. /\ at = "sending" /\ ~lost /\ wire' = Head(out) /\ out # <<>>
      /\ acked' = IF Head(out)[1] = "updated" THEN Head(out)[2] ELSE acked
      /\ at' = IF Tail(out) = <<>> THEN next ELSE "sending"
      /\ out' = Tail(out) /\ next' = next
      /\ UNCHANGED <<owner, remaining, target, locale, applied, clock, lost, foreign>>
  BY DEF Deliver, Send, audio, ProtocolInv, QueueInv
<1>2. Truncated' = Truncated /\ Reached' = Reached
  BY <1>1, BlameReached DEF Truncated
<1> DEFINE Kept == QueueInv' /\ WireInv' /\ WholeInv' /\ LocaleInv'
<1>3. ASSUME Answer PROVE Kept
  <2>1. PICK f : Plain(f) /\ out \in {<<f>>, <<Rejected, f>>}
    BY <1>3 DEF Answer
  <2>2. CASE out = <<f>>
    BY <1>1, <1>2, <2>1, <2>2, Tuples DEF ProtocolInv, SettlementInv, HeldInv, LiveInv, Waits,
       QueueInv, WireInv, WholeInv, LocaleInv, Over, Plain, Frames, Truthful, Rejected, Err
  <2>3. CASE out = <<Rejected, f>>
    BY <1>1, <1>2, <2>1, <2>3, Tuples DEF ProtocolInv, SettlementInv, HeldInv, LiveInv, Waits,
       QueueInv, WireInv, WholeInv, LocaleInv, Over, Answer, Plain, Frames,
       Truthful, Rejected, Err, Timeouts
  <2> QED BY <2>1, <2>2, <2>3
<1>4. ASSUME Farewell PROVE Kept
  <2>1. PICK c : \/ out = <<Shut(c)>>
                 \/ \E code : out = <<Err(code), Shut(c)>> /\ Truthful(Err(code))
    BY <1>4 DEF Farewell
  <2>2. CASE out = <<Shut(c)>>
    BY <1>1, <1>2, <1>4, <2>2, Tuples DEF ProtocolInv, SettlementInv, HeldInv, LiveInv,
       QueueInv, WireInv, WholeInv, LocaleInv, Over, Farewell, Truthful, Shut, Frames
  <2>3. ASSUME NEW code, out = <<Err(code), Shut(c)>>, Truthful(Err(code)) PROVE Kept
    BY <1>1, <1>2, <1>4, <2>3, Tuples DEF ProtocolInv, SettlementInv, HeldInv, LiveInv,
       QueueInv, WireInv, WholeInv, LocaleInv, Over, Farewell, Truthful, Shut,
       Err, Rejected, Frames
  <2> QED BY <2>1, <2>2, <2>3
<1>5. ASSUME Completion PROVE Kept
  <2>1. CASE out = <<<<"completed">>, Shut(1000)>>
    BY <1>1, <1>2, <1>5, <2>1, Tuples DEF ProtocolInv, SettlementInv, HeldInv, LiveInv,
       QueueInv, WireInv, WholeInv, LocaleInv, Over, Farewell, Completion,
       Truthful, Shut, Frames
  <2>2. CASE out = <<<<"delta">>, <<"completed">>, Shut(1000)>>
    BY <1>1, <1>2, <1>5, <2>2, Tuples DEF ProtocolInv, SettlementInv, HeldInv, LiveInv,
       QueueInv, WireInv, WholeInv, LocaleInv, Over, Completion, Truthful, Shut, Frames
  <2> QED BY <1>5, <2>1, <2>2 DEF Completion
<1> QED BY <1>1, <1>3, <1>4, <1>5 DEF ProtocolInv, QueueInv

\* A later configuration is answered with the locale in force, or applied.
LEMMA ReconfigureStep ==
    ASSUME ProtocolInv, Reconfigure
    PROVE  QueueInv' /\ WireInv' /\ WholeInv' /\ LocaleInv'
<1>1. /\ at = "receiving"
      /\ UNCHANGED <<owner, remaining, applied, locale, acked, clock, wire, lost, foreign>>
      /\ target' = target \/ target' \in Locales
  BY DEF Reconfigure, audio, world
<1>2. PICK errors \in {<<>>, <<Rejected>>} :
         \/ Send(errors \o <<Err("unknown_locale")>>, "top")
         \/ Send(errors \o <<<<"updated", locale>>>>, "top")
         \/ Send(errors, "updating")
  BY DEF Reconfigure, Rejected
<1>3. Truncated' = Truncated /\ Reached' = Reached
  BY <1>1, BlameReached DEF Truncated
<1> DEFINE Kept == QueueInv' /\ WireInv' /\ WholeInv' /\ LocaleInv'
<1>4. ASSUME NEW f, Plain(f), out' \in {<<f>>, <<Rejected, f>>},
             f[1] = "updated" => f[2] = locale,
             at' = "sending", next' \in {"top", "updating"}
      PROVE  Kept
  <2>1. QueueInv' /\ WholeInv'
    BY <1>4, Tuples DEF QueueInv, WholeInv, Answer
  <2>2. WireInv'
    BY <1>1, <1>3, <1>4 DEF ProtocolInv, WireInv, Over, Truthful
  <2>3. LocaleInv'
    BY <1>1, <1>4, Tuples DEF ProtocolInv, QueueInv, LocaleInv, Rejected, Err
  <2> QED BY <2>1, <2>2, <2>3
<1>5. CASE Send(errors \o <<Err("unknown_locale")>>, "top")
  <2>1. out' \in {<<Err("unknown_locale")>>, <<Rejected, Err("unknown_locale")>>}
    BY <1>2, <1>5, Joined DEF Send
  <2>2. at' = "sending" /\ next' = "top"
    BY <1>5, <2>1, Tuples DEF Send
  <2>3. Plain(Err("unknown_locale")) /\ Err("unknown_locale")[1] # "updated"
    BY DEF Plain, Frames, Err, Timeouts
  <2> QED BY <1>4, <2>1, <2>2, <2>3
<1>6. CASE Send(errors \o <<<<"updated", locale>>>>, "top")
  <2>1. out' \in {<<<<"updated", locale>>>>, <<Rejected, <<"updated", locale>>>>}
    BY <1>2, <1>6, Joined DEF Send
  <2>2. at' = "sending" /\ next' = "top"
    BY <1>6, <2>1, Tuples DEF Send
  <2>3. Plain(<<"updated", locale>>)
    BY DEF Plain, Frames
  <2> QED BY <1>4, <2>1, <2>2, <2>3
<1>7. CASE Send(errors, "updating")
  <2>1. CASE errors = <<>>
    BY <1>1, <1>3, <1>7, <2>1, Tuples DEF Send, ProtocolInv, QueueInv, WireInv, WholeInv,
       LocaleInv, Over, Truthful
  <2>2. CASE errors = <<Rejected>>
    <3>1. out' = <<Rejected>> /\ at' = "sending" /\ next' = "updating"
      BY <1>7, <2>2, Tuples DEF Send
    <3>2. Plain(Rejected) /\ Rejected[1] # "updated"
      BY DEF Plain, Frames, Rejected, Err, Timeouts
    <3> QED BY <1>4, <3>1, <3>2
  <2> QED BY <1>2, <2>1, <2>2
<1> QED BY <1>2, <1>5, <1>6, <1>7

\* A transcript is sent for a whole file, and the normal close follows it.
LEMMA CompleteStep ==
    ASSUME ProtocolInv, CompleteReturns
    PROVE  QueueInv' /\ WireInv' /\ WholeInv' /\ LocaleInv'
<1>1. /\ at = "completing" /\ owner' = "completed"
      /\ UNCHANGED <<remaining, target, locale, applied, acked, clock, wire, lost, foreign>>
  BY DEF CompleteReturns, audio, lang, world
<1>2. PICK d \in Deltas : Send(d \o <<<<"completed">>, Shut(1000)>>, "finally")
  BY DEF CompleteReturns, Terminal
<1>3. out' \in {<<<<"completed">>, Shut(1000)>>, <<<<"delta">>, <<"completed">>, Shut(1000)>>}
  <2> DEFINE c == <<"completed">>  s == Shut(1000)
  <2>1. <<>> \o <<c, s>> = <<c, s>> /\ <<<<"delta">>>> \o <<c, s>> = <<<<"delta">>, c, s>>
    <3> HIDE DEF c, s
    <3> QED BY Joined
  <2>2. out' = d \o <<c, s>>
    BY <1>2 DEF Send
  <2>3. d = <<>> \/ d = <<<<"delta">>>>
    BY DEF Deltas
  <2> HIDE DEF c, s
  <2>4. out' \in {<<c, s>>, <<<<"delta">>, c, s>>}
    BY <2>1, <2>2, <2>3
  <2> QED BY <2>4 DEF c, s
<1>4. at' = "sending" /\ next' = "finally"
  BY <1>2, <1>3, Tuples DEF Send
<1>5. Truncated' = Truncated /\ Reached' = Reached
  BY <1>1, BlameReached DEF Truncated
<1>6. QueueInv' /\ WireInv' /\ WholeInv'
  BY <1>1, <1>3, <1>4, <1>5, Tuples DEF ProtocolInv, QueueInv, WireInv, WholeInv,
     Completion, Over, Truthful
<1>7. ASSUME NEW f, out' \in {<<f>>, <<Rejected, f>>} PROVE f[1] # "updated"
  BY <1>3, <1>7, Tuples DEF Shut, Rejected, Err
<1> QED BY <1>1, <1>6, <1>7 DEF ProtocolInv, LocaleInv

\* Every step keeps the protocol's invariant.
LEMMA ProtocolStep == ProtocolInv /\ [Next]_vars => ProtocolInv'
<1> SUFFICES ASSUME ProtocolInv, [Next]_vars
             PROVE  QueueInv' /\ WireInv' /\ WholeInv' /\ LocaleInv'
  BY MaximumFixed, SettlementStep DEF ProtocolInv
<1>a. UNCHANGED remaining => Truncated' = Truncated
  BY DEF Truncated
<1> USE <1>a, BlameReached, Tuples
        DEF ProtocolInv, SettlementInv, ContextInv, LiveInv, HeldInv, Waits, QueueInv, WireInv,
            WholeInv, LocaleInv, Over, Answer, Farewell, Completion, Plain, Frames, Truthful,
            Rejected, Err, Shut, Timeouts
<1>0. CASE Arrive
  BY <1>0 DEF Arrive, Send, audio, lang, world
<1>1. CASE Register
  <2>1. at = "registering" /\ UNCHANGED <<ctx, owner, audio, lang, clock, world>>
    BY <1>1 DEF Register
  <2>2. CASE \E c \in {"busy", "service_unavailable"} : Send(Failure(c, 1013), "finally")
    BY <2>1, <2>2 DEF Send, Failure, audio, lang, world
  <2>3. CASE Send(<<<<"created">>>>, "top")
    BY <2>1, <2>3 DEF Send, audio, lang, world
  <2> QED BY <1>1, <2>2, <2>3 DEF Register
<1>2. CASE Deliver
  BY <1>2, DeliverStep
<1>3. CASE SendFails
  BY <1>3 DEF SendFails, Send, Abort, Raise, Owned, Failure, audio, lang, world
<1>4. CASE AbortReturns
  BY <1>4 DEF AbortReturns, Send, audio, lang, world
<1>5. CASE Finally
  BY <1>5 DEF Finally, audio, lang, world
<1>6. CASE Top
  BY <1>6 DEF Top, Send, Abort, Owned, Failure, audio, lang, world
<1>7. CASE ReceiveTimesOut
  BY <1>7 DEF ReceiveTimesOut, Send, Abort, Owned, Failure, audio, lang, world
<1>8. CASE Disconnect
  BY <1>8 DEF Disconnect, Send, Abort, Owned, audio, lang, world
<1>9. CASE BadEvent
  BY <1>9 DEF BadEvent, Send, Abort, Owned, Failure, audio, lang, world
<1>10. CASE Refuse
  <2>1. \E code : ~(code \in Timeouts) /\ Reject(code)
    BY <1>10 DEF Refuse
  <2>2. at = "receiving" /\ UNCHANGED <<ctx, holds, owner, audio, lang, clock, world>>
    BY <1>10 DEF Refuse
  <2> QED BY <2>1, <2>2 DEF Reject, Send, audio, lang, world
<1>11. CASE Configure
  BY <1>11 DEF Configure, Send, Failure, audio, lang, world
<1>12. CASE Reconfigure
  BY <1>12, ReconfigureStep
<1>13. CASE AppendAudio
  BY <1>13 DEF AppendAudio, Push, Take, audio, lang, world
<1>14. CASE HeaderResolves
  BY <1>14 DEF HeaderResolves, Push, Take, audio, lang, world
<1>15. CASE HeaderIncomplete
  BY <1>15 DEF HeaderIncomplete, audio, lang, world
<1>16. CASE HeaderRefused
  BY <1>16 DEF HeaderRefused, Send, Abort, Owned, Failure, audio, lang, world
<1>17. CASE Commit
  BY <1>17 DEF Commit, Send, audio, lang, world
<1>18. CASE Clear
  BY <1>18 DEF Clear, Send, audio, lang, world
<1>19. CASE Done
  BY <1>19 DEF Done, Send, Abort, Owned, Failure, audio, lang, world
<1>20. CASE OpenReturns
  BY <1>20 DEF OpenReturns, Send, audio, lang, world
<1>21. CASE OpenFails
  BY <1>21 DEF OpenFails, Send, Settled, Failure, audio, lang, world
<1>22. CASE LocaleUpdated
  BY <1>22 DEF LocaleUpdated, Send, Remember, audio, lang, world
<1>23. CASE LocaleFails
  BY <1>23 DEF LocaleFails, Send, Abort, Raise, Owned, Failure, audio, lang, world
<1>24. CASE Credit
  BY <1>24 DEF Credit, audio, lang, world
<1>25. CASE FeedReturns
  BY <1>25 DEF FeedReturns, Send, FedNext, Deltas, audio, lang, world
<1>26. CASE FeedFails
  BY <1>26 DEF FeedFails, FinalizationDue, Send, Abort, Owned, Failure, audio, lang, world
<1>27. CASE CompleteReturns
  BY <1>27, CompleteStep
<1>28. CASE CompleteFails
  BY <1>28 DEF CompleteFails, FinalizationDue, Send, Settled, Failure, audio, lang, world
<1>29. CASE Interrupt
  BY <1>29 DEF Interrupt, Send, Abort, Settled, Owned, audio, lang, world
<1>30. CASE Tick
  <2>1. Reached \subseteq Reached'
    BY <1>30, TickReaches
  <2>2. /\ UNCHANGED <<at, next, out, ctx, holds, owner, configured, audio, lang, world>>
        /\ Truncated' = Truncated
    BY <1>30 DEF Tick, audio
  <2> QED BY <2>1, <2>2 DEF lang, world
<1>31. CASE UNCHANGED vars
  BY <1>31 DEF vars, audio, lang, world
<1> HIDE DEF ProtocolInv, SettlementInv, ContextInv, LiveInv, HeldInv, Waits, QueueInv, WireInv,
            WholeInv, LocaleInv
<1> QED
  BY <1>0, <1>1, <1>2, <1>3, <1>4, <1>5, <1>6, <1>7, <1>8, <1>9, <1>10, <1>11,
     <1>12, <1>13, <1>14, <1>15, <1>16, <1>17, <1>18, <1>19, <1>20, <1>21, <1>22,
     <1>23, <1>24, <1>25, <1>26, <1>27, <1>28, <1>29, <1>30, <1>31
     DEF Next, Start, Own, Client, Engine

\* Every reachable state satisfies the invariant.
THEOREM ProtocolHolds == Spec => []ProtocolInv
BY ProtocolInit, ProtocolStep, PTL DEF Spec

\* No frame follows a close, and behind the one completion, sent for a settled
\* lease only, comes nothing but the normal close (nim_ws.py: _send, _close).
THEOREM EndIsOrderly == Spec => []OrderlyEnd
<1>1. ProtocolInv => OrderlyEnd
  BY DEF ProtocolInv, QueueInv, WireInv, Over, OrderlyEnd
<1> QED BY <1>1, ProtocolHolds, PTL

\* Whoever waits for the client agrees with it on the locale in force
\* (nim_ws.py: _apply_config).
THEOREM LocaleStaysInForce == Spec => []LocaleInForce
<1>1. ProtocolInv => LocaleInForce
  BY DEF ProtocolInv, LocaleInv, LocaleInForce
<1> QED BY <1>1, ProtocolHolds, PTL

\* No session is told of a deadline that was not reached, unless an operation
\* raised a TimeoutError of its own (nim_ws.py: run, _done).
THEOREM TimeoutsStayTrue == Spec => []TimeoutsAreTrue
<1>1. ProtocolInv => TimeoutsAreTrue
  <2>1. DOMAIN Limit = Timeouts
    BY DEF Limit, Timeouts
  <2> QED BY <2>1 DEF ProtocolInv, WireInv, Truthful, Reached, TimeoutsAreTrue
<1> QED BY <1>1, ProtocolHolds, PTL

\* A transcript is completed only if every announced byte of the file came.
THEOREM CompletedStaysWhole == Spec => []CompletedIsWhole
<1>1. ProtocolInv => CompletedIsWhole
  BY DEF ProtocolInv, WireInv, Truncated, CompletedIsWhole
<1> QED BY <1>1, ProtocolHolds, PTL

-----------------------------------------------------------------------------
\* The types of everything but the frames.
PlaceType == /\ at \in Places /\ next \in Places
             /\ holds \subseteq {"host", "slot"} /\ owner \in Owners
Feeding   == at = "feeding" \/ (at = "sending" /\ next = "feeding")
FlagType  == /\ configured \in BOOLEAN /\ deferred \in BOOLEAN /\ bound \in BOOLEAN
             /\ pending \in BOOLEAN /\ credited \in BOOLEAN
             /\ lost \in BOOLEAN /\ cancelled \in BOOLEAN /\ foreign \in BOOLEAN
PieceType == /\ remaining \in {NoFile} \cup 0..MaxBytes /\ pieces \in 0..MaxBytes
             /\ Feeding => pieces > 0
ClockType == elapsed \in [Timeouts -> Nat]

\* The task stands at an await of its own.
LEMMA PlaceTypeStep == PlaceType /\ [Next]_vars => PlaceType'
<1> SUFFICES ASSUME PlaceType, [Next]_vars PROVE PlaceType'
  OBVIOUS
<1> USE DEF PlaceType, Places, Waits, Owners
<1>1. ASSUME NEW frames, Abort(frames) PROVE PlaceType'
  BY <1>1 DEF Abort, Send
<1>2. ASSUME NEW frames, Settled(frames) PROVE PlaceType'
  BY <1>2 DEF Settled, Send
<1>3. CASE Start \/ Deliver \/ AbortReturns \/ Finally
  <2>0. CASE Arrive
    <3>1. \E frames : Send(frames, "registering") \/ Send(frames, "finally")
      BY <2>0, ZenonT(60) DEF Arrive
    <3>2. owner' = owner /\ (holds' = holds \/ holds' = {"host"})
      BY <2>0 DEF Arrive
    <3> QED BY <3>1, <3>2 DEF Send
  <2>1. CASE Register
    <3>1. \E frames : Send(frames, "top") \/ Send(frames, "finally")
      BY <2>1, ZenonT(60) DEF Register
    <3>2. owner' = owner /\ (holds' = holds \/ holds' = holds \cup {"slot"})
      BY <2>1 DEF Register
    <3> QED BY <3>1, <3>2 DEF Send
  <2>2. CASE Deliver
    BY <2>2 DEF Deliver, Send
  <2>3. CASE AbortReturns \/ Finally
    BY <2>3 DEF AbortReturns, Finally, Send
  <2> QED BY <1>3, <2>0, <2>1, <2>2, <2>3 DEF Start
<1>4. CASE SendFails
  <2>1. \/ \E frames : Abort(frames)
        \/ at' = "finally" /\ UNCHANGED <<next, owner, holds>>
    BY <1>4, ZenonT(60) DEF SendFails, Raise
  <2> QED BY <1>1, <2>1
<1>5. CASE Top \/ ReceiveTimesOut \/ Disconnect \/ BadEvent \/ HeaderRefused
  <2>1. \/ \E frames : Abort(frames)
        \/ at' = "receiving" /\ UNCHANGED <<next, owner, holds>>
    BY <1>5 DEF Top, ReceiveTimesOut, Disconnect, BadEvent, HeaderRefused
  <2> QED BY <1>1, <2>1
<1>6. CASE Refuse \/ Commit \/ Clear
  BY <1>6 DEF Refuse, Reject, Commit, Clear, Send
<1>7. CASE Configure \/ Reconfigure
  <2>1. CASE Configure
    <3>1. \/ \E frames : Send(frames, "finally")
          \/ at' = "opening" /\ UNCHANGED next
      BY <2>1, ZenonT(60) DEF Configure
    <3>2. owner' = "new" /\ (holds' = holds \/ holds' = {})
      BY <2>1, ZenonT(60) DEF Configure
    <3> QED BY <3>1, <3>2 DEF Send
  <2>2. CASE Reconfigure
    BY <2>2 DEF Reconfigure, Send
  <2> QED BY <1>7, <2>1, <2>2
<1>8. CASE AppendAudio \/ HeaderResolves \/ HeaderIncomplete
  BY <1>8 DEF AppendAudio, HeaderResolves, HeaderIncomplete, Push
<1>9. CASE Done
  <2>1. \/ \E frames : Abort(frames)
        \/ at' \in {"tail", "completing"} /\ UNCHANGED <<next, owner, holds>>
    BY <1>9 DEF Done
  <2> QED BY <1>1, <2>1
<1>10. CASE OpenReturns \/ LocaleUpdated \/ Credit \/ FeedReturns
  BY <1>10 DEF OpenReturns, LocaleUpdated, Credit, FeedReturns, FedNext, Send
<1>11. CASE LocaleFails \/ FeedFails
  <2>1. \/ \E frames : Abort(frames)
        \/ at' = "finally" /\ UNCHANGED <<next, owner, holds>>
    BY <1>11 DEF LocaleFails, FeedFails, Raise
  <2> QED BY <1>1, <2>1
<1>12. CASE OpenFails \/ CompleteFails
  BY <1>2, <1>12 DEF OpenFails, CompleteFails
<1>13. CASE CompleteReturns
  BY <1>13 DEF CompleteReturns, Terminal, Send
<1>14. CASE Interrupt
  BY <1>1, <1>2, <1>14 DEF Interrupt, Send
<1>15. CASE Tick \/ UNCHANGED vars
  BY <1>15 DEF Tick, vars
<1> QED
  BY <1>3, <1>4, <1>5, <1>6, <1>7, <1>8, <1>9, <1>10, <1>11, <1>12, <1>13, <1>14, <1>15
     DEF Next, Own, Client, Engine

\* No piece is fed that an append did not bring, and no more bytes are left of
\* a file than it announced.
LEMMA PieceTypeStep == LiveInv /\ PieceType /\ [Next]_vars => PieceType'
<1> SUFFICES ASSUME LiveInv, PieceType, [Next]_vars PROVE PieceType'
  OBVIOUS
<1>1. ASSUME Feeding' => Feeding, UNCHANGED <<remaining, pieces>> PROVE PieceType'
  BY <1>1 DEF PieceType
<1>2. ASSUME NEW frames, Abort(frames) \/ Settled(frames) PROVE ~Feeding'
  BY <1>2 DEF Abort, Settled, Send, Feeding
<1>3. CASE \/ Start \/ Deliver \/ AbortReturns \/ Finally
           \/ Refuse \/ Commit \/ Configure \/ Reconfigure
  <2>1. UNCHANGED <<remaining, pieces>>
    BY <1>3 DEF Start, Arrive, Register, Deliver, AbortReturns, Finally, Refuse, Commit, Configure,
       Reconfigure, audio
  <2>2. Start \/ Refuse \/ Commit \/ Configure \/ Reconfigure \/ Finally => ~Feeding'
    BY DEF Start, Arrive, Register, Refuse, Reject, Commit, Configure, Reconfigure, Finally, Send, Feeding
  <2>3. AbortReturns => ~Feeding'
    BY DEF AbortReturns, LiveInv, Send, Feeding
  <2>4. Deliver => (Feeding' => Feeding)
    BY DEF Deliver, Send, Feeding
  <2> QED BY <1>1, <1>3, <2>1, <2>2, <2>3, <2>4
<1>4. CASE \/ SendFails \/ Top \/ ReceiveTimesOut \/ Disconnect \/ BadEvent \/ HeaderRefused
           \/ LocaleFails \/ FeedFails \/ OpenFails \/ CompleteFails \/ Interrupt
  <2>1. UNCHANGED <<remaining, pieces>>
    BY <1>4 DEF SendFails, Top, ReceiveTimesOut, Disconnect, BadEvent, HeaderRefused,
       LocaleFails, FeedFails, OpenFails, CompleteFails, Interrupt, audio
  <2>2. \/ \E frames : Abort(frames) \/ Settled(frames)
        \/ at' \in {"finally", "receiving", "aborting"}
    BY <1>4 DEF SendFails, Top, ReceiveTimesOut, Disconnect, BadEvent, HeaderRefused,
       LocaleFails, FeedFails, OpenFails, CompleteFails, Interrupt, Raise, Send
  <2> QED BY <1>1, <1>2, <2>1, <2>2 DEF Feeding
<1>5. CASE AppendAudio \/ HeaderResolves
  <2>1. PICK n \in 0..MaxBytes, size \in {NoFile} \cup 0..MaxBytes : Push(n, size)
    BY <1>5 DEF AppendAudio, HeaderResolves, PieceType
  <2>2. MaxBytes \in Nat /\ NoFile \notin Nat
    BY RealtimeAssumption
  <2>3. pieces' \in 0..MaxBytes /\ (at' = "feeding" => pieces' > 0) /\ at' # "sending"
    BY <2>1, <2>2 DEF Push
  <2>4. remaining' \in {NoFile} \cup 0..MaxBytes
    BY <2>1, <2>2 DEF Push, Take
  <2> QED BY <2>3, <2>4 DEF PieceType, Feeding
<1>6. CASE HeaderIncomplete \/ Done \/ OpenReturns \/ LocaleUpdated \/ Credit \/ CompleteReturns
  <2>1. UNCHANGED <<remaining, pieces>>
    BY <1>6 DEF HeaderIncomplete, Done, OpenReturns, LocaleUpdated, Credit, CompleteReturns,
       audio
  <2>2. \/ \E frames : Abort(frames)
        \/ \E frames : Send(frames, "top") \/ Send(frames, "finally")
        \/ at' \in {"top", "tail", "completing"} \/ UNCHANGED <<at, next>>
    <3>1. Done => at' \in {"tail", "completing"} \/ \E frames : Abort(frames)
      BY DEF Done
    <3>2. OpenReturns \/ LocaleUpdated => \E frames : Send(frames, "top")
      BY DEF OpenReturns, LocaleUpdated
    <3>3. CompleteReturns => \E frames : Send(frames, "finally")
      BY DEF CompleteReturns, Terminal
    <3> QED BY <1>6, <3>1, <3>2, <3>3 DEF HeaderIncomplete, Credit
  <2> QED BY <1>1, <1>2, <2>1, <2>2 DEF Feeding, Send
<1>7. CASE FeedReturns
  <2>1. /\ remaining' = remaining /\ at \in {"feeding", "tail"}
        /\ pieces' = IF at = "tail" THEN pieces ELSE pieces - 1
        /\ \E d : Send(d, FedNext)
    BY <1>7 DEF FeedReturns
  <2>2. at = "feeding" => pieces > 0
    BY DEF PieceType, Feeding
  <2>3. Feeding' => at = "feeding" /\ pieces # 1
    BY <2>1 DEF Feeding, Send, FedNext
  <2>4. MaxBytes \in Nat
    BY RealtimeAssumption
  <2> QED BY <2>1, <2>2, <2>3, <2>4 DEF PieceType
<1>8. CASE Clear
  <2>1. pieces' = pieces /\ remaining' = NoFile /\ ~Feeding'
    BY <1>8 DEF Clear, Send, Feeding
  <2> QED BY <2>1 DEF PieceType
<1>9. CASE Tick \/ UNCHANGED vars
  BY <1>1, <1>9 DEF Tick, vars, audio, Feeding
<1> QED
  BY <1>3, <1>4, <1>5, <1>6, <1>7, <1>8, <1>9 DEF Next, Own, Client, Engine

\* The flags are Boolean.
LEMMA FlagTypeStep == FlagType /\ [Next]_vars => FlagType'
<1> SUFFICES ASSUME FlagType, [Next]_vars PROVE FlagType'
  OBVIOUS
<1> USE DEF FlagType
<1>1. ASSUME UNCHANGED <<audio, world, configured>> PROVE FlagType'
  BY <1>1 DEF audio, world
<1>2. ASSUME UNCHANGED audio,
             configured' \in BOOLEAN, lost' \in BOOLEAN,
             cancelled' \in BOOLEAN, foreign' \in BOOLEAN
      PROVE  FlagType'
  BY <1>2 DEF audio
<1>3. CASE Start \/ AbortReturns \/ Finally \/ Top \/ ReceiveTimesOut \/ LocaleUpdated
  BY <1>1, <1>3 DEF Start, Arrive, Register, AbortReturns, Finally, Top, ReceiveTimesOut, LocaleUpdated
<1>4. CASE Deliver \/ SendFails
  BY <1>2, <1>4 DEF Deliver, SendFails
<1>5. CASE Client
  <2>1. CASE \/ Disconnect \/ BadEvent \/ Refuse \/ Reconfigure \/ AppendAudio
             \/ HeaderRefused \/ Commit \/ Done
    BY <1>2, <2>1 DEF Disconnect, BadEvent, Refuse, Reconfigure, AppendAudio,
       HeaderRefused, Commit, Done, audio, world
  <2>2. CASE Configure
    BY <2>2 DEF Configure, world
  <2>3. CASE HeaderResolves \/ HeaderIncomplete \/ Clear
    BY <2>3 DEF HeaderResolves, HeaderIncomplete, Clear, world
  <2> QED BY <1>5, <2>1, <2>2, <2>3 DEF Client
<1>6. CASE OpenReturns \/ CompleteReturns
  <2>1. UNCHANGED <<audio, world>> /\ (configured' = configured \/ configured' = TRUE)
    BY <1>6, Zenon DEF OpenReturns, CompleteReturns
  <2> QED BY <1>2, <2>1 DEF world
<1>7. CASE Credit \/ FeedReturns
  BY <1>7 DEF Credit, FeedReturns, world
<1>8. CASE OpenFails \/ CompleteFails \/ LocaleFails \/ FeedFails
  <2> DEFINE Foreign == /\ UNCHANGED <<configured, audio, lost, cancelled>>
                        /\ foreign' = foreign \/ foreign' = TRUE
  <2>1. (OpenFails => Foreign) /\ (CompleteFails => Foreign)
    BY ZenonT(60) DEF OpenFails, CompleteFails
  <2>2. LocaleFails => Foreign
    BY ZenonT(60) DEF LocaleFails
  <2>3. FeedFails => Foreign
    BY ZenonT(60) DEF FeedFails
  <2> QED BY <1>2, <1>8, <2>1, <2>2, <2>3
<1>9. CASE Interrupt \/ Tick \/ UNCHANGED vars
  BY <1>1, <1>2, <1>9 DEF Interrupt, Tick, vars
<1> QED
  BY <1>3, <1>4, <1>5, <1>6, <1>7, <1>8, <1>9 DEF Next, Own, Engine

\* The clocks count ticks.
LEMMA ClockTypeStep == ClockType /\ [Next]_vars => ClockType'
<1> SUFFICES ASSUME ClockType, [Next]_vars PROVE ClockType'
  OBVIOUS
<1> DEFINE Counts == \/ elapsed' = elapsed
                     \/ elapsed' = [elapsed EXCEPT !["idle_timeout"] = 0]
                     \/ Tick
<1>1. Counts
  <2>1. Start \/ Own \/ Interrupt \/ Tick \/ UNCHANGED vars => Counts
    BY DEF Start, Arrive, Register, Own, Deliver, SendFails, AbortReturns, Finally, Top, ReceiveTimesOut,
       OpenFails, LocaleFails, FeedFails, CompleteFails, Interrupt, vars, clock
  <2>2. Client => Counts
    BY DEF Client, Disconnect, BadEvent, Refuse, Configure, Reconfigure, AppendAudio,
       HeaderResolves, HeaderIncomplete, HeaderRefused, Commit, Clear, Done, clock
  <2>3. Engine => Counts
    BY DEF Engine, OpenReturns, OpenFails, LocaleUpdated, LocaleFails, Credit, FeedReturns,
       FeedFails, CompleteReturns, CompleteFails, clock
  <2> QED BY <2>1, <2>2, <2>3 DEF Next
<1>2. ASSUME Tick PROVE ClockType'
  <2>1. DOMAIN Limit = Timeouts
    BY DEF Limit, Timeouts
  <2> QED BY <1>2, <2>1 DEF Tick, ClockType
<1> QED BY <1>1, <1>2 DEF ClockType

\* Every variable keeps its type; in particular no frame but the documented
\* ones is queued, and the pieces of an append are counted down to zero.
THEOREM RealtimeTypes == Spec => []TypeOK
<1> DEFINE Types == PlaceType /\ PieceType /\ FlagType /\ ClockType
<1>1. Init => Types
  <2>1. Init => PlaceType /\ FlagType
    BY DEF Init, PlaceType, FlagType, Places, Owners
  <2>2. Init => PieceType
    BY RealtimeAssumption DEF Init, PieceType, Feeding
  <2>3. Init => ClockType
    BY DEF Init, ClockType, Limit, Timeouts
  <2> QED BY <2>1, <2>2, <2>3
<1>2. ProtocolInv /\ Types /\ [Next]_vars => Types'
  BY PlaceTypeStep, PieceTypeStep, FlagTypeStep, ClockTypeStep DEF ProtocolInv, SettlementInv
<1>3. ProtocolInv /\ Types => TypeOK
  <2> SUFFICES ASSUME ProtocolInv, Types PROVE TypeOK
    OBVIOUS
  <2>1. \A i \in DOMAIN out : out[i][1] \in Frames
    <3>1. ASSUME NEW f, NEW g, f[1] \in Frames, g[1] \in Frames, out \in {<<f>>, <<g, f>>}
          PROVE  \A i \in DOMAIN out : out[i][1] \in Frames
      BY <3>1
    <3>2. CASE Answer
      BY <3>1, <3>2 DEF Answer, Plain, Rejected, Err, Frames
    <3>3. CASE Farewell
      <4>1. \A c : Shut(c)[1] \in Frames /\ Err(c)[1] \in Frames
        BY DEF Shut, Err, Frames
      <4> QED BY <3>1, <3>3, <4>1 DEF Farewell
    <3>4. CASE Completion
      BY <3>4 DEF Completion, Shut, Frames
    <3>5. CASE out = <<>>
      BY <3>5
    <3> QED BY <3>2, <3>3, <3>4, <3>5 DEF ProtocolInv, QueueInv
  <2>2. elapsed \in [DOMAIN Limit -> Nat]
    BY DEF ClockType, Limit, Timeouts
  <2> QED
    BY <2>1, <2>2 DEF ProtocolInv, SettlementInv, ContextInv, WireInv, LocaleInv, PlaceType,
       FlagType, PieceType, TypeOK
<1> QED BY <1>1, <1>2, <1>3, ProtocolHolds, PTL DEF Spec
=============================================================================

----------------------- MODULE StompSubscriptionProofs ----------------------
(***************************************************************************)
(* internal/stomp implements transport.Subscription, for any number of     *)
(* subscriptions, callers and messages and any capacity of the channels.   *)
(***************************************************************************)
EXTENDS StompSubscription, StompProofs

\* No error among the first n of d, and messages numbered up to the first.
NoErr(d, n) == \A i \in 1 .. n : d[i] \notin Errs
Numbering(d) == \A i \in 1 .. Len(d) : NoErr(d, i) => d[i] = <<"msg", i>>

LEMMA NumberingAppend ==
    ASSUME NEW d \in Seq(Msg), NEW m \in Msg, Numbering(d),
           NoErr(d, Len(d)) /\ m \notin Errs => m = <<"msg", Len(d) + 1>>
    PROVE  /\ Numbering(Append(d, m))
           /\ NoErr(Append(d, m), Len(Append(d, m))) =>
                 NoErr(d, Len(d)) /\ m \notin Errs
           /\ Len(Append(d, m)) = Len(d) + 1
<1> DEFINE e == Append(d, m)
           n == Len(d)
<1>1. /\ n \in Nat /\ Len(e) = n + 1 /\ e[n + 1] = m
      /\ \A i \in 1 .. n : e[i] = d[i]
    OBVIOUS
<1>2. \A i \in 1 .. n : \A j \in 1 .. i : j \in 1 .. n
    BY <1>1
<1>3. \A i \in 1 .. n : NoErr(e, i) => NoErr(d, i)
    BY <1>1, <1>2 DEF NoErr
<1>4. /\ n + 1 \in 1 .. n + 1
      /\ \A i \in 1 .. n : i \in 1 .. n + 1
      /\ \A i \in 1 .. n + 1 : i \in 1 .. n \/ i = n + 1
    BY <1>1
<1>5. NoErr(e, n + 1) => NoErr(d, n) /\ m \notin Errs
    BY <1>1, <1>4 DEF NoErr
<1>6. ASSUME NEW i \in 1 .. n + 1, NoErr(e, i) PROVE e[i] = <<"msg", i>>
    <2>1. CASE i \in 1 .. n
        BY <1>1, <1>3, <1>6, <2>1 DEF Numbering
    <2>2. CASE i = n + 1
        BY <1>1, <1>5, <1>6, <2>2
    <2>3. QED
        BY <1>4, <2>1, <2>2
<1>7. QED
    BY <1>1, <1>5, <1>6 DEF Numbering

\* Up to the first error, go-stomp delivers the messages in their order.
Numbered(s) ==
    /\ Numbering(delivered[s])
    /\ NoErr(delivered[s], Len(delivered[s])) =>
          count[s] = Len(delivered[s]) + (IF busy = s THEN 1 ELSE 0)

\* What is not made yet is not called, and there is a reason for everything
\* that ends a subscription.
Cause(s) ==
    /\ bpc[s] = "none" =>
          out[s] = "open" /\ \A k \in Calls : call[s][k] = "none"
    /\ \A k \in Calls : call[s][k] \in {"gate", "wire"} => stop[s]
    /\ srcClosed[s] => stop[s] \/ loop # "up"
    /\ \A i \in 1 .. Len(delivered[s]) : delivered[s][i] = Late => stop[s]

\* The frame of s: what a step of another subscription leaves alone.
Untouched(s) ==
    /\ bpc'[s] = bpc[s] /\ out'[s] = out[s] /\ call'[s] = call[s]
    /\ stop'[s] = stop[s] /\ srcClosed'[s] = srcClosed[s]
    /\ delivered'[s] = delivered[s] /\ count'[s] = count[s]

LEMMA CauseFrame ==
    ASSUME NEW s \in Subs, Cause(s), Untouched(s),
           loop # "up" => loop' # "up"
    PROVE  Cause(s)'
BY DEF Cause, Untouched

\* Steps of a subscription leave the others alone.
LEMMA OthersUntouched ==
    ASSUME TypeInv, NEW r \in Subs, NEW s \in Subs, r # s,
           \/ Aside(r)
           \/ LoopDeliver(r) \/ LoopEndSub(r)
           \/ \E k \in Calls : WireTimeout(r, k)
           \/ Bridge(r)
    PROVE  Untouched(s) /\ loop' = loop
<1> USE DEF TypeInv, CallTypes, BridgeTypes, GoTypes, Untouched
<1>1. CASE Subscribe(r) \/ CtxDone(r) \/ LoopTake(r) \/ Consume(r)
    BY <1>1 DEF Subscribe, CtxDone, LoopTake, Consume, callVars, bridgeVars,
       goVars
<1>2. ASSUME NEW k \in Calls, Unsubscribe(r, k) \/ OnceStep(r, k)
      PROVE  Untouched(s) /\ loop' = loop
    BY <1>2 DEF Unsubscribe, OnceStep, OnceRun, OnceReturn, BeginUnsubscribe,
       RefuseUnsubscribe, OnceDone, bridgeVars, goVars
<1>3. ASSUME NEW k \in Calls, Wire(r, k) PROVE Untouched(s) /\ loop' = loop
    BY <1>3 DEF Wire, WireReceipt, WireEnded, WireTimeout, EndUnsubscribe,
       OnceDone, Push, bridgeVars, goVars
<1>4. CASE LoopDeliver(r) \/ LoopEndSub(r)
    BY <1>4 DEF LoopDeliver, LoopEndSub, Push, callVars, bridgeVars
<1>5. CASE Bridge(r)
    BY <1>5 DEF Bridge, BridgeDiscard, BridgeReceive, BridgeReturn, BridgeSend,
       BridgeStop, BridgeDone, EndOut, callVars, bridgeVars, goVars
<1>6. QED
    BY <1>1, <1>2, <1>3, <1>4, <1>5 DEF Aside, Wire

LEMMA CauseOwn ==
    ASSUME TypeInv, NEW s \in Subs, Cause(s), OnceInv(s),
           \/ Aside(s)
           \/ LoopDeliver(s) \/ LoopEndSub(s)
           \/ \E k \in Calls : WireTimeout(s, k)
           \/ Bridge(s)
    PROVE  Cause(s)'
<1> USE DEF TypeInv, CallTypes, BridgeTypes, GoTypes, Cause
<1>0. CtxCaller \in Calls
    BY DEF Calls
<1>1. CASE Subscribe(s) \/ CtxDone(s) \/ LoopTake(s) \/ Consume(s)
    BY <1>1 DEF Subscribe, CtxDone, LoopTake, Consume, callVars, bridgeVars,
       goVars
<1>2. ASSUME NEW k \in Calls, Unsubscribe(s, k) PROVE Cause(s)'
    BY <1>2 DEF Unsubscribe, Open, bridgeVars, goVars
<1>3. ASSUME NEW k \in Calls, OnceStep(s, k) PROVE Cause(s)'
    BY <1>3 DEF OnceStep, OnceRun, OnceReturn, BeginUnsubscribe,
       RefuseUnsubscribe, OnceDone, bridgeVars, goVars
<1>4. ASSUME NEW k \in Calls, Wire(s, k) PROVE Cause(s)'
    <2>1. /\ call[s][k] = "wire" /\ stop[s] /\ stop' = stop
          /\ bpc' = bpc /\ out' = out /\ loop' = loop
          /\ \E r \in {"ok", "error"} : OnceDone(s, k, r)
        BY <1>4 DEF Wire, WireReceipt, WireEnded, WireTimeout, EndUnsubscribe,
           OnceDone, bridgeVars, goVars
    <2>2. \A l \in Calls : call'[s][l] \in {"gate", "wire"} => stop'[s]
        BY <2>1
    <2>3. bpc[s] # "none"
        BY <2>1
    <2>4. QED
        BY <2>1, <2>2, <2>3
<1>5. CASE LoopDeliver(s)
    <2>1. /\ delivered'[s] = Append(delivered[s], <<"msg", count[s]>>)
          /\ delivered[s] \in Seq(Msg)
        BY <1>5 DEF LoopDeliver, Push
    <2>2. <<"msg", count[s]>> # Late
        BY DEF Late
    <2>3. \A i \in 1 .. Len(delivered'[s]) : delivered'[s][i] = Late =>
              i \in 1 .. Len(delivered[s]) /\ delivered[s][i] = Late
        BY <2>1, <2>2
    <2>4. UNCHANGED <<bpc, out, call, stop, srcClosed, loop>>
        BY <1>5 DEF LoopDeliver, callVars, bridgeVars
    <2>5. QED
        BY <2>3, <2>4
<1>6. CASE LoopEndSub(s)
    <2>1. /\ delivered'[s] = Append(delivered[s], End)
          /\ delivered[s] \in Seq(Msg)
        BY <1>6 DEF LoopEndSub, Push
    <2>2. End # Late
        BY DEF End, Late
    <2>3. \A i \in 1 .. Len(delivered'[s]) : delivered'[s][i] = Late =>
              i \in 1 .. Len(delivered[s]) /\ delivered[s][i] = Late
        BY <2>1, <2>2
    <2>4. UNCHANGED <<bpc, out, call, stop, loop>> /\ loop # "up"
        BY <1>6 DEF LoopEndSub, callVars, bridgeVars
    <2>5. QED
        BY <2>3, <2>4
<1>7. CASE BridgeDiscard(s) \/ BridgeReceive(s) \/ BridgeReturn(s)
           \/ BridgeSend(s) \/ BridgeStop(s)
    BY <1>7 DEF BridgeDiscard, BridgeReceive, BridgeReturn, BridgeSend,
       BridgeStop, EndOut, callVars, bridgeVars, goVars
<1>8. CASE BridgeDone(s)
    BY <1>0, <1>8 DEF BridgeDone, EndOut, goVars
<1>9. QED
    BY <1>1, <1>2, <1>3, <1>4, <1>5, <1>6, <1>7, <1>8 DEF Aside, Wire, Bridge

\* Whoever steps, the messages of s stay numbered.
LEMMA NumberedFrame ==
    ASSUME NEW s \in Subs, Numbered(s), delivered'[s] = delivered[s],
           count'[s] = count[s], busy' = s <=> busy = s
    PROVE  Numbered(s)'
BY DEF Numbered

LEMMA NumberedOwn ==
    ASSUME TypeInv, NEW s \in Subs, Numbered(s),
           \/ Aside(s)
           \/ LoopDeliver(s) \/ LoopEndSub(s)
           \/ \E k \in Calls : WireTimeout(s, k)
           \/ Bridge(s)
    PROVE  Numbered(s)'
<1>0. /\ delivered[s] \in Seq(Msg) /\ Len(delivered[s]) \in Nat
      /\ count[s] \in Nat /\ s # None
    BY StompAssumption DEF TypeInv, GoTypes
<1>1. CASE LoopTake(s)
    <2>1. /\ delivered' = delivered /\ busy = None /\ busy' = s
          /\ count'[s] = count[s] + 1
        BY <1>1 DEF LoopTake, TypeInv, GoTypes
    <2>2. NoErr(delivered[s], Len(delivered[s])) =>
              count[s] = Len(delivered[s])
        <3>1. busy # s
            BY <1>0, <2>1
        <3>2. NoErr(delivered[s], Len(delivered[s])) =>
                  count[s] = Len(delivered[s]) + 0
            BY <3>1 DEF Numbered
        <3>3. QED
            BY <1>0, <3>2
    <2>3. NoErr(delivered'[s], Len(delivered'[s])) =>
              count'[s] = Len(delivered'[s]) + 1
        BY <2>1, <2>2
    <2>4. Numbering(delivered'[s])
        BY <2>1 DEF Numbered
    <2>5. QED
        BY <2>1, <2>3, <2>4 DEF Numbered
<1>2. CASE LoopDeliver(s)
    <2>1. /\ delivered'[s] = Append(delivered[s], <<"msg", count[s]>>)
          /\ busy = s /\ busy' = None /\ count' = count
        BY <1>2 DEF LoopDeliver, Push, TypeInv, GoTypes
    <2>2. <<"msg", count[s]>> \in Msg
        <3>1. count[s] \in 1 .. MaxMsgs
            BY <2>1, StompAssumption DEF TypeInv, GoTypes, InHand
        <3>2. QED
            BY <3>1, MessageIsMsg
    <2>3. NoErr(delivered[s], Len(delivered[s])) =>
              count[s] = Len(delivered[s]) + 1
        BY <2>1 DEF Numbered
    <2>4. Numbering(delivered[s])
        BY DEF Numbered
    <2>5. /\ Numbering(delivered'[s])
          /\ NoErr(delivered'[s], Len(delivered'[s])) =>
                NoErr(delivered[s], Len(delivered[s]))
          /\ Len(delivered'[s]) = Len(delivered[s]) + 1
        BY <1>0, <2>1, <2>2, <2>3, <2>4, NumberingAppend
    <2>6. NoErr(delivered'[s], Len(delivered'[s])) =>
              count'[s] = Len(delivered'[s]) + 0
        BY <1>0, <2>1, <2>3, <2>5
    <2>7. QED
        BY <1>0, <2>1, <2>5, <2>6 DEF Numbered
<1>3. CASE LoopEndSub(s) \/ \E k \in Calls : WireTimeout(s, k)
    <2>1. PICK m \in Errs : delivered'[s] = Append(delivered[s], m)
        BY <1>3 DEF LoopEndSub, WireTimeout, Push, Errs, TypeInv, GoTypes
    <2>2. m \in Msg
        BY ErrsAreMsgs
    <2>3. Numbering(delivered[s])
        BY DEF Numbered
    <2>4. /\ Numbering(delivered'[s])
          /\ ~NoErr(delivered'[s], Len(delivered'[s]))
        BY <1>0, <2>1, <2>2, <2>3, NumberingAppend
    <2>5. QED
        BY <2>4 DEF Numbered
<1>4. CASE Subscribe(s) \/ CtxDone(s) \/ Consume(s) \/ Bridge(s)
    BY <1>4, NumberedFrame DEF Subscribe, CtxDone, Consume, Bridge,
       BridgeDiscard, BridgeReceive, BridgeReturn, BridgeSend, BridgeStop,
       BridgeDone, goVars
<1>5. ASSUME NEW k \in Calls,
             \/ Unsubscribe(s, k) \/ OnceStep(s, k) \/ WireReceipt(s, k)
             \/ \E x \in {"ok", "error"} : WireEnded(s, k, x)
      PROVE  Numbered(s)'
    BY <1>5, NumberedFrame DEF Unsubscribe, OnceStep, OnceRun, OnceReturn,
       BeginUnsubscribe, RefuseUnsubscribe, WireReceipt, WireEnded, goVars
<1>6. QED
    BY <1>1, <1>2, <1>3, <1>4, <1>5 DEF Aside

\* A step of another subscription may take the loop, but not from s.
LEMMA NumberedOther ==
    ASSUME TypeInv, NEW r \in Subs, NEW s \in Subs, r # s, Numbered(s),
           \/ Aside(r)
           \/ LoopDeliver(r) \/ LoopEndSub(r)
           \/ \E k \in Calls : WireTimeout(r, k)
           \/ Bridge(r)
    PROVE  Numbered(s)'
<1>1. delivered'[s] = delivered[s] /\ count'[s] = count[s]
    BY OthersUntouched DEF Untouched
<1>2. busy' = s <=> busy = s
    <2>1. CASE LoopTake(r) \/ LoopDeliver(r)
        BY <2>1, StompAssumption DEF LoopTake, LoopDeliver
    <2>2. CASE LoopEndSub(r) \/ \E k \in Calls : WireTimeout(r, k)
        BY <2>2 DEF LoopEndSub, WireTimeout
    <2>3. CASE Subscribe(r) \/ CtxDone(r) \/ Consume(r) \/ Bridge(r)
        BY <2>3 DEF Subscribe, CtxDone, Consume, Bridge, BridgeDiscard,
           BridgeReceive, BridgeReturn, BridgeSend, BridgeStop, BridgeDone,
           goVars
    <2>4. ASSUME NEW k \in Calls,
                 \/ Unsubscribe(r, k) \/ OnceStep(r, k) \/ WireReceipt(r, k)
                 \/ \E x \in {"ok", "error"} : WireEnded(r, k, x)
          PROVE  busy' = busy
        BY <2>4 DEF Unsubscribe, OnceStep, OnceRun, OnceReturn,
           BeginUnsubscribe, RefuseUnsubscribe, WireReceipt, WireEnded, goVars
    <2>5. QED
        BY <2>1, <2>2, <2>3, <2>4 DEF Aside
<1>3. QED
    BY <1>1, <1>2, NumberedFrame

\* The streams and the calls are in order, messages are numbered as the
\* interface counts them, and what ends a subscription has a cause.
RefinementInv ==
    /\ StreamInv
    /\ CallInv
    /\ \A s \in Subs : Numbered(s) /\ Cause(s)

LEMMA RefinementInvStep == RefinementInv /\ [Next]_vars => RefinementInv'
<1> SUFFICES ASSUME RefinementInv, [Next]_vars PROVE RefinementInv'
    OBVIOUS
<1>1. StreamInv' /\ CallInv'
    <2>1. CallInv /\ StreamInv
        BY DEF RefinementInv
    <2>2. QED
        BY <2>1, StreamInvStep, TypeInvStep, OnceInvStep, GateInvStep DEF CallInv
<1>2. TypeInv
    BY DEF RefinementInv, StreamInv
<1>3. ASSUME NEW s \in Subs PROVE Numbered(s) /\ Cause(s) /\ OnceInv(s)
    BY DEF RefinementInv, CallInv
<1>4. ASSUME NEW r \in Subs,
             \/ Aside(r)
             \/ LoopDeliver(r) \/ LoopEndSub(r)
             \/ \E k \in Calls : WireTimeout(r, k)
             \/ Bridge(r),
             NEW s \in Subs
      PROVE  (Numbered(s) /\ Cause(s))'
    <2>1. CASE r = s
        BY <1>2, <1>3, <1>4, <2>1, NumberedOwn, CauseOwn
    <2>2. CASE r # s
        <3>1. Numbered(s)'
            BY <1>2, <1>3, <1>4, <2>2, NumberedOther
        <3>2. Untouched(s) /\ loop' = loop
            BY <1>2, <1>4, <2>2, OthersUntouched
        <3>3. Cause(s)'
            BY <1>3, <3>2, CauseFrame
        <3>4. QED
            BY <3>1, <3>3
    <2>3. QED
        BY <2>1, <2>2
<1>5. ASSUME LoopStep \/ DisconnectStep \/ UNCHANGED vars, NEW s \in Subs
      PROVE  (Numbered(s) /\ Cause(s))'
    <2>1. /\ Untouched(s) /\ (loop # "up" => loop' # "up")
          /\ busy' = busy
        BY <1>5 DEF LoopStep, LoopTakeDisconnect, LoopEnd, LoopEndDisconnect,
           LoopBlocks, DisconnectStep, DisconnectBegin, DisconnectMust,
           DisconnectSend, DisconnectReceipt, DisconnectTimer,
           DisconnectTimeout, Untouched, vars, callVars, bridgeVars, goVars
    <2>2. Numbered(s)'
        BY <1>3, <2>1, NumberedFrame DEF Untouched
    <2>3. Cause(s)'
        BY <1>3, <2>1, CauseFrame
    <2>4. QED
        BY <2>2, <2>3
<1>6. \A k \in Callers : k \in Calls
    BY DEF Calls
<1>7. (\A s \in Subs : Numbered(s) /\ Cause(s))'
    BY <1>4, <1>5, <1>6 DEF Next, Wire, Aside
<1>8. QED
    BY <1>1, <1>7 DEF RefinementInv

LEMMA RefinementInvInit == Init => RefinementInv
<1> SUFFICES ASSUME Init PROVE RefinementInv
    OBVIOUS
<1>1. ASSUME NEW s \in Subs PROVE Numbered(s) /\ Cause(s)
    <2>1. /\ Len(delivered[s]) = 0 /\ count[s] = 0 /\ busy # s
          /\ bpc[s] = "none" /\ out[s] = "open" /\ ~srcClosed[s]
          /\ \A k \in Calls : call[s][k] = "none"
        BY StompAssumption DEF Init
    <2>2. QED
        BY <2>1 DEF Numbered, Numbering, Cause
<1>2. ASSUME NEW s \in Subs PROVE Stream(s)
    <2>1. /\ Len(src[s]) = 0 /\ Len(delivered[s]) = 0
          /\ Len(forwarded[s]) = 0 /\ bpc[s] = "none"
        BY DEF Init
    <2>2. QED
        BY <2>1 DEF Stream, Suffix, Passed, Taken
<1>3. StreamInv
    BY <1>2, TypeInvInit DEF StreamInv, Init
<1>4. CallInv
    <2>1. GateInv /\ \A s \in Subs : OnceInv(s)
        BY DEF Init, GateInv, OnceInv, Calls
    <2>2. QED
        BY <2>1, TypeInvInit DEF CallInv
<1>5. QED
    BY <1>1, <1>3, <1>4 DEF RefinementInv

-----------------------------------------------------------------------------
\* The state that the refinement mapping reads.
mapVars == <<bpc, out, ch, forwarded, stop, ctx, loop>>

LEMMA MapStutter ==
    ASSUME UNCHANGED mapVars PROVE UNCHANGED Transport!svars
BY DEF mapVars, Transport!svars, SubState, SentCount, StopAsked, Open

\* Most steps are steps inside the transport.
LEMMA InnerStep ==
    ASSUME NEW s \in Subs,
           \/ \E k \in Calls :
                 \/ Unsubscribe(s, k) \/ OnceReturn(s, k)
                 \/ BeginUnsubscribe(s, k) \/ RefuseUnsubscribe(s, k)
                 \/ Wire(s, k)
           \/ LoopTake(s) \/ LoopDeliver(s) \/ LoopEndSub(s)
           \/ BridgeDiscard(s)
    PROVE  UNCHANGED mapVars
<1>1. ASSUME NEW k \in Calls,
             \/ Unsubscribe(s, k) \/ OnceReturn(s, k)
             \/ BeginUnsubscribe(s, k) \/ RefuseUnsubscribe(s, k)
      PROVE  UNCHANGED mapVars
    BY <1>1 DEF Unsubscribe, OnceReturn, BeginUnsubscribe, RefuseUnsubscribe,
       OnceDone, mapVars, bridgeVars, goVars
<1>2. ASSUME NEW k \in Calls, Wire(s, k) PROVE UNCHANGED mapVars
    BY <1>2 DEF Wire, WireReceipt, WireEnded, WireTimeout, EndUnsubscribe,
       OnceDone, mapVars, bridgeVars, goVars
<1>3. CASE LoopTake(s) \/ LoopDeliver(s) \/ LoopEndSub(s) \/ BridgeDiscard(s)
    BY <1>3 DEF LoopTake, LoopDeliver, LoopEndSub, BridgeDiscard, mapVars,
       callVars, bridgeVars
<1>4. QED
    BY <1>1, <1>2, <1>3

LEMMA DisconnectInner == ASSUME DisconnectStep PROVE UNCHANGED mapVars
BY DEF DisconnectStep, DisconnectBegin, DisconnectMust, DisconnectSend,
   DisconnectReceipt, DisconnectTimer, DisconnectTimeout, mapVars, callVars,
   bridgeVars, goVars

\* Taking a message from src, with out open, is not seen either.
LEMMA ReceiveInner ==
    ASSUME TypeInv, NEW s \in Subs, BridgeReceive(s)
    PROVE  UNCHANGED Transport!svars
<1>1. /\ UNCHANGED <<out, ch, forwarded, stop, ctx, loop>>
      /\ bpc[s] # "none" /\ bpc' = [bpc EXCEPT ![s] = "send"]
    BY DEF BridgeReceive, callVars
<1>2. SubState' = SubState
    BY <1>1 DEF SubState, Open, TypeInv, BridgeTypes
<1>3. QED
    BY <1>1, <1>2 DEF Transport!svars, SentCount, StopAsked

LEMMA SubscribeMakes ==
    ASSUME TypeInv, NEW s \in Subs, Subscribe(s), Cause(s)
    PROVE  Transport!Make(s)
<1>1. /\ UNCHANGED <<out, ch, forwarded, stop, ctx, loop>> /\ loop = "up"
      /\ bpc[s] = "none" /\ bpc' = [bpc EXCEPT ![s] = "select"]
      /\ out[s] = "open"
    BY DEF Subscribe, Cause, callVars, goVars
<1>2. SubState' = [SubState EXCEPT ![s] = "open"] /\ SubState[s] = "none"
    BY <1>1 DEF SubState, Open, TypeInv, BridgeTypes
<1>3. UNCHANGED <<ch, SentCount, StopAsked, loop>>
    BY <1>1 DEF SentCount, StopAsked
<1>4. QED
    BY <1>1, <1>2, <1>3 DEF Transport!Make

LEMMA StopAsks ==
    ASSUME TypeInv, NEW s \in Subs, bpc[s] # "none",
           UNCHANGED <<bpc, out, ch, forwarded, loop>>,
           \/ stop' = [stop EXCEPT ![s] = TRUE] /\ UNCHANGED ctx
           \/ ctx' = [ctx EXCEPT ![s] = TRUE] /\ UNCHANGED stop
    PROVE  Transport!Stop(s)
<1>1. StopAsked' = [StopAsked EXCEPT ![s] = TRUE]
    BY DEF StopAsked, TypeInv, CallTypes
<1>2. SubState[s] # "none"
    BY DEF SubState, Open, TypeInv, BridgeTypes
<1>3. UNCHANGED <<SubState, ch, SentCount, loop>>
    BY DEF SubState, Open, SentCount
<1>4. QED
    BY <1>1, <1>2, <1>3 DEF Transport!Stop

LEMMA BridgeCloses ==
    ASSUME TypeInv, NEW s \in Subs, out[s] = "open", bpc[s] # "none",
           stop[s] \/ ctx[s] \/ loop # "up",
           UNCHANGED <<ch, forwarded, stop, ctx, loop>>,
           out' = [out EXCEPT ![s] = "closed"],
           \E p \in {"select", "gone"} : bpc' = [bpc EXCEPT ![s] = p]
    PROVE  Transport!Close(s)
<1>1. /\ SubState[s] = "open"
      /\ SubState' = [SubState EXCEPT ![s] = "closed"]
    BY DEF SubState, Open, TypeInv, BridgeTypes
<1>2. StopAsked[s] \/ loop # "up"
    BY DEF StopAsked
<1>3. UNCHANGED <<ch, SentCount, StopAsked, loop>>
    BY DEF SentCount, StopAsked
<1>4. QED
    BY <1>1, <1>2, <1>3 DEF Transport!Close

\* A message in hand is the next one; an error in hand has a cause.
LEMMA HeldIsNext ==
    ASSUME RefinementInv, NEW s \in Subs, bpc[s] = "send"
    PROVE  /\ held[s] \in Msg /\ out[s] = "open"
           /\ held[s] \notin Errs => held[s] = <<"msg", Len(forwarded[s]) + 1>>
           /\ held[s] = End => loop # "up"
           /\ held[s] = Late => stop[s]
<1> DEFINE n == Len(forwarded[s])
           d == delivered[s]
<1>1. /\ Passed(s) /\ Stream(s) /\ Numbered(s) /\ Cause(s)
      /\ held[s] \in Msg /\ n \in Nat /\ Len(d) \in Nat /\ Len(src[s]) \in Nat
    BY DEF RefinementInv, StreamInv, Stream, TypeInv, InHand, BridgeTypes,
       GoTypes
<1>2. /\ out[s] = "open" /\ n + 1 = Len(d) - Len(src[s])
      /\ held[s] = d[n + 1]
      /\ \A i \in 1 .. n : forwarded[s][i] = d[i]
      /\ \A i \in 1 .. n : forwarded[s][i] \in Errs => out[s] = "closed"
    BY <1>1 DEF Passed, Taken
<1>3. n + 1 \in 1 .. Len(d)
    <2> HIDE DEF n
    <2>1. \A a, b, c \in Nat : c + 1 = a - b => c + 1 \in 1 .. a
        OBVIOUS
    <2>2. QED
        BY <1>1, <1>2, <2>1, Zenon
<1>4. held[s] \notin Errs => NoErr(d, n + 1)
    <2> HIDE DEF n, d
    <2>1. \A i \in 1 .. n : d[i] \notin Errs
        BY <1>2
    <2>2. \A i \in 1 .. n + 1 : i \in 1 .. n \/ i = n + 1
        BY <1>1
    <2>3. QED
        BY <1>2, <2>1, <2>2 DEF NoErr
<1>5. held[s] \notin Errs => held[s] = <<"msg", n + 1>>
    <2>1. Numbering(d)
        BY <1>1 DEF Numbered
    <2> HIDE DEF n, d
    <2>2. QED
        BY <1>2, <1>3, <1>4, <2>1 DEF Numbering
<1>6. held[s] = End => loop # "up"
    BY <1>1, <1>2, <1>3 DEF Stream
<1>7. held[s] = Late => stop[s]
    BY <1>1, <1>2, <1>3 DEF Cause
<1>8. QED
    BY <1>1, <1>2, <1>5, <1>6, <1>7

LEMMA SendDelivers ==
    ASSUME RefinementInv, NEW s \in Subs, BridgeSend(s)
    PROVE  Transport!Deliver(s) \/ Transport!Fail(s)
<1> DEFINE m == held[s]
<1>0. TypeInv
    BY DEF RefinementInv, StreamInv
<1>1. /\ bpc[s] = "send" /\ Len(ch[s]) < ChanBuf
      /\ ch' = [ch EXCEPT ![s] = Append(@, m)]
      /\ forwarded' = [forwarded EXCEPT ![s] = Append(@, m)]
      /\ out' = [out EXCEPT ![s] = IF m \in Errs THEN "closed" ELSE @]
      /\ bpc' = [bpc EXCEPT ![s] = "select"]
      /\ UNCHANGED <<stop, ctx, loop>>
    BY DEF BridgeSend, ChanRoom, callVars, goVars
<1>2. /\ m \in Msg /\ out[s] = "open"
      /\ m \notin Errs => m = <<"msg", Len(forwarded[s]) + 1>>
      /\ m = End => loop # "up"
      /\ m = Late => stop[s]
    BY <1>1, HeldIsNext
<1> HIDE DEF m
<1>3. SentCount' = [SentCount EXCEPT ![s] = @ + 1]
    <2>1. \A t \in Subs : forwarded[t] \in Seq(Msg)
        BY <1>0 DEF TypeInv, BridgeTypes
    <2>2. \A t \in Subs : Len(forwarded'[t]) =
              IF t = s THEN Len(forwarded[t]) + 1 ELSE Len(forwarded[t])
        BY <1>0, <1>1, <1>2, <2>1 DEF TypeInv, BridgeTypes
    <2>3. QED
        BY <2>2 DEF SentCount
<1>4. UNCHANGED <<StopAsked, loop>>
    BY <1>1 DEF StopAsked
<1>5. /\ SubState[s] = "open"
      /\ m \notin Errs => UNCHANGED SubState
      /\ m \in Errs => SubState' = [SubState EXCEPT ![s] = "closed"]
    BY <1>0, <1>1, <1>2 DEF SubState, Open, TypeInv, BridgeTypes
<1>6. Transport!Put(s, m)
    BY <1>1, <1>3, <1>4, <1>5 DEF Transport!Put
<1>7. CASE m \notin Errs
    <2>1. m = <<"msg", SentCount[s] + 1>>
        BY <1>2, <1>7 DEF SentCount
    <2>2. QED
        BY <1>5, <1>6, <1>7, <2>1 DEF Transport!Deliver
<1>8. CASE m \in Errs
    <2>1. \/ m = Transport!EndErr /\ loop # "up"
          \/ m = Transport!LateErr /\ StopAsked[s]
        BY <1>2, <1>8 DEF Errs, End, Late, Transport!EndErr, Transport!LateErr,
           StopAsked
    <2>2. QED
        BY <1>5, <1>6, <1>8, <2>1 DEF Transport!Fail
<1>9. QED
    BY <1>7, <1>8

LEMMA StepSimulation ==
    RefinementInv /\ [Next]_vars => [Transport!SNext]_(Transport!svars)
<1> SUFFICES ASSUME RefinementInv, [Next]_vars
             PROVE  Transport!SNext \/ UNCHANGED Transport!svars
    OBVIOUS
<1>0. TypeInv /\ \A s \in Subs : Cause(s)
    BY DEF RefinementInv, StreamInv
<1>1. CASE UNCHANGED vars
    BY <1>1, MapStutter DEF vars, callVars, bridgeVars, goVars, mapVars
<1>2. CASE DisconnectStep
    BY <1>2, DisconnectInner, MapStutter
<1>3. CASE LoopStep
    <2>1. /\ UNCHANGED <<bpc, out, ch, forwarded, stop, ctx>>
          /\ loop # "up" => loop' # "up"
        BY <1>3 DEF LoopStep, LoopTakeDisconnect, LoopEnd, LoopEndDisconnect,
           LoopBlocks, callVars, bridgeVars, goVars
    <2>2. UNCHANGED <<SubState, ch, SentCount, StopAsked>>
        BY <2>1 DEF SubState, SentCount, StopAsked, Open
    <2>3. CASE loop = "up" /\ loop' # "up"
        <3>1. Transport!GoDown
            BY <2>2, <2>3 DEF Transport!GoDown
        <3>2. QED
            BY <3>1 DEF Transport!SNext
    <2>4. CASE (loop' # "up") = (loop # "up")
        BY <2>2, <2>4 DEF Transport!svars
    <2>5. QED
        BY <2>1, <2>3, <2>4
<1>4. ASSUME NEW s \in Subs,
             \/ Subscribe(s) \/ CtxDone(s) \/ Consume(s)
             \/ \E k \in Calls : OnceRun(s, k)
      PROVE  Transport!SNext
    <2>1. CASE Subscribe(s)
        BY <1>0, <2>1, SubscribeMakes DEF Transport!SNext
    <2>2. CASE CtxDone(s)
        BY <1>0, <2>2, StopAsks
        DEF CtxDone, Open, callVars, bridgeVars, goVars, Transport!SNext
    <2>3. CASE Consume(s)
        <3>1. UNCHANGED <<SubState, SentCount, StopAsked, loop>>
            BY <2>3 DEF Consume, callVars, goVars, SubState, SentCount,
               StopAsked, Open
        <3>2. Transport!Take(s)
            BY <2>3, <3>1 DEF Consume, Transport!Take
        <3>3. QED
            BY <3>2 DEF Transport!SNext
    <2>4. ASSUME NEW k \in Calls, OnceRun(s, k) PROVE Transport!SNext
        <3>1. bpc[s] # "none"
            BY <1>0, <2>4 DEF OnceRun, Cause
        <3>2. Transport!Stop(s)
            BY <1>0, <2>4, <3>1, StopAsks DEF OnceRun, bridgeVars, goVars
        <3>3. QED
            BY <3>2 DEF Transport!SNext
    <2>5. QED
        BY <1>4, <2>1, <2>2, <2>3, <2>4
<1>5. ASSUME NEW s \in Subs,
             \/ \E k \in Calls :
                   \/ Unsubscribe(s, k) \/ OnceReturn(s, k)
                   \/ BeginUnsubscribe(s, k) \/ RefuseUnsubscribe(s, k)
                   \/ Wire(s, k)
             \/ LoopTake(s) \/ LoopDeliver(s) \/ LoopEndSub(s)
             \/ BridgeDiscard(s)
      PROVE  UNCHANGED Transport!svars
    BY <1>5, InnerStep, MapStutter
<1>6. ASSUME NEW s \in Subs,
             \/ BridgeReceive(s) \/ BridgeReturn(s) \/ BridgeSend(s)
             \/ BridgeStop(s) \/ BridgeDone(s)
      PROVE  Transport!SNext \/ UNCHANGED Transport!svars
    <2>1. CASE BridgeReceive(s)
        BY <1>0, <2>1, ReceiveInner
    <2>2. CASE BridgeSend(s)
        BY <2>2, SendDelivers DEF Transport!SNext
    <2>3. CASE BridgeStop(s) \/ BridgeDone(s)
        <3>1. Transport!Close(s)
            BY <1>0, <2>3, BridgeCloses
            DEF BridgeStop, BridgeDone, EndOut, callVars, goVars
        <3>2. QED
            BY <3>1 DEF Transport!SNext
    <2>4. CASE BridgeReturn(s)
        <3>1. /\ bpc[s] = "select" /\ bpc' = [bpc EXCEPT ![s] = "gone"]
              /\ out' = [out EXCEPT ![s] = "closed"]
              /\ UNCHANGED <<ch, forwarded, stop, ctx, loop>>
              /\ stop[s] \/ loop # "up"
            BY <1>0, <2>4 DEF BridgeReturn, Cause, callVars, goVars
        <3>2. CASE out[s] = "open"
            <4>1. Transport!Close(s)
                BY <1>0, <3>1, <3>2, BridgeCloses
            <4>2. QED
                BY <4>1 DEF Transport!SNext
        <3>3. CASE out[s] # "open"
            <4>1. SubState' = SubState
                BY <1>0, <3>1, <3>3 DEF SubState, Open, TypeInv, BridgeTypes
            <4>2. QED
                BY <3>1, <4>1 DEF Transport!svars, SentCount, StopAsked
        <3>4. QED
            BY <3>2, <3>3
    <2>5. QED
        BY <1>6, <2>1, <2>2, <2>3, <2>4
<1>7. \A k \in Callers : k \in Calls
    BY DEF Calls
<1>8. QED
    BY <1>1, <1>2, <1>3, <1>4, <1>5, <1>6, <1>7 DEF Next, OnceStep, Bridge

\* internal/stomp implements transport.Subscription: every step of the
\* transport, go-stomp's included, is a step that the interface allows, or
\* one that it does not see.
THEOREM Implements == Spec => ImplementsSubscription
<1>1. Init => Transport!SInit
    <2> SUFFICES ASSUME Init PROVE Transport!SInit
        OBVIOUS
    <2>1. SubState = [s \in Subs |-> "none"]
        BY DEF Init, SubState, Open
    <2>2. SentCount = [s \in Subs |-> 0]
        BY DEF Init, SentCount
    <2>3. StopAsked = [s \in Subs |-> FALSE]
        BY DEF Init, StopAsked
    <2>4. ch = [s \in Subs |-> <<>>] /\ (loop # "up") = FALSE
        BY DEF Init
    <2>5. QED
        BY <2>1, <2>2, <2>3, <2>4 DEF Transport!SInit
<1>2. QED
    BY <1>1, RefinementInvInit, RefinementInvStep, StepSimulation, PTL
    DEF Spec, ImplementsSubscription, Transport!SSpec
=============================================================================

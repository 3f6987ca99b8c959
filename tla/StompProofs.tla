----------------------------- MODULE StompProofs ----------------------------
(***************************************************************************)
(* What module Stomp promises, for any number of subscriptions, callers    *)
(* and messages and any capacity of the channels.                          *)
(***************************************************************************)
EXTENDS Stomp, Integers, TLAPS

-----------------------------------------------------------------------------
(***************************************************************************)
(* Types                                                                   *)
(***************************************************************************)

ConnTypes ==
    /\ bounded \in BOOLEAN
    /\ closing \in BOOLEAN
    /\ unsubs \in SUBSET Subs
    /\ ended \in BOOLEAN
    /\ dpc \in {"idle", "pending", "receipt", "closed", "failed"}
    /\ request \in {"none", "queued", "registered", "done"}
    /\ timer \in BOOLEAN

CallTypes ==
    /\ stop \in [Subs -> BOOLEAN]
    /\ once \in [Subs -> {"free", "running", "done"}]
    /\ err \in [Subs -> {"none", "ok", "error", "disconnected"}]
    /\ call \in [Subs -> [Calls -> {"none", "once", "gate", "wire", "returned"}]]
    /\ result \in [Subs -> [Calls -> {"none", "ok", "error", "disconnected"}]]
    /\ ctx \in [Subs -> BOOLEAN]

BridgeTypes ==
    /\ bpc \in [Subs -> {"none", "select", "send", "gone"}]
    /\ held \in [Subs -> Msg \cup {None}]
    /\ out \in [Subs -> {"open", "closed"}]
    /\ ch \in [Subs -> Seq(Msg)]
    /\ \A s \in Subs : Len(ch[s]) <= ChanBuf
    /\ forwarded \in [Subs -> Seq(Msg)]

GoTypes ==
    /\ loop \in {"up", "ended", "blocked"}
    /\ busy \in Subs \cup {None}
    /\ count \in [Subs -> 0 .. MaxMsgs]
    /\ src \in [Subs -> Seq(Msg)]
    /\ srcClosed \in [Subs -> BOOLEAN]
    /\ delivered \in [Subs -> Seq(Msg)]

\* The bridge holds a message while it sends; the loop delivers one it took.
InHand ==
    /\ \A s \in Subs : bpc[s] = "send" => held[s] \in Msg
    /\ \A s \in Subs : busy = s => count[s] > 0

TypeInv == ConnTypes /\ CallTypes /\ BridgeTypes /\ GoTypes /\ InHand

LEMMA TypeInvTypes == TypeInv => TypeOK
BY DEF TypeInv, ConnTypes, CallTypes, BridgeTypes, GoTypes, TypeOK

LEMMA TypeInvInit == Init => TypeInv
<1> SUFFICES ASSUME Init PROVE TypeInv
    OBVIOUS
<1> USE StompAssumption DEF Init
<1>1. ConnTypes
    BY DEF ConnTypes
<1>2. CallTypes
    BY DEF CallTypes
<1>3. BridgeTypes
    BY DEF BridgeTypes
<1>4. GoTypes
    BY DEF GoTypes
<1>5. InHand
    BY DEF InHand
<1>6. QED
    BY <1>1, <1>2, <1>3, <1>4, <1>5 DEF TypeInv

\* Everything a subscription delivers is a message or an error.
LEMMA ErrsAreMsgs == End \in Msg /\ Late \in Msg /\ Errs \subseteq Msg
BY DEF Msg, Errs

LEMMA MessageIsMsg == \A n \in 1 .. MaxMsgs : <<"msg", n>> \in Msg
BY DEF Msg

\* Steps of Unsubscribe, and of go-stomp's part in it.
LEMMA CallTypeStep ==
    ASSUME TypeInv, NEW s \in Subs, NEW k \in Calls,
           (k \in Callers /\ Unsubscribe(s, k)) \/ OnceStep(s, k) \/ Wire(s, k)
    PROVE  ConnTypes' /\ CallTypes'
<1> USE DEF TypeInv, ConnTypes, CallTypes
<1>1. CASE k \in Callers /\ Unsubscribe(s, k)
    BY <1>1 DEF Unsubscribe, connVars
<1>2. CASE OnceRun(s, k)
    BY <1>2 DEF OnceRun, connVars
<1>3. CASE OnceReturn(s, k)
    BY <1>3 DEF OnceReturn, connVars
<1>4. CASE BeginUnsubscribe(s, k)
    BY <1>4 DEF BeginUnsubscribe
<1>5. CASE RefuseUnsubscribe(s, k)
    BY <1>5 DEF RefuseUnsubscribe, OnceDone, connVars
<1>6. CASE Wire(s, k)
    <2>1. PICK r \in {"ok", "error"} : EndUnsubscribe(s, k, r) /\ ctx' = ctx
        BY <1>6 DEF Wire, WireReceipt, WireEnded, WireTimeout
    <2>2. QED
        BY <2>1 DEF EndUnsubscribe, OnceDone
<1>7. QED
    BY <1>1, <1>2, <1>3, <1>4, <1>5, <1>6 DEF OnceStep

\* Sending on go-stomp's channel.
LEMMA PushTypes ==
    ASSUME TypeInv, NEW s \in Subs, NEW m \in Msg, Push(s, m)
    PROVE  /\ src' \in [Subs -> Seq(Msg)]
           /\ delivered' \in [Subs -> Seq(Msg)]
BY DEF TypeInv, GoTypes, Push

LEMMA WireTypeStep ==
    ASSUME TypeInv, NEW s \in Subs, NEW k \in Calls, Wire(s, k)
    PROVE  BridgeTypes' /\ GoTypes' /\ InHand'
<1>1. BridgeTypes' /\ bpc' = bpc /\ held' = held
    BY DEF TypeInv, BridgeTypes, Wire, WireReceipt, WireEnded, WireTimeout,
       bridgeVars
<1>2. loop' = loop /\ busy' = busy /\ count' = count
    BY DEF Wire, WireReceipt, WireEnded, WireTimeout, goVars
<1>3. CASE WireTimeout(s, k)
    BY <1>1, <1>2, <1>3, PushTypes, ErrsAreMsgs
    DEF WireTimeout, TypeInv, GoTypes, InHand
<1>4. CASE WireReceipt(s, k) \/ \E r \in {"ok", "error"} : WireEnded(s, k, r)
    BY <1>1, <1>2, <1>4 DEF WireReceipt, WireEnded, goVars, TypeInv, GoTypes,
       InHand
<1>5. QED
    BY <1>3, <1>4 DEF Wire

LEMMA TypeInvStep == TypeInv /\ [Next]_vars => TypeInv'
<1> SUFFICES ASSUME TypeInv, [Next]_vars PROVE TypeInv'
    OBVIOUS
<1>1. ASSUME NEW s \in Subs, Subscribe(s) PROVE TypeInv'
    BY <1>1 DEF Subscribe, connVars, callVars, goVars, TypeInv, ConnTypes,
       CallTypes, BridgeTypes, GoTypes, InHand
<1>2. ASSUME NEW s \in Subs, CtxDone(s) PROVE TypeInv'
    BY <1>2 DEF CtxDone, connVars, callVars, bridgeVars, goVars, TypeInv,
       ConnTypes, CallTypes, BridgeTypes, GoTypes, InHand
<1>3. ASSUME NEW s \in Subs, NEW k \in Calls,
             (k \in Callers /\ Unsubscribe(s, k)) \/ OnceStep(s, k)
      PROVE  TypeInv'
    <2>1. UNCHANGED <<bridgeVars, goVars>>
        BY <1>3 DEF Unsubscribe, OnceStep, OnceRun, OnceReturn,
           BeginUnsubscribe, RefuseUnsubscribe
    <2>2. BridgeTypes' /\ GoTypes' /\ InHand'
        BY <2>1 DEF bridgeVars, goVars, TypeInv, BridgeTypes, GoTypes, InHand
    <2>3. QED
        BY <1>3, <2>2, CallTypeStep DEF TypeInv
<1>4. ASSUME NEW s \in Subs, NEW k \in Calls, Wire(s, k) PROVE TypeInv'
    BY <1>4, CallTypeStep, WireTypeStep DEF TypeInv
<1>5. ASSUME NEW s \in Subs, LoopTake(s) PROVE TypeInv'
    <2>1. ConnTypes' /\ CallTypes' /\ BridgeTypes'
        BY <1>5 DEF LoopTake, connVars, callVars, bridgeVars, TypeInv,
           ConnTypes, CallTypes, BridgeTypes
    <2>2. GoTypes' /\ InHand'
        BY <1>5, StompAssumption DEF LoopTake, bridgeVars, TypeInv, GoTypes,
           InHand
    <2>3. QED
        BY <2>1, <2>2 DEF TypeInv
<1>6. ASSUME NEW s \in Subs, LoopDeliver(s) \/ LoopEndSub(s) PROVE TypeInv'
    <2>1. ConnTypes' /\ CallTypes' /\ BridgeTypes'
        BY <1>6 DEF LoopDeliver, LoopEndSub, connVars, callVars, bridgeVars,
           TypeInv, ConnTypes, CallTypes, BridgeTypes
    <2>2. count[s] > 0 => <<"msg", count[s]>> \in Msg
        BY MessageIsMsg, StompAssumption DEF TypeInv, GoTypes
    <2>3. PICK m \in Msg : Push(s, m)
        BY <1>6, <2>2, ErrsAreMsgs DEF LoopDeliver, LoopEndSub, TypeInv, InHand
    <2>4. /\ src' \in [Subs -> Seq(Msg)]
          /\ delivered' \in [Subs -> Seq(Msg)]
        BY <2>3, PushTypes
    <2>5. GoTypes'
        BY <1>6, <2>4 DEF LoopDeliver, LoopEndSub, TypeInv, GoTypes
    <2>6. InHand'
        BY <1>6, StompAssumption DEF LoopDeliver, LoopEndSub, bridgeVars,
           TypeInv, InHand
    <2>7. QED
        BY <2>1, <2>5, <2>6 DEF TypeInv
<1>7. ASSUME LoopStep PROVE TypeInv'
    <2>1. UNCHANGED <<callVars, ctx, bridgeVars>>
        BY <1>7 DEF LoopStep, LoopTakeDisconnect, LoopEnd, LoopEndDisconnect,
           LoopBlocks
    <2>2. CallTypes' /\ BridgeTypes'
        BY <2>1 DEF callVars, bridgeVars, TypeInv, CallTypes, BridgeTypes
    <2>3. ConnTypes' /\ GoTypes'
        BY <1>7 DEF LoopStep, LoopTakeDisconnect, LoopEnd, LoopEndDisconnect,
           LoopBlocks, connVars, goVars, TypeInv, ConnTypes, GoTypes
    <2>4. InHand'
        BY <1>7, <2>1 DEF LoopStep, LoopTakeDisconnect, LoopEnd,
           LoopEndDisconnect, LoopBlocks, bridgeVars, goVars, TypeInv, InHand
    <2>5. QED
        BY <2>2, <2>3, <2>4 DEF TypeInv
<1>8. ASSUME NEW s \in Subs, BridgeDiscard(s) \/ BridgeReceive(s) PROVE TypeInv'
    <2>1. ConnTypes' /\ CallTypes'
        BY <1>8 DEF BridgeDiscard, BridgeReceive, callVars, TypeInv, ConnTypes,
           CallTypes
    <2>2. Head(src[s]) \in Msg /\ Tail(src[s]) \in Seq(Msg)
        BY <1>8 DEF BridgeDiscard, BridgeReceive, TypeInv, GoTypes
    <2>3. GoTypes'
        BY <1>8, <2>2 DEF BridgeDiscard, BridgeReceive, TypeInv, GoTypes
    <2>4. BridgeTypes' /\ InHand'
        BY <1>8, <2>2 DEF BridgeDiscard, BridgeReceive, bridgeVars, TypeInv,
           BridgeTypes, InHand
    <2>5. QED
        BY <2>1, <2>3, <2>4 DEF TypeInv
<1>9. ASSUME NEW s \in Subs, BridgeReturn(s) \/ BridgeStop(s) PROVE TypeInv'
    <2>1. ConnTypes' /\ CallTypes' /\ GoTypes'
        BY <1>9 DEF BridgeReturn, BridgeStop, connVars, callVars, goVars,
           TypeInv, ConnTypes, CallTypes, GoTypes
    <2>2. BridgeTypes' /\ InHand'
        BY <1>9 DEF BridgeReturn, BridgeStop, EndOut, goVars, TypeInv,
           BridgeTypes, InHand
    <2>3. QED
        BY <2>1, <2>2 DEF TypeInv
<1>10. ASSUME NEW s \in Subs, BridgeDone(s) PROVE TypeInv'
    <2>1. ConnTypes' /\ CallTypes'
        BY <1>10 DEF BridgeDone, connVars, TypeInv, ConnTypes, CallTypes, Calls
    <2>2. BridgeTypes' /\ GoTypes' /\ InHand'
        BY <1>10 DEF BridgeDone, EndOut, goVars, TypeInv, BridgeTypes, GoTypes,
           InHand
    <2>3. QED
        BY <2>1, <2>2 DEF TypeInv
<1>11. ASSUME NEW s \in Subs, BridgeSend(s) PROVE TypeInv'
    <2>1. ConnTypes' /\ CallTypes' /\ GoTypes'
        BY <1>11 DEF BridgeSend, connVars, callVars, goVars, TypeInv, ConnTypes,
           CallTypes, GoTypes
    <2>2. held[s] \in Msg
        BY <1>11 DEF BridgeSend, TypeInv, InHand
    <2>3. BridgeTypes' /\ InHand'
        BY <1>11, <2>2, StompAssumption DEF BridgeSend, ChanRoom, goVars,
           TypeInv, BridgeTypes, InHand
    <2>4. QED
        BY <2>1, <2>3 DEF TypeInv
<1>12. ASSUME NEW s \in Subs, Consume(s) PROVE TypeInv'
    <2>1. ConnTypes' /\ CallTypes' /\ GoTypes' /\ InHand'
        BY <1>12 DEF Consume, connVars, callVars, goVars, TypeInv, ConnTypes,
           CallTypes, GoTypes, InHand
    <2>2. Tail(ch[s]) \in Seq(Msg) /\ Len(Tail(ch[s])) <= ChanBuf
        BY <1>12, StompAssumption DEF Consume, TypeInv, BridgeTypes
    <2>3. BridgeTypes'
        BY <1>12, <2>2 DEF Consume, TypeInv, BridgeTypes
    <2>4. QED
        BY <2>1, <2>3 DEF TypeInv
<1>13. ASSUME DisconnectStep PROVE TypeInv'
    <2>1. UNCHANGED <<callVars, ctx, bridgeVars, goVars>>
        BY <1>13 DEF DisconnectStep, DisconnectBegin, DisconnectMust,
           DisconnectSend, DisconnectReceipt, DisconnectTimer, DisconnectTimeout
    <2>2. CallTypes' /\ BridgeTypes' /\ GoTypes' /\ InHand'
        BY <2>1 DEF callVars, bridgeVars, goVars, TypeInv, CallTypes,
           BridgeTypes, GoTypes, InHand
    <2>3. ConnTypes'
        BY <1>13 DEF DisconnectStep, DisconnectBegin, DisconnectMust,
           DisconnectSend, DisconnectReceipt, DisconnectTimer,
           DisconnectTimeout, TypeInv, ConnTypes
    <2>4. QED
        BY <2>2, <2>3 DEF TypeInv
<1>14. CASE UNCHANGED vars
    BY <1>14 DEF vars, connVars, callVars, bridgeVars, goVars, TypeInv,
       ConnTypes, CallTypes, BridgeTypes, GoTypes, InHand
<1>15. \A k \in Callers : k \in Calls
    BY DEF Calls
<1>16. QED
    BY <1>1, <1>2, <1>3, <1>4, <1>5, <1>6, <1>7, <1>8, <1>9, <1>10, <1>11,
       <1>12, <1>13, <1>14, <1>15
    DEF Next, Bridge

\* The transport's variables keep their types, and C() its capacity.
THEOREM TypeCorrect == Spec => []TypeOK
<1>1. QED
    BY TypeInvInit, TypeInvStep, TypeInvTypes, PTL DEF Spec

-----------------------------------------------------------------------------
(***************************************************************************)
(* One attempt to unsubscribe, and none under a Disconnect                 *)
(***************************************************************************)

\* The calls of Unsubscribe on s against the state of its sync.Once.  The call
\* that ctx makes is made at most once, because it is made as out is closed.
OnceInv(s) ==
    /\ once[s] = "free" => \A k \in Calls : call[s][k] \in {"none", "once"}
    /\ once[s] = "running" => \A k \in Calls : call[s][k] # "returned"
    /\ once[s] = "done" => \A k \in Calls : call[s][k] \notin {"gate", "wire"}
    /\ \A k, l \in Calls :
          call[s][k] \in {"gate", "wire"} /\ call[s][l] \in {"gate", "wire"}
              => k = l
    /\ \A k \in Calls : call[s][k] = "returned" => result[s][k] = err[s]
    /\ out[s] = "open" => call[s][CtxCaller] = "none"

\* The gate: what is under way in go-stomp is counted, and Disconnect goes on
\* only when nothing is counted and nothing more can be.
GateInv ==
    /\ \A s \in Subs : \A k \in Calls : call[s][k] = "wire" => s \in unsubs
    /\ dpc # "idle" => closing
    /\ dpc \in {"receipt", "closed", "failed"} => unsubs = {}

\* Steps that leave the calls alone.
Elsewhere(s) ==
    \/ Subscribe(s) \/ CtxDone(s)
    \/ LoopTake(s) \/ LoopDeliver(s) \/ LoopEndSub(s)
    \/ BridgeDiscard(s) \/ BridgeReceive(s) \/ BridgeReturn(s) \/ BridgeSend(s)
    \/ BridgeStop(s)
    \/ Consume(s)

LEMMA ElsewhereFrame ==
    ASSUME TypeInv, NEW s \in Subs, Elsewhere(s)
    PROVE  /\ UNCHANGED <<callVars, closing, unsubs, dpc>>
           /\ \A r \in Subs : out'[r] = "open" => out[r] = "open"
<1>1. CASE Subscribe(s) \/ CtxDone(s) \/ Consume(s)
    BY <1>1 DEF Subscribe, CtxDone, Consume, connVars, bridgeVars
<1>2. CASE LoopTake(s) \/ LoopDeliver(s) \/ LoopEndSub(s)
    BY <1>2 DEF LoopTake, LoopDeliver, LoopEndSub, connVars, bridgeVars
<1>3. CASE BridgeDiscard(s) \/ BridgeReceive(s)
    BY <1>3 DEF BridgeDiscard, BridgeReceive, bridgeVars
<1>4. CASE BridgeReturn(s) \/ BridgeSend(s) \/ BridgeStop(s)
    BY <1>4 DEF BridgeReturn, BridgeSend, BridgeStop, EndOut, connVars,
       TypeInv, BridgeTypes
<1>5. QED
    BY <1>1, <1>2, <1>3, <1>4 DEF Elsewhere

LEMMA DisconnectFrame ==
    ASSUME LoopStep \/ DisconnectStep
    PROVE  UNCHANGED <<callVars, unsubs, out>>
BY DEF LoopStep, LoopTakeDisconnect, LoopEnd, LoopEndDisconnect, LoopBlocks,
   connVars, DisconnectStep, DisconnectBegin, DisconnectMust, DisconnectSend,
   DisconnectReceipt, DisconnectTimer, DisconnectTimeout, bridgeVars

\* What go-stomp's Unsubscribe does to the call, however it ends.
LEMMA WireFrame ==
    ASSUME NEW s \in Subs, NEW k \in Calls, Wire(s, k)
    PROVE  /\ call[s][k] = "wire"
           /\ \E r \in {"ok", "error"} : EndUnsubscribe(s, k, r)
           /\ UNCHANGED <<ctx, out>>
BY DEF Wire, WireReceipt, WireEnded, WireTimeout, bridgeVars

LEMMA OnceInvStep ==
    ASSUME TypeInv, [Next]_vars, NEW s \in Subs, OnceInv(s)
    PROVE  OnceInv(s)'
<1>0. /\ once \in [Subs -> {"free", "running", "done"}]
      /\ err \in [Subs -> {"none", "ok", "error", "disconnected"}]
      /\ call \in [Subs -> [Calls -> {"none", "once", "gate", "wire", "returned"}]]
      /\ result \in [Subs -> [Calls -> {"none", "ok", "error", "disconnected"}]]
    BY DEF TypeInv, CallTypes
<1>00. CtxCaller \in Calls /\ \A k \in Callers : k # CtxCaller /\ k \in Calls
    BY StompAssumption DEF Calls
<1>1. ASSUME UNCHANGED callVars, out'[s] = "open" => out[s] = "open"
      PROVE  OnceInv(s)'
    BY <1>1 DEF OnceInv, callVars
<1>2. ASSUME NEW r \in Subs, Elsewhere(r) PROVE OnceInv(s)'
    BY <1>1, <1>2, ElsewhereFrame
<1>3. ASSUME LoopStep \/ DisconnectStep PROVE OnceInv(s)'
    BY <1>1, <1>3, DisconnectFrame
<1>4. ASSUME NEW r \in Subs, NEW k \in Callers, Unsubscribe(r, k)
      PROVE  OnceInv(s)'
    BY <1>0, <1>00, <1>4 DEF Unsubscribe, OnceInv, bridgeVars
<1>5. ASSUME NEW r \in Subs, NEW k \in Calls, OnceRun(r, k)
      PROVE  OnceInv(s)'
    <2>1. CASE r = s
        <3>1. \A l \in Calls : call[s][l] \in {"none", "once"}
            BY <1>5, <2>1 DEF OnceRun, OnceInv
        <3>2. /\ once'[s] = "running" /\ out' = out
              /\ call'[s][k] = "gate"
              /\ \A l \in Calls \ {k} : call'[s][l] = call[s][l]
            BY <1>0, <1>5, <2>1 DEF OnceRun, bridgeVars
        <3>3. k = CtxCaller => out[s] # "open"
            BY <1>5, <2>1 DEF OnceRun, OnceInv
        <3>4. QED
            BY <1>00, <3>1, <3>2, <3>3 DEF OnceInv
    <2>2. CASE r # s
        BY <1>0, <1>5, <2>2 DEF OnceRun, OnceInv, bridgeVars
    <2>3. QED
        BY <2>1, <2>2
<1>6. ASSUME NEW r \in Subs, NEW k \in Calls, OnceReturn(r, k)
      PROVE  OnceInv(s)'
    <2>1. CASE r = s
        <3>1. /\ once[s] = "done" /\ once'[s] = "done" /\ out' = out
              /\ err' = err
              /\ call'[s][k] = "returned" /\ result'[s][k] = err[s]
              /\ \A l \in Calls \ {k} : /\ call'[s][l] = call[s][l]
                                        /\ result'[s][l] = result[s][l]
            BY <1>0, <1>6, <2>1 DEF OnceReturn, bridgeVars
        <3>2. k = CtxCaller => out[s] # "open"
            BY <1>6, <2>1 DEF OnceReturn, OnceInv
        <3>3. QED
            BY <1>00, <3>1, <3>2 DEF OnceInv
    <2>2. CASE r # s
        BY <1>0, <1>6, <2>2 DEF OnceReturn, OnceInv, bridgeVars
    <2>3. QED
        BY <2>1, <2>2
<1>7. ASSUME NEW r \in Subs, NEW k \in Calls, BeginUnsubscribe(r, k)
      PROVE  OnceInv(s)'
    <2>1. CASE r = s
        <3>1. /\ once' = once /\ out' = out /\ err' = err /\ result' = result
              /\ call[s][k] = "gate" /\ call'[s][k] = "wire"
              /\ \A l \in Calls \ {k} : call'[s][l] = call[s][l]
            BY <1>0, <1>7, <2>1 DEF BeginUnsubscribe, bridgeVars
        <3>2. QED
            BY <1>00, <3>1 DEF OnceInv
    <2>2. CASE r # s
        BY <1>0, <1>7, <2>2 DEF BeginUnsubscribe, OnceInv, bridgeVars
    <2>3. QED
        BY <2>1, <2>2
<1>8. ASSUME NEW r \in Subs, NEW k \in Calls, NEW x,
             call[r][k] \in {"gate", "wire"}, OnceDone(r, k, x), out' = out
      PROVE  OnceInv(s)'
    <2>1. CASE r = s
        <3>1. /\ once'[s] = "done" /\ err'[s] = x
              /\ call'[s][k] = "returned" /\ result'[s][k] = x
              /\ \A l \in Calls \ {k} : /\ call'[s][l] = call[s][l]
                                        /\ result'[s][l] = result[s][l]
            BY <1>0, <1>8, <2>1 DEF OnceDone
        <3>2. \A l \in Calls \ {k} : call[s][l] \notin {"gate", "wire", "returned"}
            BY <1>0, <1>8, <2>1 DEF OnceInv
        <3>3. k = CtxCaller => out[s] # "open"
            BY <1>8, <2>1 DEF OnceInv
        <3>4. QED
            BY <1>00, <1>8, <3>1, <3>2, <3>3 DEF OnceInv
    <2>2. CASE r # s
        BY <1>0, <1>8, <2>2 DEF OnceDone, OnceInv
    <2>3. QED
        BY <2>1, <2>2
<1>9. ASSUME NEW r \in Subs, NEW k \in Calls, RefuseUnsubscribe(r, k) \/ Wire(r, k)
      PROVE  OnceInv(s)'
    BY <1>8, <1>9, WireFrame DEF RefuseUnsubscribe, EndUnsubscribe, bridgeVars
<1>10. ASSUME NEW r \in Subs, BridgeDone(r) PROVE OnceInv(s)'
    <2>1. CASE r = s
        <3>1. /\ once' = once /\ err' = err /\ result' = result
              /\ call[s][CtxCaller] = "none" /\ call'[s][CtxCaller] = "once"
              /\ \A l \in Calls \ {CtxCaller} : call'[s][l] = call[s][l]
            BY <1>0, <1>00, <1>10, <2>1 DEF BridgeDone, OnceInv
        <3>2. out'[s] = "closed"
            BY <1>10, <2>1 DEF BridgeDone, EndOut, TypeInv, BridgeTypes
        <3>3. QED
            BY <1>00, <3>1, <3>2 DEF OnceInv
    <2>2. CASE r # s
        <3>1. /\ UNCHANGED <<once, err, result>>
              /\ call'[s] = call[s]
              /\ out'[s] = out[s]
            BY <1>0, <1>10, <2>2
            DEF BridgeDone, EndOut, TypeInv, BridgeTypes
        <3>2. QED
            BY <3>1 DEF OnceInv
    <2>3. QED
        BY <2>1, <2>2
<1>11. CASE UNCHANGED vars
    BY <1>1, <1>11 DEF vars, bridgeVars
<1>12. QED
    BY <1>2, <1>3, <1>4, <1>5, <1>6, <1>7, <1>9, <1>10, <1>11
    DEF Next, OnceStep, Bridge, Elsewhere

LEMMA GateInvStep ==
    ASSUME TypeInv, [Next]_vars, GateInv, \A s \in Subs : OnceInv(s)
    PROVE  GateInv'
<1>0. /\ call \in [Subs -> [Calls -> {"none", "once", "gate", "wire", "returned"}]]
      /\ unsubs \in SUBSET Subs
    BY DEF TypeInv, CallTypes, ConnTypes
<1>00. CtxCaller \in Calls /\ \A k \in Callers : k \in Calls
    BY DEF Calls
<1>1. ASSUME UNCHANGED <<closing, unsubs, dpc>>,
             \A r \in Subs : \A k \in Calls :
                 call'[r][k] = "wire" => call[r][k] = "wire"
      PROVE  GateInv'
    BY <1>1 DEF GateInv
<1>2. ASSUME NEW r \in Subs, Elsewhere(r) PROVE GateInv'
    BY <1>1, <1>2, ElsewhereFrame DEF callVars
<1>3. ASSUME NEW r \in Subs, NEW k \in Calls,
             \/ k \in Callers /\ Unsubscribe(r, k)
             \/ OnceRun(r, k) \/ OnceReturn(r, k) \/ RefuseUnsubscribe(r, k)
      PROVE  GateInv'
    <2>1. UNCHANGED <<closing, unsubs, dpc>>
        BY <1>3 DEF Unsubscribe, OnceRun, OnceReturn, RefuseUnsubscribe,
           connVars
    <2>2. PICK x \in {"once", "gate", "returned"} :
              call' = [call EXCEPT ![r][k] = x]
        BY <1>3 DEF Unsubscribe, OnceRun, OnceReturn, RefuseUnsubscribe,
           OnceDone
    <2>3. QED
        BY <1>0, <1>1, <2>1, <2>2
<1>4. ASSUME NEW r \in Subs, BridgeDone(r) PROVE GateInv'
    BY <1>0, <1>00, <1>1, <1>4 DEF BridgeDone, connVars
<1>5. ASSUME NEW r \in Subs, NEW k \in Calls, BeginUnsubscribe(r, k)
      PROVE  GateInv'
    <2>1. dpc = "idle" /\ dpc' = dpc
        BY <1>5 DEF BeginUnsubscribe, GateInv
    <2>2. \A s \in Subs : \A l \in Calls : call'[s][l] = "wire" => s \in unsubs'
        BY <1>0, <1>5 DEF BeginUnsubscribe, GateInv
    <2>3. QED
        BY <2>1, <2>2 DEF GateInv
<1>6. ASSUME NEW r \in Subs, NEW k \in Calls, Wire(r, k) PROVE GateInv'
    <2>1. /\ call[r][k] = "wire"
          /\ call' = [call EXCEPT ![r][k] = "returned"]
          /\ unsubs' = unsubs \ {r}
          /\ UNCHANGED <<closing, dpc>>
        BY <1>6, WireFrame DEF EndUnsubscribe, OnceDone
    <2>2. \A l \in Calls : call'[r][l] # "wire"
        BY <1>0, <2>1 DEF OnceInv
    <2>3. \A s \in Subs \ {r} : call'[s] = call[s]
        BY <1>0, <2>1
    <2>4. QED
        BY <2>1, <2>2, <2>3 DEF GateInv
<1>7. ASSUME LoopStep PROVE GateInv'
    BY <1>7, DisconnectFrame DEF LoopStep, LoopTakeDisconnect, LoopEnd,
       LoopEndDisconnect, LoopBlocks, GateInv, callVars, connVars
<1>8. ASSUME DisconnectStep PROVE GateInv'
    <2>1. UNCHANGED <<call, unsubs>>
        BY <1>8, DisconnectFrame DEF callVars
    <2>2. QED
        BY <1>8, <2>1 DEF DisconnectStep, DisconnectBegin, DisconnectMust,
           DisconnectSend, DisconnectReceipt, DisconnectTimer,
           DisconnectTimeout, UnsubsDone, GateInv
<1>9. CASE UNCHANGED vars
    BY <1>1, <1>9 DEF vars, connVars, callVars
<1>10. QED
    BY <1>00, <1>2, <1>3, <1>4, <1>5, <1>6, <1>7, <1>8, <1>9
    DEF Next, OnceStep, Bridge, Elsewhere

CallInv == TypeInv /\ GateInv /\ \A s \in Subs : OnceInv(s)

LEMMA CallInvariant == Spec => []CallInv
<1>1. Init => CallInv
    <2> SUFFICES ASSUME Init PROVE CallInv
        OBVIOUS
    <2>1. GateInv /\ \A s \in Subs : OnceInv(s)
        BY DEF Init, GateInv, OnceInv, Calls
    <2>2. QED
        BY <2>1, TypeInvInit DEF CallInv
<1>2. CallInv /\ [Next]_vars => CallInv'
    BY TypeInvStep, OnceInvStep, GateInvStep DEF CallInv
<1>3. QED
    BY <1>1, <1>2, PTL DEF Spec

\* Disconnect works on the connection only while no go-stomp Unsubscribe is
\* under way, whoever unsubscribes and whenever Disconnect is called.
THEOREM NeverClosedUnderUnsubscribe == Spec => []NoUnsubscribeUnderClose
<1>1. CallInv => NoUnsubscribeUnderClose
    BY DEF CallInv, GateInv, NoUnsubscribeUnderClose
<1>2. QED
    BY <1>1, CallInvariant, PTL

\* Unsubscribe is attempted once, and every call returns that attempt's result.
THEOREM UnsubscribesOnce == Spec => []OneAttempt
<1>1. CallInv => OneAttempt
    BY DEF CallInv, TypeInv, CallTypes, OnceInv, OneAttempt
<1>2. QED
    BY <1>1, CallInvariant, PTL

-----------------------------------------------------------------------------
(***************************************************************************)
(* What passes through a bridge                                            *)
(***************************************************************************)

\* The sequence q is what is left of the end of d.
Suffix(q, d) ==
    /\ Len(q) <= Len(d)
    /\ \A i \in 1 .. Len(q) : q[i] = d[(Len(d) - Len(q)) + i]

LEMMA SuffixAppend ==
    ASSUME NEW S, NEW q \in Seq(S), NEW d \in Seq(S), NEW m \in S, Suffix(q, d)
    PROVE  /\ Suffix(Append(q, m), Append(d, m))
           /\ Len(Append(d, m)) - Len(Append(q, m)) = Len(d) - Len(q)
<1> DEFINE a == Len(d)
           b == Len(q)
<1>1. /\ a \in Nat /\ b \in Nat /\ b <= a
      /\ \A i \in 1 .. b : q[i] = d[(a - b) + i]
    BY DEF Suffix
<1>2. Len(Append(d, m)) = a + 1 /\ Len(Append(q, m)) = b + 1
    OBVIOUS
<1>3. /\ \A i \in 1 .. a : Append(d, m)[i] = d[i]
      /\ \A i \in 1 .. b : Append(q, m)[i] = q[i]
      /\ Append(d, m)[a + 1] = m /\ Append(q, m)[b + 1] = m
    OBVIOUS
<1> HIDE DEF a, b
<1>4. ASSUME NEW i \in 1 .. b + 1
      PROVE  Append(q, m)[i] = Append(d, m)[(a - b) + i]
    <2>1. CASE i = b + 1
        <3>1. (a - b) + i = a + 1
            BY <1>1, <2>1
        <3>2. QED
            BY <1>3, <2>1, <3>1
    <2>2. CASE i # b + 1
        <3>1. i \in 1 .. b /\ (a - b) + i \in 1 .. a
            BY <1>1, <2>2
        <3>2. QED
            BY <1>1, <1>3, <3>1
    <2>3. QED
        BY <2>1, <2>2
<1>5. (a + 1) - (b + 1) = a - b
    BY <1>1
<1>6. b + 1 <= a + 1
    BY <1>1
<1>7. Suffix(Append(q, m), Append(d, m))
    BY <1>2, <1>4, <1>5, <1>6 DEF Suffix
<1>8. QED
    BY <1>2, <1>5, <1>7 DEF a, b

LEMMA SuffixTail ==
    ASSUME NEW S, NEW q \in Seq(S), NEW d \in Seq(S), q # <<>>, Suffix(q, d)
    PROVE  /\ Suffix(Tail(q), d)
           /\ Len(d) - Len(q) \in Nat
           /\ Len(d) - Len(Tail(q)) = (Len(d) - Len(q)) + 1
           /\ (Len(d) - Len(q)) + 1 \in 1 .. Len(d)
           /\ Head(q) = d[(Len(d) - Len(q)) + 1]
<1> DEFINE a == Len(d)
           b == Len(q)
<1>1. /\ a \in Nat /\ b \in Nat /\ b <= a /\ b > 0
      /\ \A i \in 1 .. b : q[i] = d[(a - b) + i]
    BY DEF Suffix
<1>2. /\ Len(Tail(q)) = b - 1
      /\ Head(q) = q[1]
      /\ \A i \in 1 .. b - 1 : Tail(q)[i] = q[i + 1]
    OBVIOUS
<1> HIDE DEF a, b
<1>3. /\ a - b \in Nat /\ a - (b - 1) = (a - b) + 1
      /\ (a - b) + 1 \in 1 .. a
      /\ 1 \in 1 .. b
    BY <1>1
<1>4. ASSUME NEW i \in 1 .. b - 1
      PROVE  Tail(q)[i] = d[(a - (b - 1)) + i]
    <2>1. i + 1 \in 1 .. b /\ (a - b) + (i + 1) = (a - (b - 1)) + i
        BY <1>1
    <2>2. QED
        BY <1>1, <1>2, <2>1
<1>5. b - 1 <= a
    BY <1>1
<1>6. Suffix(Tail(q), d)
    BY <1>2, <1>4, <1>5 DEF Suffix, a, b
<1>7. QED
    BY <1>1, <1>2, <1>3, <1>6 DEF a, b

\* How much of what go-stomp delivered to s the bridge has taken.
Taken(s) == Len(delivered[s]) - Len(src[s])

\* forwarded is a part of what was taken, and while out is open all of it but
\* for the message in hand.
Passed(s) ==
    /\ Len(forwarded[s]) <= Taken(s)
    /\ \A i \in 1 .. Len(forwarded[s]) : forwarded[s][i] = delivered[s][i]
    /\ \A i \in 1 .. Len(forwarded[s]) :
          forwarded[s][i] \in Errs => i = Len(forwarded[s]) /\ out[s] = "closed"
    /\ out[s] = "open" /\ bpc[s] # "send" => Len(forwarded[s]) = Taken(s)
    /\ bpc[s] = "send" =>
          /\ out[s] = "open"
          /\ Len(forwarded[s]) + 1 = Taken(s)
          /\ held[s] = delivered[s][Taken(s)]

\* src holds the part of delivered that the bridge has not taken, the bridge
\* passed on the rest, and an ERROR frame in it is what c.ended says.
Stream(s) ==
    /\ Suffix(src[s], delivered[s])
    /\ Passed(s)
    /\ \A i \in 1 .. Len(delivered[s]) :
          delivered[s][i] = End => loop # "up" /\ (i <= Taken(s) => ended)

\* Nothing that the stream of s depends on has changed, but that the loop has
\* ended or its end is known.
LEMMA StreamFrame ==
    ASSUME NEW s \in Subs, Stream(s), TypeInv,
           src'[s] = src[s], delivered'[s] = delivered[s],
           forwarded'[s] = forwarded[s], held'[s] = held[s], bpc'[s] = bpc[s],
           out'[s] = out[s],
           ended => ended', loop # "up" => loop' # "up"
    PROVE  Stream(s)'
<1>1. Taken(s)' = Taken(s)
    BY DEF Taken
<1>2. Passed(s)'
    BY <1>1 DEF Stream, Passed
<1>3. QED
    BY <1>1, <1>2 DEF Stream, Suffix

\* Every message that go-stomp sends on the channel extends the stream.
LEMMA StreamPush ==
    ASSUME NEW s \in Subs, Stream(s), TypeInv, NEW m \in Msg, Push(s, m),
           UNCHANGED <<forwarded, held, bpc, out, ended, loop>>,
           m = End => loop # "up"
    PROVE  Stream(s)'
<1>0. /\ src[s] \in Seq(Msg) /\ delivered[s] \in Seq(Msg)
      /\ forwarded[s] \in Seq(Msg)
    BY DEF TypeInv, GoTypes, BridgeTypes
<1>1. src'[s] = Append(src[s], m) /\ delivered'[s] = Append(delivered[s], m)
    BY DEF Push, TypeInv, GoTypes
<1>2. Suffix(src[s], delivered[s]) /\ Passed(s)
    BY DEF Stream
<1>3. Suffix(src[s], delivered[s])' /\ Taken(s)' = Taken(s)
    <2>1. /\ Suffix(Append(src[s], m), Append(delivered[s], m))
          /\ Len(Append(delivered[s], m)) - Len(Append(src[s], m))
                = Len(delivered[s]) - Len(src[s])
        BY <1>0, <1>2, SuffixAppend
    <2>2. QED
        BY <1>1, <2>1 DEF Taken
<1>4. Taken(s) \in Nat /\ Taken(s) <= Len(delivered[s])
    <2>1. Len(src[s]) \in Nat /\ Len(delivered[s]) \in Nat
        BY <1>0
    <2>2. Len(src[s]) <= Len(delivered[s])
        BY <1>2 DEF Suffix
    <2>3. \A a, b \in Nat : b <= a => a - b \in Nat /\ a - b <= a
        OBVIOUS
    <2>4. QED
        BY <2>1, <2>2, <2>3, Zenon DEF Taken
<1>5. /\ Len(delivered'[s]) = Len(delivered[s]) + 1
      /\ Len(delivered[s]) \in Nat
      /\ \A i \in 1 .. Len(delivered[s]) : delivered'[s][i] = delivered[s][i]
      /\ delivered'[s][Len(delivered[s]) + 1] = m
    BY <1>0, <1>1
<1>6. Passed(s)'
    <2>1. Len(forwarded[s]) \in Nat
        BY <1>0
    <2>2. \A i \in 1 .. Len(forwarded[s]) : forwarded[s][i] = delivered'[s][i]
        BY <1>2, <1>4, <1>5, <2>1 DEF Passed
    <2>3. bpc[s] = "send" => held[s] = delivered'[s][Taken(s)]
        BY <1>2, <1>4, <1>5, <2>1 DEF Passed
    <2>4. QED
        BY <1>2, <1>3, <2>2, <2>3 DEF Passed
<1>7. ASSUME NEW i \in 1 .. Len(delivered'[s]), delivered'[s][i] = End
      PROVE  loop' # "up" /\ (i <= Taken(s)' => ended')
    <2>1. CASE i = Len(delivered[s]) + 1
        BY <1>3, <1>4, <1>5, <1>7, <2>1
    <2>2. CASE i # Len(delivered[s]) + 1
        <3>1. i \in 1 .. Len(delivered[s])
            BY <1>5, <2>2
        <3>2. QED
            BY <1>3, <1>5, <1>7, <3>1 DEF Stream
    <2>3. QED
        BY <2>1, <2>2
<1>8. QED
    BY <1>3, <1>6, <1>7 DEF Stream

\* The bridge takes a message: to send it, or to discard it.
LEMMA StreamTake ==
    ASSUME NEW s \in Subs, Stream(s), TypeInv,
           BridgeReceive(s) \/ BridgeDiscard(s)
    PROVE  Stream(s)' /\ (ended' => ended \/ loop # "up")
<1>0. /\ src[s] \in Seq(Msg) /\ delivered[s] \in Seq(Msg)
      /\ forwarded[s] \in Seq(Msg) /\ src[s] # <<>>
    BY DEF TypeInv, GoTypes, BridgeTypes, BridgeReceive, BridgeDiscard
<1>1. /\ src'[s] = Tail(src[s])
      /\ UNCHANGED <<delivered, forwarded, out, loop>>
      /\ ended' = (ended \/ Head(src[s]) = End)
    BY DEF BridgeReceive, BridgeDiscard, EndsConn, bridgeVars, TypeInv, GoTypes
<1>2. Suffix(src[s], delivered[s]) /\ Passed(s)
    BY DEF Stream
<1>3. /\ Suffix(src[s], delivered[s])'
      /\ Taken(s) \in Nat /\ Taken(s)' = Taken(s) + 1
      /\ Taken(s) + 1 \in 1 .. Len(delivered[s])
      /\ Head(src[s]) = delivered[s][Taken(s) + 1]
    BY <1>0, <1>1, <1>2, SuffixTail DEF Taken
<1>4. Len(forwarded[s]) \in Nat
    BY <1>0
<1>5. Passed(s)'
    <2>1. CASE BridgeReceive(s)
        <3>1. /\ bpc[s] = "select" /\ out[s] = "open"
              /\ bpc'[s] = "send" /\ held'[s] = Head(src[s])
            BY <2>1 DEF BridgeReceive, TypeInv, BridgeTypes
        <3>2. QED
            BY <1>1, <1>2, <1>3, <1>4, <3>1 DEF Passed
    <2>2. CASE BridgeDiscard(s)
        <3>1. bpc[s] = "select" /\ out[s] = "closed" /\ bpc'[s] = bpc[s]
            BY <2>2 DEF BridgeDiscard, bridgeVars
        <3>2. QED
            BY <1>1, <1>2, <1>3, <1>4, <3>1 DEF Passed
    <2>3. QED
        BY <2>1, <2>2
<1>6. ASSUME NEW i \in 1 .. Len(delivered[s]), delivered[s][i] = End
      PROVE  loop' # "up" /\ (i <= Taken(s)' => ended')
    <2>1. loop' # "up" /\ (i <= Taken(s) => ended)
        BY <1>1, <1>6 DEF Stream
    <2>2. i = Taken(s) + 1 => ended'
        BY <1>1, <1>3, <1>6
    <2>3. i <= Taken(s)' => i <= Taken(s) \/ i = Taken(s) + 1
        BY <1>3
    <2>4. QED
        BY <1>1, <2>1, <2>2, <2>3
<1>7. Head(src[s]) = End => loop # "up"
    BY <1>3 DEF Stream
<1>8. QED
    BY <1>1, <1>3, <1>5, <1>6, <1>7 DEF Stream

\* The bridge passes on the message in hand, or ends.
LEMMA StreamOut ==
    ASSUME NEW s \in Subs, Stream(s), TypeInv,
           BridgeSend(s) \/ BridgeReturn(s) \/ BridgeStop(s) \/ BridgeDone(s)
    PROVE  Stream(s)'
<1>0. /\ src[s] \in Seq(Msg) /\ delivered[s] \in Seq(Msg)
      /\ forwarded[s] \in Seq(Msg)
    BY DEF TypeInv, GoTypes, BridgeTypes
<1>1. UNCHANGED <<src, delivered, ended, loop>>
    BY DEF BridgeSend, BridgeReturn, BridgeStop, BridgeDone, connVars, goVars
<1>2. Taken(s)' = Taken(s)
    BY <1>1 DEF Taken
<1>3. Suffix(src[s], delivered[s]) /\ Passed(s)
    BY DEF Stream
<1>4. Len(forwarded[s]) \in Nat /\ Taken(s) \in Int
    BY <1>0 DEF Taken
<1>5. Passed(s)'
    <2>1. CASE BridgeSend(s)
        <3>1. /\ bpc[s] = "send" /\ bpc'[s] = "select"
              /\ held[s] \in Msg
              /\ out'[s] = (IF held[s] \in Errs THEN "closed" ELSE out[s])
              /\ forwarded'[s] = Append(forwarded[s], held[s])
            BY <2>1 DEF BridgeSend, TypeInv, BridgeTypes, InHand
        <3>2. /\ Len(forwarded[s]) + 1 = Taken(s) /\ out[s] = "open"
              /\ held[s] = delivered[s][Taken(s)]
              /\ \A i \in 1 .. Len(forwarded[s]) : forwarded[s][i] \notin Errs
            BY <1>3, <3>1 DEF Passed
        <3>3. /\ Len(forwarded'[s]) = Taken(s)
              /\ \A i \in 1 .. Len(forwarded[s]) :
                    forwarded'[s][i] = forwarded[s][i]
              /\ forwarded'[s][Taken(s)] = held[s]
            BY <1>0, <3>1, <3>2
        <3>4. \A i \in 1 .. Taken(s) :
                  i = Taken(s) \/ i \in 1 .. Len(forwarded[s])
            BY <1>4, <3>2
        <3>5. \A i \in 1 .. Taken(s) : forwarded'[s][i] = delivered[s][i]
            BY <1>3, <3>2, <3>3, <3>4 DEF Passed
        <3>6. \A i \in 1 .. Taken(s) :
                  forwarded'[s][i] \in Errs => i = Taken(s) /\ out'[s] = "closed"
            BY <3>1, <3>2, <3>3, <3>4
        <3>7. QED
            BY <1>1, <1>2, <1>4, <3>1, <3>3, <3>5, <3>6 DEF Passed
    <2>2. CASE BridgeReturn(s) \/ BridgeStop(s) \/ BridgeDone(s)
        <3>1. forwarded' = forwarded /\ out'[s] = "closed" /\ bpc'[s] # "send"
            BY <2>2 DEF BridgeReturn, BridgeStop, BridgeDone, EndOut, TypeInv,
               BridgeTypes
        <3>2. QED
            BY <1>1, <1>2, <1>3, <3>1 DEF Passed
    <2>3. QED
        BY <2>1, <2>2
<1>6. QED
    BY <1>1, <1>2, <1>5 DEF Stream, Suffix

\* Steps that touch no stream.
Aside(r) ==
    \/ Subscribe(r) \/ CtxDone(r) \/ LoopTake(r) \/ Consume(r)
    \/ \E k \in Calls :
          \/ k \in Callers /\ Unsubscribe(r, k)
          \/ OnceStep(r, k)
          \/ WireReceipt(r, k)
          \/ \E x \in {"ok", "error"} : WireEnded(r, k, x)

\* The state that the streams are made of, but for bpc.
streamVars == <<src, delivered, forwarded, held, out, ended, loop>>

LEMMA AsideFrame ==
    ASSUME NEW r \in Subs, Aside(r)
    PROVE  /\ UNCHANGED streamVars
           /\ bpc' = bpc \/ Subscribe(r)
<1>1. CASE Subscribe(r) \/ CtxDone(r) \/ LoopTake(r) \/ Consume(r)
    BY <1>1 DEF Subscribe, CtxDone, LoopTake, Consume, streamVars, connVars,
       bridgeVars, goVars
<1>2. ASSUME NEW k \in Calls, Unsubscribe(r, k) \/ OnceStep(r, k)
      PROVE  UNCHANGED streamVars /\ bpc' = bpc
    BY <1>2 DEF Unsubscribe, OnceStep, OnceRun, OnceReturn, BeginUnsubscribe,
       RefuseUnsubscribe, streamVars, connVars, bridgeVars, goVars
<1>3. ASSUME NEW k \in Calls, WireReceipt(r, k)
      PROVE  UNCHANGED streamVars /\ bpc' = bpc
    BY <1>3 DEF WireReceipt, EndUnsubscribe, streamVars, bridgeVars
<1>4. ASSUME NEW k \in Calls, NEW x \in {"ok", "error"}, WireEnded(r, k, x)
      PROVE  UNCHANGED streamVars /\ bpc' = bpc
    BY <1>4 DEF WireEnded, EndUnsubscribe, streamVars, bridgeVars, goVars
<1>5. QED
    BY <1>1, <1>2, <1>3, <1>4 DEF Aside

\* A new subscription's bridge waits with nothing in hand.
LEMMA StreamOpen ==
    ASSUME NEW s \in Subs, Stream(s), TypeInv, UNCHANGED streamVars,
           bpc[s] = "none", bpc'[s] = "select"
    PROVE  Stream(s)'
<1>1. Taken(s)' = Taken(s)
    BY DEF Taken, streamVars
<1>2. Passed(s)'
    BY <1>1 DEF Stream, Passed, streamVars
<1>3. QED
    BY <1>1, <1>2 DEF Stream, Suffix, streamVars

\* One step of subscription r leaves the stream of s in order.
LEMMA StreamSubStep ==
    ASSUME NEW s \in Subs, NEW r \in Subs, Stream(s), Stream(r), TypeInv,
           ended => loop # "up",
           \/ Aside(r)
           \/ LoopDeliver(r) \/ LoopEndSub(r)
           \/ \E k \in Calls : WireTimeout(r, k)
           \/ Bridge(r)
    PROVE  Stream(s)' /\ (ended' => loop' # "up")
<1>1. CASE Aside(r)
    <2>1. UNCHANGED streamVars /\ (bpc' = bpc \/ Subscribe(r))
        BY <1>1, AsideFrame
    <2>2. bpc'[s] = bpc[s] \/ (bpc[s] = "none" /\ bpc'[s] = "select")
        BY <2>1 DEF Subscribe, TypeInv, BridgeTypes
    <2>3. CASE bpc'[s] = bpc[s]
        BY <2>1, <2>3, StreamFrame DEF streamVars
    <2>4. CASE bpc[s] = "none" /\ bpc'[s] = "select"
        <3>1. Stream(s)'
            BY <2>1, <2>4, StreamOpen
        <3>2. QED
            BY <2>1, <3>1 DEF streamVars
    <2>5. QED
        BY <2>2, <2>3, <2>4
<1>2. CASE LoopDeliver(r) \/ LoopEndSub(r) \/ \E k \in Calls : WireTimeout(r, k)
    <2>1. UNCHANGED <<forwarded, held, bpc, out, ended, loop>>
        BY <1>2 DEF LoopDeliver, LoopEndSub, WireTimeout, EndUnsubscribe,
           connVars, bridgeVars
    <2>2. count[r] > 0 => <<"msg", count[r]>> \in Msg
        BY MessageIsMsg, StompAssumption DEF TypeInv, GoTypes
    <2>3. PICK m \in Msg : Push(r, m) /\ (m = End => loop # "up")
        <3>1. ASSUME LoopDeliver(r)
              PROVE  \E m \in Msg : Push(r, m) /\ (m = End => loop # "up")
            <4>1. <<"msg", count[r]>> \in Msg /\ Push(r, <<"msg", count[r]>>)
                BY <2>2, <3>1 DEF LoopDeliver, TypeInv, InHand
            <4>2. <<"msg", count[r]>> # End
                BY DEF End
            <4>3. QED
                BY <4>1, <4>2
        <3>2. ASSUME LoopEndSub(r)
              PROVE  \E m \in Msg : Push(r, m) /\ (m = End => loop # "up")
            BY <3>2, ErrsAreMsgs DEF LoopEndSub
        <3>3. ASSUME NEW k \in Calls, WireTimeout(r, k)
              PROVE  \E m \in Msg : Push(r, m) /\ (m = End => loop # "up")
            <4>1. Late # End
                BY DEF Late, End
            <4>2. QED
                BY <3>3, <4>1, ErrsAreMsgs DEF WireTimeout
        <3>4. QED
            BY <1>2, <3>1, <3>2, <3>3
    <2>4. CASE r = s
        BY <2>1, <2>3, <2>4, StreamPush
    <2>5. CASE r # s
        <3>1. src'[s] = src[s] /\ delivered'[s] = delivered[s]
            BY <2>3, <2>5 DEF Push, TypeInv, GoTypes
        <3>2. QED
            BY <2>1, <3>1, StreamFrame
    <2>6. QED
        BY <2>4, <2>5
<1>3. CASE BridgeReceive(r) \/ BridgeDiscard(r)
    <2>1. Stream(r)' /\ (ended' => ended \/ loop # "up")
        BY <1>3, StreamTake
    <2>2. (ended => ended') /\ loop' = loop
        BY <1>3 DEF BridgeReceive, BridgeDiscard
    <2>3. CASE r # s
        <3>1. /\ src'[s] = src[s] /\ delivered'[s] = delivered[s]
              /\ forwarded'[s] = forwarded[s] /\ held'[s] = held[s]
              /\ bpc'[s] = bpc[s] /\ out'[s] = out[s]
            BY <1>3, <2>3 DEF BridgeReceive, BridgeDiscard, bridgeVars, TypeInv,
               GoTypes, BridgeTypes
        <3>2. Stream(s)'
            BY <2>2, <3>1, StreamFrame
        <3>3. QED
            BY <2>1, <2>2, <3>2
    <2>4. QED
        BY <2>1, <2>2, <2>3
<1>4. CASE BridgeSend(r) \/ BridgeReturn(r) \/ BridgeStop(r) \/ BridgeDone(r)
    <2>1. UNCHANGED <<src, delivered, ended, loop>>
        BY <1>4 DEF BridgeSend, BridgeReturn, BridgeStop, BridgeDone, connVars,
           goVars
    <2>2. CASE r = s
        BY <1>4, <2>1, <2>2, StreamOut
    <2>3. CASE r # s
        <3>1. /\ forwarded'[s] = forwarded[s] /\ held'[s] = held[s]
              /\ bpc'[s] = bpc[s] /\ out'[s] = out[s]
            BY <1>4, <2>3 DEF BridgeSend, BridgeReturn, BridgeStop, BridgeDone,
               EndOut, TypeInv, BridgeTypes
        <3>2. QED
            BY <2>1, <3>1, StreamFrame
    <2>4. QED
        BY <2>2, <2>3
<1>5. QED
    BY <1>1, <1>2, <1>3, <1>4 DEF Bridge

StreamInv ==
    /\ TypeInv
    /\ \A s \in Subs : Stream(s)
    /\ ended => loop # "up"

LEMMA StreamInvStep == StreamInv /\ [Next]_vars => StreamInv'
<1> SUFFICES ASSUME StreamInv, [Next]_vars PROVE StreamInv'
    OBVIOUS
<1>1. TypeInv /\ TypeInv' /\ (ended => loop # "up")
    BY TypeInvStep DEF StreamInv
<1>2. ASSUME NEW s \in Subs PROVE Stream(s)
    BY DEF StreamInv
<1>3. ASSUME NEW r \in Subs,
             \/ Aside(r)
             \/ LoopDeliver(r) \/ LoopEndSub(r)
             \/ \E k \in Calls : WireTimeout(r, k)
             \/ Bridge(r)
      PROVE  StreamInv'
    <2>1. ASSUME NEW s \in Subs
          PROVE  Stream(s)' /\ (ended' => loop' # "up")
        BY <1>1, <1>2, <1>3, StreamSubStep
    <2>2. (\A s \in Subs : Stream(s))' /\ (ended' => loop' # "up")
        BY <1>3, <2>1
    <2>3. QED
        BY <1>1, <2>2 DEF StreamInv
<1>4. ASSUME LoopStep \/ DisconnectStep \/ UNCHANGED vars PROVE StreamInv'
    <2>1. /\ UNCHANGED <<src, delivered, forwarded, held, bpc, out, ended>>
          /\ loop # "up" => loop' # "up"
        BY <1>4 DEF LoopStep, LoopTakeDisconnect, LoopEnd, LoopEndDisconnect,
           LoopBlocks, DisconnectStep, DisconnectBegin, DisconnectMust,
           DisconnectSend, DisconnectReceipt, DisconnectTimer,
           DisconnectTimeout, vars, connVars, bridgeVars, goVars
    <2>2. ASSUME NEW s \in Subs PROVE Stream(s)'
        BY <1>1, <1>2, <2>1, StreamFrame
    <2>3. QED
        BY <1>1, <2>1, <2>2 DEF StreamInv
<1>5. \A k \in Callers : k \in Calls
    BY DEF Calls
<1>6. QED
    BY <1>3, <1>4, <1>5 DEF Next, Wire, Aside

LEMMA StreamInvariant == Spec => []StreamInv
<1>1. Init => StreamInv
    <2> SUFFICES ASSUME Init PROVE StreamInv
        OBVIOUS
    <2>1. ASSUME NEW s \in Subs PROVE Stream(s)
        <3>1. /\ Len(src[s]) = 0 /\ Len(delivered[s]) = 0
              /\ Len(forwarded[s]) = 0 /\ bpc[s] = "none"
            BY DEF Init
        <3>2. QED
            BY <3>1 DEF Stream, Suffix, Passed, Taken
    <2>2. QED
        BY <2>1, TypeInvInit DEF StreamInv, Init
<1>2. QED
    BY <1>1, StreamInvStep, PTL DEF Spec

\* What C() carries is what go-stomp delivered, in order and without a gap,
\* whatever the two selects of bridge choose; an error closes it.
THEOREM CarriesPrefix == Spec => []ForwardedIsPrefix
<1>1. StreamInv => ForwardedIsPrefix
    <2> SUFFICES ASSUME StreamInv, NEW s \in Subs
                 PROVE  /\ Len(forwarded[s]) <= Len(delivered[s])
                        /\ \A i \in 1 .. Len(forwarded[s]) :
                              /\ forwarded[s][i] = delivered[s][i]
                              /\ forwarded[s][i] \in Errs =>
                                    i = Len(forwarded[s]) /\ out[s] = "closed"
        BY DEF ForwardedIsPrefix
    <2>1. Passed(s)
        BY DEF StreamInv, Stream
    <2>2. /\ Len(src[s]) \in Nat /\ Len(delivered[s]) \in Nat
          /\ Len(forwarded[s]) \in Nat
        BY DEF StreamInv, TypeInv, GoTypes, BridgeTypes
    <2>3. Len(forwarded[s]) <= Len(delivered[s]) - Len(src[s])
        BY <2>1 DEF Passed, Taken
    <2>4. \A a, b, c \in Nat : c <= a - b => c <= a
        OBVIOUS
    <2>5. Len(forwarded[s]) <= Len(delivered[s])
        BY <2>2, <2>3, <2>4, Zenon
    <2>6. QED
        BY <2>1, <2>5 DEF Passed
<1>2. QED
    BY <1>1, StreamInvariant, PTL

\* A bridge that took the ERROR frame, forwarded or discarded, has set c.ended.
THEOREM EndIsKnown == Spec => []EndKnown
<1>1. StreamInv => EndKnown
    <2> SUFFICES ASSUME StreamInv, NEW s \in Subs, SawEnd(s) PROVE ended
        BY DEF EndKnown
    <2>1. PICK i \in 1 .. Taken(s) : delivered[s][i] = End
        BY DEF SawEnd, Taken
    <2>2. /\ Len(src[s]) \in Nat /\ Len(delivered[s]) \in Nat
        BY DEF StreamInv, TypeInv, GoTypes
    <2>3. \A a, b \in Nat : \A j \in 1 .. a - b : j \in 1 .. a /\ j <= a - b
        OBVIOUS
    <2>4. i \in 1 .. Len(delivered[s]) /\ i <= Taken(s)
        BY <2>1, <2>2, <2>3, Zenon DEF Taken
    <2>5. QED
        BY <2>1, <2>4 DEF StreamInv, Stream
<1>2. QED
    BY <1>1, StreamInvariant, PTL

\* c.ended is set only on a connection whose loop has ended, so a Disconnect
\* that leaves out the DISCONNECT frame leaves it out of a dead session.
THEOREM EndIsReal == Spec => []EndedIsReal
<1>1. StreamInv => EndedIsReal
    BY DEF StreamInv, EndedIsReal
<1>2. QED
    BY <1>1, StreamInvariant, PTL
=============================================================================

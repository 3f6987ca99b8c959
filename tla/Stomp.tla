------------------------------- MODULE Stomp --------------------------------
(***************************************************************************)
(* The go-stomp transport of internal/stomp/stomp.go: one connection, the  *)
(* bridge goroutine of each of its subscriptions, the calls of             *)
(* Subscription.Unsubscribe and the call of Conn.Disconnect.               *)
(*                                                                         *)
(* go-stomp itself is external and appears as stomp.go uses it: an I/O     *)
(* loop that delivers frames to the subscriptions' channels and answers    *)
(* with receipts, and that does neither while one of the channels is full. *)
(***************************************************************************)
EXTENDS Naturals, Sequences

CONSTANTS
    Subs,       \* subscriptions of the connection
    CtxSubs,    \* those whose Subscribe got a ctx that can end
    Callers,    \* goroutines that call Unsubscribe
    CtxCaller,  \* the goroutine that unsubscribes when ctx is done
    None,       \* no subscription
    SrcBuf,     \* capacity of go-stomp's channel
    ChanBuf,    \* subChanBuf, the capacity of C()
    MaxMsgs     \* bound: messages for one subscription

ASSUME StompAssumption ==
    /\ CtxSubs \subseteq Subs
    /\ CtxCaller \notin Callers
    /\ None \notin Subs
    /\ SrcBuf \in Nat \ {0}
    /\ ChanBuf \in Nat \ {0}
    /\ MaxMsgs \in Nat

Calls == Callers \cup {CtxCaller}

\* What a subscription delivers: numbered messages, go-stomp's ERROR frame as
\* its loop ends, and the error of an Unsubscribe that got no receipt, which
\* carries no frame.
End == <<"end", 0>>
Late == <<"late", 0>>
Errs == {End, Late}
Msg == ({"msg"} \X (1 .. MaxMsgs)) \cup Errs

VARIABLES
    \* conn
    bounded,    \* disconnectBound > 0
    closing,    \* c.closing
    unsubs,     \* subscriptions counted by c.unsubs
    ended,      \* c.ended
    dpc,        \* where Disconnect is
    request,    \* its DISCONNECT, in go-stomp's queue or awaiting the receipt
    timer,      \* has the closeAfter timer closed the socket?
    \* sub
    stop,       \* is s.stop closed?
    once,       \* s.once
    err,        \* s.err
    call,       \* where a call of Unsubscribe is
    result,     \* what it returned
    ctx,        \* is the ctx of Subscribe done?
    \* bridge
    bpc,        \* where the bridge is
    held,       \* the message it is sending
    out,        \* has it closed out?
    ch,         \* what C() holds
    \* go-stomp
    loop,       \* does its I/O loop run?
    busy,       \* the subscription that the loop is delivering to, or None
    count,      \* how many messages of a subscription it has taken
    src,        \* the subscription's channel
    srcClosed,  \* is it closed?
    \* history
    delivered,  \* everything ever sent on src
    forwarded   \* everything ever sent on out

connVars == <<bounded, closing, unsubs, ended, dpc, request, timer>>
callVars == <<stop, once, err, call, result>>
bridgeVars == <<bpc, held, out, ch, forwarded>>
goVars == <<loop, busy, count, src, srcClosed, delivered>>
vars == <<connVars, callVars, ctx, bridgeVars, goVars>>

Open(s) == bpc[s] # "none"

\* Dial: a connection without subscriptions.
Init ==
    /\ bounded \in BOOLEAN
    /\ closing = FALSE
    /\ unsubs = {}
    /\ ended = FALSE
    /\ dpc = "idle"
    /\ request = "none"
    /\ timer = FALSE
    /\ stop = [s \in Subs |-> FALSE]
    /\ once = [s \in Subs |-> "free"]
    /\ err = [s \in Subs |-> "none"]
    /\ call = [s \in Subs |-> [k \in Calls |-> "none"]]
    /\ result = [s \in Subs |-> [k \in Calls |-> "none"]]
    /\ ctx = [s \in Subs |-> FALSE]
    /\ bpc = [s \in Subs |-> "none"]
    /\ held = [s \in Subs |-> None]
    /\ out = [s \in Subs |-> "open"]
    /\ ch = [s \in Subs |-> <<>>]
    /\ loop = "up"
    /\ busy = None
    /\ count = [s \in Subs |-> 0]
    /\ src = [s \in Subs |-> <<>>]
    /\ srcClosed = [s \in Subs |-> FALSE]
    /\ delivered = [s \in Subs |-> <<>>]
    /\ forwarded = [s \in Subs |-> <<>>]

-----------------------------------------------------------------------------
(***************************************************************************)
(* Conn.Subscribe and sub.Unsubscribe                                      *)
(***************************************************************************)

\* go-stomp accepts the subscription; newSub starts its bridge.
Subscribe(s) ==
    /\ bpc[s] = "none"
    /\ loop = "up"
    /\ dpc \in {"idle", "pending"}
    /\ bpc' = [bpc EXCEPT ![s] = "select"]
    /\ UNCHANGED <<connVars, callVars, ctx, held, out, ch, forwarded, goVars>>

\* The context that the caller gave to Subscribe ends.
CtxDone(s) ==
    /\ s \in CtxSubs
    /\ Open(s)
    /\ ~ctx[s]
    /\ ctx' = [ctx EXCEPT ![s] = TRUE]
    /\ UNCHANGED <<connVars, callVars, bridgeVars, goVars>>

\* A goroutine calls Unsubscribe.
Unsubscribe(s, k) ==
    /\ Open(s)
    /\ call[s][k] = "none"
    /\ call' = [call EXCEPT ![s][k] = "once"]
    /\ UNCHANGED <<connVars, stop, once, err, result, ctx, bridgeVars, goVars>>

\* The first call runs the function: close(s.stop), then s.unsubscribe().
OnceRun(s, k) ==
    /\ call[s][k] = "once"
    /\ once[s] = "free"
    /\ once' = [once EXCEPT ![s] = "running"]
    /\ stop' = [stop EXCEPT ![s] = TRUE]
    /\ call' = [call EXCEPT ![s][k] = "gate"]
    /\ UNCHANGED <<connVars, err, result, ctx, bridgeVars, goVars>>

\* Faulty: a call that is not the first does not wait for it.
OnceReturnEarly(s, k) ==
    /\ call[s][k] = "once"
    /\ once[s] # "free"
    /\ call' = [call EXCEPT ![s][k] = "returned"]
    /\ result' = [result EXCEPT ![s][k] = IF err[s] = "none" THEN "ok" ELSE err[s]]
    /\ UNCHANGED <<connVars, stop, once, err, ctx, bridgeVars, goVars>>

\* Every other call waits for the first and returns its result.
OnceReturn(s, k) ==
    /\ call[s][k] = "once"
    /\ once[s] = "done"
    /\ call' = [call EXCEPT ![s][k] = "returned"]
    /\ result' = [result EXCEPT ![s][k] = err[s]]
    /\ UNCHANGED <<connVars, stop, once, err, ctx, bridgeVars, goVars>>

\* The function given to once.Do ends with r, and so does its call.
OnceDone(s, k, r) ==
    /\ once' = [once EXCEPT ![s] = "done"]
    /\ err' = [err EXCEPT ![s] = r]
    /\ call' = [call EXCEPT ![s][k] = "returned"]
    /\ result' = [result EXCEPT ![s][k] = r]
    /\ UNCHANGED stop

\* beginUnsubscribe: the gate is open until Disconnect begins.
BeginUnsubscribe(s, k) ==
    /\ call[s][k] = "gate"
    /\ ~closing
    /\ unsubs' = unsubs \cup {s}
    /\ call' = [call EXCEPT ![s][k] = "wire"]
    /\ UNCHANGED <<bounded, closing, ended, dpc, request, timer, stop, once,
                   err, result, ctx, bridgeVars, goVars>>

RefuseUnsubscribe(s, k) ==
    /\ call[s][k] = "gate"
    /\ closing
    /\ OnceDone(s, k, "disconnected")
    /\ UNCHANGED <<connVars, ctx, bridgeVars, goVars>>

\* Faulty: a failed unsubscribe stays pending.
EndUnsubscribeOnSuccess(s, k, r) ==
    /\ OnceDone(s, k, r)
    /\ unsubs' = IF r = "ok" THEN unsubs \ {s} ELSE unsubs
    /\ UNCHANGED <<bounded, closing, ended, dpc, request, timer>>

\* unsubscribe returns what go-stomp answered; the deferred endUnsubscribe.
EndUnsubscribe(s, k, r) ==
    /\ OnceDone(s, k, r)
    /\ unsubs' = unsubs \ {s}
    /\ UNCHANGED <<bounded, closing, ended, dpc, request, timer>>

-----------------------------------------------------------------------------
(***************************************************************************)
(* go-stomp, as its use in stomp.go relies on it (external)                *)
(***************************************************************************)

Room(s) == Len(src[s]) < SrcBuf

Push(s, m) ==
    /\ src' = [src EXCEPT ![s] = Append(@, m)]
    /\ delivered' = [delivered EXCEPT ![s] = Append(@, m)]

\* The I/O loop takes the next message of a subscription from the wire.
LoopTake(s) ==
    /\ loop = "up"
    /\ busy = None
    /\ Open(s)
    /\ ~srcClosed[s]
    /\ count[s] < MaxMsgs
    /\ count' = [count EXCEPT ![s] = @ + 1]
    /\ busy' = s
    /\ UNCHANGED <<connVars, callVars, ctx, bridgeVars, loop, src, srcClosed,
                   delivered>>

\* ... and delivers it once the subscription's channel has room.
LoopDeliver(s) ==
    /\ busy = s
    /\ Room(s)
    /\ Push(s, <<"msg", count[s]>>)
    /\ busy' = None
    /\ UNCHANGED <<connVars, callVars, ctx, bridgeVars, loop, count, srcClosed>>

\* The loop takes the DISCONNECT and registers the channel for its receipt.
LoopTakeDisconnect ==
    /\ loop = "up"
    /\ busy = None
    /\ request = "queued"
    /\ request' = "registered"
    /\ UNCHANGED <<bounded, closing, unsubs, ended, dpc, timer, callVars, ctx,
                   bridgeVars, goVars>>

\* The loop ends: the peer is gone, or the socket was closed here.
LoopEnd ==
    /\ loop = "up"
    /\ busy = None
    /\ loop' = "ended"
    /\ UNCHANGED <<connVars, callVars, ctx, bridgeVars, busy, count, src,
                   srcClosed, delivered>>

\* What is registered gets the error, in no particular order.  "Closing the
\* transport while the receipt wait is still live lets go-stomp's I/O loop
\* deliver its close error to that wait."
LoopEndDisconnect ==
    /\ loop = "ended"
    /\ request = "registered"
    /\ dpc = "receipt"
    /\ request' = "done"
    /\ dpc' = "failed"
    /\ UNCHANGED <<bounded, closing, unsubs, ended, timer, callVars, ctx,
                   bridgeVars, goVars>>

\* "Once go-stomp's own timeout gives up, the loop would block forever sending
\* to the abandoned receipt channel": the error, or a receipt that comes late.
LoopBlocks ==
    /\ loop # "blocked"
    /\ busy = None
    /\ request = "registered"
    /\ dpc = "failed"
    /\ loop' = "blocked"
    /\ UNCHANGED <<connVars, callVars, ctx, bridgeVars, busy, count, src,
                   srcClosed, delivered>>

\* Every open subscription gets an ERROR frame, and its channel is closed.
LoopEndSub(s) ==
    /\ loop = "ended"
    /\ Open(s)
    /\ ~srcClosed[s]
    /\ Room(s)
    /\ Push(s, End)
    /\ srcClosed' = [srcClosed EXCEPT ![s] = TRUE]
    /\ UNCHANGED <<connVars, callVars, ctx, bridgeVars, loop, busy, count>>

\* go-stomp's Unsubscribe gets its receipt: the channel is closed.
WireReceipt(s, k) ==
    /\ call[s][k] = "wire"
    /\ loop = "up"
    /\ busy = None
    /\ ~srcClosed[s]
    /\ srcClosed' = [srcClosed EXCEPT ![s] = TRUE]
    /\ EndUnsubscribe(s, k, "ok")
    /\ UNCHANGED <<ctx, bridgeVars, loop, busy, count, src, delivered>>

\* It finds the subscription ended: nil, an error, or a recovered panic.
WireEnded(s, k, r) ==
    /\ call[s][k] = "wire"
    /\ srcClosed[s]
    /\ EndUnsubscribe(s, k, r)
    /\ UNCHANGED <<ctx, bridgeVars, goVars>>

\* Its receipt timeout: an error message for the subscription, and an error.
WireTimeout(s, k) ==
    /\ call[s][k] = "wire"
    /\ ~srcClosed[s]
    /\ Room(s)
    /\ Push(s, Late)
    /\ EndUnsubscribe(s, k, "error")
    /\ UNCHANGED <<ctx, bridgeVars, loop, busy, count, srcClosed>>

-----------------------------------------------------------------------------
(***************************************************************************)
(* bridge                                                                  *)
(***************************************************************************)

\* Faulty: every error is the connection's end.
EndsConnAny(m) == m \in Errs

\* An ERROR frame is the connection's end; Unsubscribe's own error has none.
EndsConn(m) == m = End

\* Faulty: what is discarded is not looked at.
BridgeDiscardUnseen(s) ==
    /\ bpc[s] = "select"
    /\ src[s] # <<>>
    /\ out[s] = "closed"
    /\ src' = [src EXCEPT ![s] = Tail(@)]
    /\ UNCHANGED <<connVars, callVars, ctx, bridgeVars, loop, busy, count,
                   srcClosed, delivered>>

\* <-s.src with out closed: drained and discarded, but for its news.
BridgeDiscard(s) ==
    /\ bpc[s] = "select"
    /\ src[s] # <<>>
    /\ out[s] = "closed"
    /\ src' = [src EXCEPT ![s] = Tail(@)]
    /\ ended' = (ended \/ EndsConn(Head(src[s])))
    /\ UNCHANGED <<bounded, closing, unsubs, dpc, request, timer, callVars,
                   ctx, bridgeVars, loop, busy, count, srcClosed, delivered>>

\* <-s.src with out open: the end is recorded before anything is sent.
BridgeReceive(s) ==
    /\ bpc[s] = "select"
    /\ src[s] # <<>>
    /\ out[s] = "open"
    /\ src' = [src EXCEPT ![s] = Tail(@)]
    /\ ended' = (ended \/ EndsConn(Head(src[s])))
    /\ held' = [held EXCEPT ![s] = Head(src[s])]
    /\ bpc' = [bpc EXCEPT ![s] = "send"]
    /\ UNCHANGED <<bounded, closing, unsubs, dpc, request, timer, callVars,
                   ctx, out, ch, forwarded, loop, busy, count, srcClosed,
                   delivered>>

\* go-stomp closed its channel: return, with the deferred endOut.
BridgeReturn(s) ==
    /\ bpc[s] = "select"
    /\ src[s] = <<>>
    /\ srcClosed[s]
    /\ out' = [out EXCEPT ![s] = "closed"]
    /\ bpc' = [bpc EXCEPT ![s] = "gone"]
    /\ UNCHANGED <<connVars, callVars, ctx, held, ch, forwarded, goVars>>

\* Faulty: one more than the channel holds.
ChanRoomLate(s) == Len(ch[s]) <= ChanBuf

ChanRoom(s) == Len(ch[s]) < ChanBuf

\* out <- m; an error is terminal.
BridgeSend(s) ==
    /\ bpc[s] = "send"
    /\ ChanRoom(s)
    /\ ch' = [ch EXCEPT ![s] = Append(@, held[s])]
    /\ forwarded' = [forwarded EXCEPT ![s] = Append(@, held[s])]
    /\ out' = [out EXCEPT ![s] = IF held[s] \in Errs THEN "closed" ELSE @]
    /\ held' = [held EXCEPT ![s] = None]
    /\ bpc' = [bpc EXCEPT ![s] = "select"]
    /\ UNCHANGED <<connVars, callVars, ctx, goVars>>

\* Faulty: the message in hand is dropped and forwarding goes on.
EndOutKeepsOpen(s) ==
    /\ bpc' = [bpc EXCEPT ![s] = "select"]
    /\ UNCHANGED out

\* Faulty: the bridge returns and drains no more.
EndOutReturns(s) ==
    /\ out' = [out EXCEPT ![s] = "closed"]
    /\ bpc' = [bpc EXCEPT ![s] = "gone"]

\* endOut: close out; done and stop are not selected on any more, and the
\* bridge goes on to drain src.
EndOut(s) ==
    /\ out' = [out EXCEPT ![s] = "closed"]
    /\ bpc' = [bpc EXCEPT ![s] = "select"]

\* Faulty: the send in progress does not select on stop.
BridgeStopOuter(s) ==
    /\ bpc[s] = "select"
    /\ out[s] = "open"
    /\ stop[s]
    /\ EndOut(s)
    /\ UNCHANGED <<connVars, callVars, ctx, held, ch, forwarded, goVars>>

\* <-stop, in either select; a message in hand is dropped.
BridgeStop(s) ==
    /\ bpc[s] \in {"select", "send"}
    /\ out[s] = "open"
    /\ stop[s]
    /\ EndOut(s)
    /\ held' = [held EXCEPT ![s] = None]
    /\ UNCHANGED <<connVars, callVars, ctx, ch, forwarded, goVars>>

\* <-done, in either select: unsubscribe on a goroutine of its own.
BridgeDone(s) ==
    /\ bpc[s] \in {"select", "send"}
    /\ out[s] = "open"
    /\ ctx[s]
    /\ call' = [call EXCEPT ![s][CtxCaller] = "once"]
    /\ EndOut(s)
    /\ held' = [held EXCEPT ![s] = None]
    /\ UNCHANGED <<connVars, stop, once, err, result, ctx, ch, forwarded,
                   goVars>>

\* The consumer of C() takes a message.
Consume(s) ==
    /\ ch[s] # <<>>
    /\ ch' = [ch EXCEPT ![s] = Tail(@)]
    /\ UNCHANGED <<connVars, callVars, ctx, bpc, held, out, forwarded, goVars>>

-----------------------------------------------------------------------------
(***************************************************************************)
(* Conn.Disconnect                                                         *)
(***************************************************************************)

\* No unsubscribe may begin from here on.
DisconnectBegin ==
    /\ dpc = "idle"
    /\ closing' = TRUE
    /\ dpc' = "pending"
    /\ UNCHANGED <<bounded, unsubs, ended, request, timer, callVars, ctx,
                   bridgeVars, goVars>>

\* Faulty: c.unsubs.Wait() is missing.
UnsubsNotAwaited == TRUE

\* c.unsubs.Wait()
UnsubsDone == unsubs = {}

\* The end is known: close the socket without a DISCONNECT frame.
DisconnectMust ==
    /\ dpc = "pending"
    /\ UnsubsDone
    /\ ended
    /\ dpc' = "closed"
    /\ UNCHANGED <<bounded, closing, unsubs, ended, request, timer, callVars, ctx,
                   bridgeVars, goVars>>

\* Otherwise send DISCONNECT and wait for its receipt; a bound arms the timer.
DisconnectSend ==
    /\ dpc = "pending"
    /\ UnsubsDone
    /\ ~ended
    /\ dpc' = "receipt"
    /\ request' = "queued"
    /\ UNCHANGED <<bounded, closing, unsubs, ended, timer, callVars, ctx,
                   bridgeVars, goVars>>

\* The receipt arrives and go-stomp closes the socket.
DisconnectReceipt ==
    /\ dpc = "receipt"
    /\ request = "registered"
    /\ loop = "up"
    /\ busy = None
    /\ request' = "done"
    /\ dpc' = "closed"
    /\ UNCHANGED <<bounded, closing, unsubs, ended, timer, callVars, ctx,
                   bridgeVars, goVars>>

\* Half the bound has passed: the timer closes the socket.
DisconnectTimer ==
    /\ dpc = "receipt"
    /\ bounded
    /\ ~timer
    /\ timer' = TRUE
    /\ UNCHANGED <<bounded, closing, unsubs, ended, dpc, request, callVars, ctx,
                   bridgeVars, goVars>>

\* go-stomp's receipt timeout: the bound, or its own default.  The request stays
\* where it is.
DisconnectTimeout ==
    /\ dpc = "receipt"
    /\ bounded => timer
    /\ dpc' = "failed"
    /\ UNCHANGED <<bounded, closing, unsubs, ended, request, timer, callVars, ctx,
                   bridgeVars, goVars>>

\* The socket was closed from this side.
SocketClosed == timer \/ dpc = "closed"

-----------------------------------------------------------------------------
OnceStep(s, k) ==
    \/ OnceRun(s, k)
    \/ OnceReturn(s, k)
    \/ BeginUnsubscribe(s, k)
    \/ RefuseUnsubscribe(s, k)

\* go-stomp's Unsubscribe returns: a receipt, the end, or its timeout.
Wire(s, k) ==
    \/ WireReceipt(s, k)
    \/ \E r \in {"ok", "error"} : WireEnded(s, k, r)
    \/ WireTimeout(s, k)

Bridge(s) ==
    \/ BridgeDiscard(s)
    \/ BridgeReceive(s)
    \/ BridgeReturn(s)
    \/ BridgeSend(s)
    \/ BridgeStop(s)
    \/ BridgeDone(s)

\* The loop's part in the connection as a whole.
LoopStep ==
    \/ LoopTakeDisconnect
    \/ LoopEnd
    \/ LoopEndDisconnect
    \/ LoopBlocks

DisconnectStep ==
    \/ DisconnectBegin
    \/ DisconnectMust
    \/ DisconnectSend
    \/ DisconnectReceipt
    \/ DisconnectTimer
    \/ DisconnectTimeout

Next ==
    \/ \E s \in Subs :
          \/ Subscribe(s)
          \/ CtxDone(s)
          \/ \E k \in Callers : Unsubscribe(s, k)
          \/ \E k \in Calls : OnceStep(s, k) \/ Wire(s, k)
          \/ LoopTake(s)
          \/ LoopDeliver(s)
          \/ LoopEndSub(s)
          \/ Bridge(s)
          \/ Consume(s)
    \/ LoopStep
    \/ DisconnectStep

Spec == Init /\ [][Next]_vars

(***************************************************************************)
(* Goroutines that can run do run, go-stomp's timers fire, its loop        *)
(* delivers what it has taken and ends once the socket is closed here.  A  *)
(* consumer reads on until its subscription is unsubscribed, and then need *)
(* not read any more.  The broker owes no message and no receipt.          *)
(***************************************************************************)
Fairness ==
    /\ \A s \in Subs :
          /\ WF_vars(Bridge(s))
          /\ WF_vars(LoopDeliver(s))
          /\ WF_vars(LoopEndSub(s))
          /\ WF_vars(~stop[s] /\ Consume(s))
          /\ \A k \in Calls : WF_vars(OnceStep(s, k)) /\ WF_vars(Wire(s, k))
    /\ WF_vars(SocketClosed /\ LoopEnd)
    /\ WF_vars(DisconnectMust \/ DisconnectSend)
    /\ WF_vars(DisconnectTimer)
    /\ WF_vars(DisconnectTimeout)

FairSpec == Spec /\ Fairness

-----------------------------------------------------------------------------
(***************************************************************************)
(* Properties                                                              *)
(***************************************************************************)

\* Every variable has its type, and C() never holds more than subChanBuf.
TypeOK ==
    /\ bounded \in BOOLEAN
    /\ closing \in BOOLEAN
    /\ unsubs \in SUBSET Subs
    /\ ended \in BOOLEAN
    /\ dpc \in {"idle", "pending", "receipt", "closed", "failed"}
    /\ request \in {"none", "queued", "registered", "done"}
    /\ timer \in BOOLEAN
    /\ stop \in [Subs -> BOOLEAN]
    /\ once \in [Subs -> {"free", "running", "done"}]
    /\ err \in [Subs -> {"none", "ok", "error", "disconnected"}]
    /\ call \in [Subs -> [Calls -> {"none", "once", "gate", "wire", "returned"}]]
    /\ result \in [Subs -> [Calls -> {"none", "ok", "error", "disconnected"}]]
    /\ ctx \in [Subs -> BOOLEAN]
    /\ bpc \in [Subs -> {"none", "select", "send", "gone"}]
    /\ held \in [Subs -> Msg \cup {None}]
    /\ out \in [Subs -> {"open", "closed"}]
    /\ ch \in [Subs -> Seq(Msg)]
    /\ \A s \in Subs : Len(ch[s]) <= ChanBuf
    /\ loop \in {"up", "ended", "blocked"}
    /\ busy \in Subs \cup {None}
    /\ count \in [Subs -> 0 .. MaxMsgs]
    /\ src \in [Subs -> Seq(Msg)]
    /\ srcClosed \in [Subs -> BOOLEAN]
    /\ delivered \in [Subs -> Seq(Msg)]
    /\ forwarded \in [Subs -> Seq(Msg)]

\* "Disconnect refuses new unsubscribes and waits for pending ones before it
\* closes anything" (conn): from the moment Disconnect goes to work on the
\* connection, no go-stomp Unsubscribe is under way.
NoUnsubscribeUnderClose ==
    dpc \in {"receipt", "closed", "failed"} =>
        \A s \in Subs : \A k \in Calls : call[s][k] # "wire"

\* "Unsubscribe unsubscribes once; every call returns that attempt's result":
\* an explicit call and the one made when ctx is done agree, and at most one
\* of them ever reaches go-stomp.
OneAttempt ==
    \A s \in Subs :
        /\ \A k \in Calls :
              call[s][k] = "returned" => once[s] = "done" /\ result[s][k] = err[s]
        /\ \A k, l \in Calls :
              call[s][k] \in {"gate", "wire"} /\ call[s][l] \in {"gate", "wire"}
                  => k = l

\* C() carries what go-stomp delivered, in order and without a gap, as far as it
\* goes; an error is the last of it, and then C() is closed.
ForwardedIsPrefix ==
    \A s \in Subs :
        /\ Len(forwarded[s]) <= Len(delivered[s])
        /\ \A i \in 1 .. Len(forwarded[s]) :
              /\ forwarded[s][i] = delivered[s][i]
              /\ forwarded[s][i] \in Errs =>
                    i = Len(forwarded[s]) /\ out[s] = "closed"

\* The bridge has taken go-stomp's ERROR frame from its channel.
SawEnd(s) ==
    \E i \in 1 .. Len(delivered[s]) - Len(src[s]) : delivered[s][i] = End

\* "ended is set once a subscription has received go-stomp's ERROR frame", even
\* one that was unsubscribed before: a Disconnect that anyone calls on seeing
\* the end, or after it was discarded, does not wait for a receipt.
EndKnown == \A s \in Subs : SawEnd(s) => ended

\* The DISCONNECT frame is left out only on a connection that has really ended,
\* not because an Unsubscribe got no receipt.
EndedIsReal == ended => loop # "up"

\* Every call of Unsubscribe returns, also while messages arrive that nobody
\* reads: the bridges keep go-stomp's loop, and so the receipt, from stalling.
UnsubscribeReturns ==
    \A s \in Subs : \A k \in Calls :
        call[s][k] = "once" ~> call[s][k] = "returned"

\* The end of the connection reaches every bridge: C() is closed and the
\* goroutine exits.  It does not where the loop meets the receipt channel of a
\* Disconnect that gave up before it met the subscription: "go-stomp's I/O loop
\* blocks for good sending to it when the connection later closes" (CHANGELOG.md,
\* Known issues).  Nothing but that stops it.
EndReachesBridges ==
    \A s \in Subs :
        (loop = "ended" /\ Open(s)) ~> (bpc[s] = "gone" \/ loop = "blocked")

\* Disconnect returns: pending unsubscribes finish and the receipt wait ends.
DisconnectReturns == dpc = "pending" ~> dpc \in {"closed", "failed"}
=============================================================================

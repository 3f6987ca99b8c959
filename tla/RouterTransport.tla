--------------------------- MODULE RouterTransport --------------------------
(***************************************************************************)
(* The callback router over any transport: Router's own steps and the      *)
(* steps that Subscription allows a transport.Conn.  A step of the router  *)
(* that touches a subscription (conn.Subscribe, sub.Unsubscribe, a receive *)
(* from sub.C()) is a step of both; what the transport does by itself is   *)
(* seen by the router as what C() holds and whether it is closed.          *)
(***************************************************************************)
EXTENDS Router

CONSTANT MaxSent    \* bound: messages ever sent on one C()

VARIABLES state, ch, sent, down     \* those of Subscription

Conn == INSTANCE Subscription WITH
    Subs <- Sub, ChanBuf <- ChanCap, stopped <- stop

connVars == <<state, ch, sent, down>>

\* readLoop tells messages from errors (Msg.Err), and nothing else.
Kind(msg) == IF msg[1] = "msg" THEN "msg" ELSE "err"

Kinds(q) == [i \in 1 .. Len(q) |-> Kind(q[i])]

\* C(), as readLoop sees it: what it holds, and is it closed?
Held == [s \in Sub |-> Kinds(ch[s])]
Shut == [s \in Sub |-> state[s] = "closed"]

TInit == Init /\ Conn!SInit

\* Steps of the router that concern no subscription.
RouterAlone ==
    /\ \/ \E c \in Callers :
             \/ CallerBegin(c)
             \/ SubscribeAttach(c) \/ SubscribeDial(c) \/ SubscribeFailed(c)
             \/ CloseReturn(c)
       \/ \E s \in Sub :
             \/ ReadClosed(s) \/ Snapshot(s)
             \/ \E t \in Token : Dispatch(s, t)
             \/ MarkDead(s) \/ Deregister(s) \/ Publish(s)
    /\ UNCHANGED connVars

\* conn.Subscribe, which fails on a connection that has ended.
RouterSubscribes == \E c \in Callers : SubscribeFresh(c) /\ Conn!Make(nsubs + 1)

\* sub.Unsubscribe, by Unsubscribe or Close.
RouterUnsubscribes ==
    \E c \in Callers, s \in Sub :
        /\ \/ UnsubscribeSub(c) /\ s \in csubs[c]
           \/ CloseUnsubscribe(c, s)
        /\ Conn!Stop(s)

\* msg := <-sub.C()
RouterReceives ==
    \E s \in Sub : (ReadMessage(s) \/ ReadError(s)) /\ Conn!Take(s)

\* The transport sends on C() or closes it, whoever reads it.
TransportMoves ==
    /\ \/ \E s \in Sub :
             \/ Conn!Deliver(s) /\ sent[s] < MaxSent
             \/ Conn!Fail(s)
             \/ Conn!Close(s)
       \/ Conn!GoDown
    /\ UNCHANGED <<routerVars, stateVars, readerVars, callerVars, historyVars>>
    /\ chan' = Held'
    /\ closed' = Shut'

TNext ==
    \/ RouterAlone
    \/ RouterSubscribes
    \/ RouterUnsubscribes
    \/ RouterReceives
    \/ TransportMoves

TSpec == TInit /\ [][TNext]_<<vars, connVars>>
=============================================================================

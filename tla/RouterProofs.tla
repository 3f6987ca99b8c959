---------------------------- MODULE RouterProofs ----------------------------
(***************************************************************************)
(* What Router promises, for any destinations, callers and bounds.         *)
(***************************************************************************)
EXTENDS Router, TLAPS

\* A Subscribe in progress has its token and its destination.
Locals ==
    \A c \in Callers :
        cpc[c] \in {"subscribe", "dial"} => ctok[c] \in Token /\ cdest[c] \in Dests

TypeInv == TypeOK /\ Locals

LEMMA TypeInvInit == Init => TypeInv
<1> SUFFICES ASSUME Init PROVE TypeInv
    OBVIOUS
<1> USE RouterAssumption DEF Init, Sub, Token, NoSub, ReaderPc, CallerPc
<1>1. /\ mu \in Callers \cup {None}
      /\ dests \in [Dests -> Sub \cup {NoSub}]
      /\ nextToken \in Token \cup {0}
    OBVIOUS
<1>2. /\ nsubs \in Sub \cup {0}
      /\ destOf \in [Sub -> Dests \cup {None}]
      /\ handlers \in [Sub -> SUBSET Token]
      /\ done \in [Sub -> BOOLEAN]
    OBVIOUS
<1>3. /\ chan \in [Sub -> Seq({"msg", "err"})]
      /\ closed \in [Sub -> BOOLEAN]
      /\ stop \in [Sub -> BOOLEAN]
    OBVIOUS
<1>4. /\ rpc \in [Sub -> ReaderPc]
      /\ termErr \in [Sub -> BOOLEAN]
      /\ snap \in [Sub -> SUBSET Token]
    OBVIOUS
<1>5. /\ cpc \in [Callers -> CallerPc]
      /\ ctok \in [Callers -> Token \cup {0}]
      /\ cdest \in [Callers -> Dests \cup {None}]
      /\ csubs \in [Callers -> SUBSET Sub]
    OBVIOUS
<1>6. /\ home \in [Token -> Sub \cup {NoSub}]
      /\ unsubbed \in SUBSET Token
      /\ teardown \in [Sub -> {"none", "unsubscribe", "close"}]
      /\ replaced \in SUBSET Sub
      /\ reported \in [Sub -> {"nothing", "error", "closed"}]
      /\ joined \in Sub \cup {0}
    OBVIOUS
<1>7. Locals
    BY DEF Locals
<1>8. QED
    BY <1>1, <1>2, <1>3, <1>4, <1>5, <1>6, <1>7 DEF TypeInv, TypeOK

LEMMA TypeInvStep == TypeInv /\ [Next]_vars => TypeInv'
<1> SUFFICES ASSUME TypeInv, [Next]_vars PROVE TypeInv'
    OBVIOUS
<1> USE RouterAssumption DEF TypeInv, TypeOK, Locals, ReaderPc, CallerPc,
        routerVars, stateVars, subVars, readerVars, callerVars, historyVars
<1>1. ASSUME NEW c \in Callers, NEW d \in Dests, SubscribeBegin(c, d)
      PROVE  TypeInv'
    BY <1>1 DEF SubscribeBegin, Token
<1>2. ASSUME NEW c \in Callers, SubscribeAttach(c) PROVE TypeInv'
    BY <1>2 DEF SubscribeAttach, SubscribeReturn, Reusable
<1>3. ASSUME NEW c \in Callers, SubscribeDial(c) PROVE TypeInv'
    BY <1>3 DEF SubscribeDial
<1>4. ASSUME NEW c \in Callers, SubscribeFresh(c) PROVE TypeInv'
    <2>1. nsubs + 1 \in Sub
        BY <1>4 DEF SubscribeFresh, Sub
    <2>2. ctok[c] \in Token /\ cdest[c] \in Dests
        BY <1>4 DEF SubscribeFresh
    <2>3. /\ nsubs' \in Sub \cup {0}
          /\ destOf' \in [Sub -> Dests \cup {None}]
          /\ handlers' \in [Sub -> SUBSET Token]
        BY <1>4, <2>1, <2>2 DEF SubscribeFresh
    <2>4. /\ dests' \in [Dests -> Sub \cup {NoSub}]
          /\ home' \in [Token -> Sub \cup {NoSub}]
          /\ replaced' \in SUBSET Sub
        BY <1>4, <2>1, <2>2 DEF SubscribeFresh
    <2>5. /\ mu' = None
          /\ rpc' \in [Sub -> ReaderPc]
        BY <1>4, <2>1 DEF SubscribeFresh
    <2>6. /\ cpc' \in [Callers -> CallerPc]
          /\ ctok' \in [Callers -> Token \cup {0}]
          /\ cdest' \in [Callers -> Dests \cup {None}]
          /\ Locals'
        BY <1>4 DEF SubscribeFresh, SubscribeReturn
    <2>7. UNCHANGED <<nextToken, done, subVars, termErr, snap, csubs, unsubbed,
                      teardown, reported, joined>>
        BY <1>4 DEF SubscribeFresh
    <2>8. QED
        BY <2>3, <2>4, <2>5, <2>6, <2>7
<1>5. ASSUME NEW c \in Callers, SubscribeFailed(c) PROVE TypeInv'
    BY <1>5 DEF SubscribeFailed, SubscribeReturn
<1>6. ASSUME NEW c \in Callers, NEW d \in Dests, NEW t \in Token,
             UnsubscribeToken(c, d, t)
      PROVE  TypeInv'
    <2>1. dests[d] \in Sub
        BY <1>6 DEF UnsubscribeToken
    <2>2. /\ handlers' \in [Sub -> SUBSET Token]
          /\ unsubbed' \in SUBSET Token
        BY <1>6, <2>1 DEF UnsubscribeToken
    <2>3. /\ dests' \in [Dests -> Sub \cup {NoSub}]
          /\ teardown' \in [Sub -> {"none", "unsubscribe", "close"}]
          /\ csubs' \in [Callers -> SUBSET Sub]
          /\ cpc' \in [Callers -> CallerPc]
          /\ Locals'
        <3>1. CASE LastHandler(dests[d], t)
            <4>1. DropLast(c, d, dests[d]) /\ UNCHANGED <<ctok, cdest>>
                BY <1>6, <3>1 DEF UnsubscribeToken
            <4>2. /\ dests' \in [Dests -> Sub \cup {NoSub}]
                  /\ teardown' \in [Sub -> {"none", "unsubscribe", "close"}]
                BY <2>1, <4>1 DEF DropLast
            <4>3. /\ csubs' \in [Callers -> SUBSET Sub]
                  /\ cpc' \in [Callers -> CallerPc]
                  /\ Locals'
                <5>1. CASE done[dests[d]]
                    BY <4>1, <5>1 DEF DropLast
                <5>2. CASE ~done[dests[d]]
                    <6>1. /\ csubs' = [csubs EXCEPT ![c] = {dests[d]}]
                          /\ cpc' = [cpc EXCEPT ![c] = "unsubscribe"]
                        BY <4>1, <5>2 DEF DropLast
                    <6>2. csubs' \in [Callers -> SUBSET Sub]
                        BY <2>1, <6>1
                    <6>3. cpc' \in [Callers -> CallerPc] /\ Locals'
                        BY <4>1, <6>1
                    <6>4. QED
                        BY <6>2, <6>3
                <5>3. QED
                    BY <5>1, <5>2
            <4>4. QED
                BY <4>2, <4>3
        <3>2. CASE ~LastHandler(dests[d], t)
            BY <1>6, <3>2 DEF UnsubscribeToken
        <3>3. QED
            BY <3>1, <3>2
    <2>4. UNCHANGED <<mu, nextToken, nsubs, destOf, done, subVars, readerVars,
                      ctok, cdest, home, replaced, reported, joined>>
        BY <1>6 DEF UnsubscribeToken
    <2>5. QED
        BY <2>2, <2>3, <2>4
<1>7. ASSUME NEW c \in Callers, NEW d \in Dests, NEW t \in Token,
             UnsubscribeUnknown(c, d, t)
      PROVE  TypeInv'
    BY <1>7 DEF UnsubscribeUnknown
<1>8. ASSUME NEW c \in Callers, UnsubscribeSub(c) PROVE TypeInv'
    BY <1>8 DEF UnsubscribeSub
<1>9. ASSUME NEW c \in Callers, CloseBegin(c) PROVE TypeInv'
    BY <1>9 DEF CloseBegin, Collect, States
<1>10. ASSUME NEW c \in Callers, NEW s \in Sub, CloseUnsubscribe(c, s)
       PROVE  TypeInv'
    BY <1>10 DEF CloseUnsubscribe
<1>11. ASSUME NEW c \in Callers, CloseReturn(c) PROVE TypeInv'
    BY <1>11 DEF CloseReturn
<1>12. ASSUME NEW s \in Sub, ReadMessage(s) PROVE TypeInv'
    BY <1>12 DEF ReadMessage
<1>13. ASSUME NEW s \in Sub, ReadError(s) PROVE TypeInv'
    BY <1>13 DEF ReadError
<1>14. ASSUME NEW s \in Sub, ReadClosed(s) PROVE TypeInv'
    BY <1>14 DEF ReadClosed
<1>15. ASSUME NEW s \in Sub, Snapshot(s) PROVE TypeInv'
    BY <1>15 DEF Snapshot, OwnHandlers
<1>16. ASSUME NEW s \in Sub, NEW t \in Token, Dispatch(s, t) PROVE TypeInv'
    BY <1>16 DEF Dispatch
<1>17. ASSUME NEW s \in Sub, MarkDead(s) PROVE TypeInv'
    BY <1>17 DEF MarkDead
<1>18. ASSUME NEW s \in Sub, Deregister(s) PROVE TypeInv'
    BY <1>18 DEF Deregister
<1>19. ASSUME NEW s \in Sub, Publish(s) PROVE TypeInv'
    BY <1>19 DEF Publish
<1>20. ASSUME NEW s \in Sub, Peer(s) PROVE TypeInv'
    <2>1. CASE PeerMessage(s)
        BY <2>1 DEF PeerMessage
    <2>2. CASE PeerError(s)
        BY <2>2 DEF PeerError
    <2>3. CASE PeerClose(s)
        BY <2>3 DEF PeerClose
    <2>4. QED
        BY <1>20, <2>1, <2>2, <2>3 DEF Peer
<1>21. ASSUME NEW s \in Sub, StopClose(s) PROVE TypeInv'
    BY <1>21 DEF StopClose
<1>22. CASE UNCHANGED vars
    BY <1>22 DEF vars
<1>23. QED
    BY <1>1, <1>2, <1>3, <1>4, <1>5, <1>6, <1>7, <1>8, <1>9, <1>10, <1>11,
       <1>12, <1>13, <1>14, <1>15, <1>16, <1>17, <1>18, <1>19, <1>20, <1>21,
       <1>22
    DEF Next, CallerBegin, CallerStep, ReaderStep

\* Every variable has its type in every state.
THEOREM TypeCorrect == Spec => []TypeOK
<1>1. TypeInv => TypeOK
    BY DEF TypeInv
<1>2. QED
    BY <1>1, TypeInvInit, TypeInvStep, PTL DEF Spec

-----------------------------------------------------------------------------
(***************************************************************************)
(* The core: who holds r.mu, which destStates exist, what done says about  *)
(* the reader, and the health contract itself.                             *)
(***************************************************************************)

\* r.mu is held exactly by the caller inside conn.Subscribe.
MutexHeld == \A c \in Callers : cpc[c] = "dial" <=> mu = c

\* A destState exists from the moment its reader starts, and has a destination.
Existing ==
    \A s \in Sub :
        /\ s <= nsubs => destOf[s] \in Dests /\ rpc[s] # "none"
        /\ s > nsubs => destOf[s] = None /\ rpc[s] = "none"

\* done is closed exactly from close(state.done) on.
DoneTells ==
    \A s \in Sub : done[s] <=> rpc[s] \in {"dereg", "publish", "gone"}

CoreInv == TypeInv /\ MutexHeld /\ Existing /\ DoneTells /\ RegistryLive

LEMMA CoreInit == Init => CoreInv
<1> SUFFICES ASSUME Init PROVE CoreInv
    OBVIOUS
<1>1. TypeInv
    BY TypeInvInit
<1>2. MutexHeld /\ DoneTells /\ RegistryLive
    BY RouterAssumption DEF Init, MutexHeld, DoneTells, RegistryLive
<1>3. Existing
    BY DEF Init, Existing, Sub
<1>4. QED
    BY <1>1, <1>2, <1>3 DEF CoreInv

LEMMA MutexHeldStep == TypeInv /\ MutexHeld /\ [Next]_vars => MutexHeld'
<1> SUFFICES ASSUME TypeInv, MutexHeld, [Next]_vars,
                    NEW b \in Callers
             PROVE  (cpc[b] = "dial" <=> mu = b)'
    BY DEF MutexHeld
<1>0. /\ cpc \in [Callers -> CallerPc]
      /\ cpc[b] = "dial" <=> mu = b
      /\ \A c \in Callers : cpc[c] = "dial" <=> mu = c
      /\ None \notin Callers
    BY RouterAssumption DEF TypeInv, TypeOK, MutexHeld
<1>1. ASSUME NEW c \in Callers, SubscribeDial(c)
      PROVE  (cpc[b] = "dial" <=> mu = b)'
    BY <1>0, <1>1 DEF SubscribeDial
<1>2. ASSUME NEW c \in Callers, SubscribeFresh(c) \/ SubscribeFailed(c)
      PROVE  (cpc[b] = "dial" <=> mu = b)'
    BY <1>0, <1>2 DEF SubscribeFresh, SubscribeFailed, SubscribeReturn
<1>3. ASSUME NEW c \in Callers, mu' = mu, cpc[c] # "dial",
             \/ UNCHANGED cpc
             \/ \E x \in {"idle", "subscribe", "unsubscribe", "close"} :
                   cpc' = [cpc EXCEPT ![c] = x]
      PROVE  (cpc[b] = "dial" <=> mu = b)'
    BY <1>0, <1>3
<1>4. ASSUME NEW c \in Callers, NEW d \in Dests, SubscribeBegin(c, d)
      PROVE  (cpc[b] = "dial" <=> mu = b)'
    BY <1>3, <1>4 DEF SubscribeBegin
<1>5. ASSUME NEW c \in Callers, SubscribeAttach(c)
      PROVE  (cpc[b] = "dial" <=> mu = b)'
    BY <1>3, <1>5 DEF SubscribeAttach, SubscribeReturn, routerVars
<1>6. ASSUME NEW c \in Callers, NEW d \in Dests, NEW t \in Token,
             UnsubscribeToken(c, d, t)
      PROVE  (cpc[b] = "dial" <=> mu = b)'
    BY <1>3, <1>6 DEF UnsubscribeToken, DropLast
<1>7. ASSUME NEW c \in Callers, UnsubscribeSub(c) \/ CloseBegin(c) \/ CloseReturn(c)
      PROVE  (cpc[b] = "dial" <=> mu = b)'
    BY <1>3, <1>7 DEF UnsubscribeSub, CloseBegin, CloseReturn, routerVars
<1>8. ASSUME UNCHANGED <<mu, cpc>> PROVE (cpc[b] = "dial" <=> mu = b)'
    BY <1>0, <1>8
<1>9. ASSUME NEW c \in Callers, NEW d \in Dests, NEW t \in Token,
             UnsubscribeUnknown(c, d, t)
      PROVE  UNCHANGED <<mu, cpc>>
    BY <1>9 DEF UnsubscribeUnknown, routerVars, callerVars
<1>10. ASSUME NEW c \in Callers, NEW s \in Sub, CloseUnsubscribe(c, s)
       PROVE  UNCHANGED <<mu, cpc>>
    BY <1>10 DEF CloseUnsubscribe, routerVars
<1>11. ASSUME NEW s \in Sub, ReaderStep(s) \/ StopClose(s) \/ Peer(s)
       PROVE  UNCHANGED <<mu, cpc>>
    BY <1>11 DEF ReaderStep, ReadMessage, ReadError, ReadClosed, Snapshot,
       Dispatch, MarkDead, Deregister, Publish, StopClose, Peer, PeerMessage,
       PeerError, PeerClose, routerVars, callerVars
<1>12. CASE UNCHANGED vars
    BY <1>8, <1>12 DEF vars, routerVars, callerVars
<1>13. QED
    BY <1>1, <1>2, <1>4, <1>5, <1>6, <1>7, <1>8, <1>9, <1>10, <1>11, <1>12
    DEF Next, CallerBegin, CallerStep

\* What a reader does to its program counter, and to done, before it
\* deregisters.
ReaderMoves(s, from, to) ==
    /\ rpc[s] \in from
    /\ \E x \in to : rpc' = [rpc EXCEPT ![s] = x]

Looping == {"range", "snapshot", "dispatch"}

\* The steps of readLoop up to close(state.done) touch neither the registry nor
\* the handlers.
LEMMA LoopStep ==
    ASSUME NEW s \in Sub,
           \/ ReadMessage(s) \/ ReadError(s) \/ ReadClosed(s) \/ Snapshot(s)
           \/ \E t \in Token : Dispatch(s, t)
    PROVE  /\ ReaderMoves(s, Looping, Looping \cup {"exit"})
           /\ UNCHANGED <<routerVars, stateVars, callerVars, historyVars>>
           /\ UNCHANGED <<closed, stop>>
<1>1. CASE ReadMessage(s)
    BY <1>1 DEF ReadMessage, ReaderMoves, Looping
<1>2. CASE ReadError(s)
    BY <1>2 DEF ReadError, ReaderMoves, Looping
<1>3. CASE ReadClosed(s)
    BY <1>3 DEF ReadClosed, ReaderMoves, Looping, subVars
<1>4. CASE Snapshot(s)
    BY <1>4 DEF Snapshot, ReaderMoves, Looping, subVars
<1>5. ASSUME NEW t \in Token, Dispatch(s, t)
      PROVE  /\ ReaderMoves(s, Looping, Looping \cup {"exit"})
             /\ UNCHANGED <<routerVars, stateVars, callerVars, historyVars>>
             /\ UNCHANGED <<closed, stop>>
    BY <1>5 DEF Dispatch, ReaderMoves, Looping, subVars
<1>6. QED
    BY <1>1, <1>2, <1>3, <1>4, <1>5

\* The transport touches only the subscription.
LEMMA TransportStep ==
    ASSUME NEW s \in Sub, StopClose(s) \/ Peer(s)
    PROVE  /\ UNCHANGED <<routerVars, stateVars, readerVars, callerVars, historyVars>>
           /\ UNCHANGED stop
           /\ closed' = closed \/ closed' = [closed EXCEPT ![s] = TRUE]
BY DEF StopClose, Peer, PeerMessage, PeerError, PeerClose

LEMMA ExistingStep ==
    TypeInv /\ Existing /\ [Next]_vars => Existing'
<1> SUFFICES ASSUME TypeInv, Existing, [Next]_vars, NEW r \in Sub
             PROVE  (/\ r <= nsubs => destOf[r] \in Dests /\ rpc[r] # "none"
                     /\ r > nsubs => destOf[r] = None /\ rpc[r] = "none")'
    BY DEF Existing
<1> DEFINE Good == /\ r <= nsubs => destOf[r] \in Dests /\ rpc[r] # "none"
                   /\ r > nsubs => destOf[r] = None /\ rpc[r] = "none"
<1>0. /\ rpc \in [Sub -> ReaderPc] /\ destOf \in [Sub -> Dests \cup {None}]
      /\ nsubs \in Nat /\ r \in Nat /\ None \notin Dests
    BY RouterAssumption DEF TypeInv, TypeOK, Sub
<1>01. Good
    BY DEF Existing
<1>1. ASSUME NEW c \in Callers, SubscribeFresh(c) PROVE Good'
    <2>1. nsubs + 1 \in Sub /\ cdest[c] \in Dests
        BY <1>1, RouterAssumption DEF SubscribeFresh, TypeInv, TypeOK, Locals, Sub
    <2>2. /\ nsubs' = nsubs + 1
          /\ destOf' = [destOf EXCEPT ![nsubs + 1] = cdest[c]]
          /\ rpc' = [rpc EXCEPT ![nsubs + 1] = "range"]
        BY <1>1 DEF SubscribeFresh
    <2>3. CASE r = nsubs + 1
        BY <1>0, <2>1, <2>2, <2>3
    <2>4. CASE r # nsubs + 1
        BY <1>0, <1>01, <2>1, <2>2, <2>4
    <2>5. QED
        BY <2>3, <2>4
<1>2. ASSUME NEW s \in Sub, UNCHANGED <<nsubs, destOf>>, rpc[s] # "none",
             \E x \in ReaderPc \ {"none"} : rpc' = [rpc EXCEPT ![s] = x]
      PROVE  Good'
    BY <1>0, <1>01, <1>2
<1>3. ASSUME UNCHANGED <<nsubs, destOf, rpc>> PROVE Good'
    BY <1>01, <1>3
<1>4. ASSUME NEW s \in Sub,
             \/ ReadMessage(s) \/ ReadError(s) \/ ReadClosed(s) \/ Snapshot(s)
             \/ \E t \in Token : Dispatch(s, t)
      PROVE  Good'
    BY <1>2, <1>4, LoopStep DEF ReaderMoves, Looping, ReaderPc, stateVars
<1>5. ASSUME NEW s \in Sub, MarkDead(s) \/ Deregister(s) \/ Publish(s)
      PROVE  Good'
    BY <1>2, <1>5 DEF MarkDead, Deregister, Publish, ReaderPc, stateVars
<1>6. ASSUME NEW s \in Sub, StopClose(s) \/ Peer(s) PROVE Good'
    BY <1>3, <1>6, TransportStep DEF stateVars, readerVars
<1>7. ASSUME NEW c \in Callers, CallerBegin(c) PROVE Good'
    BY <1>3, <1>7 DEF CallerBegin, SubscribeBegin, UnsubscribeToken,
       UnsubscribeUnknown, CloseBegin, stateVars, readerVars
<1>8. ASSUME NEW c \in Callers, CallerStep(c), ~SubscribeFresh(c) PROVE Good'
    BY <1>3, <1>8 DEF CallerStep, SubscribeAttach, SubscribeDial,
       SubscribeFailed, UnsubscribeSub, CloseUnsubscribe, CloseReturn,
       stateVars, readerVars
<1>9. CASE UNCHANGED vars
    BY <1>3, <1>9 DEF vars, stateVars, readerVars
<1>10. QED
    BY <1>1, <1>4, <1>5, <1>6, <1>7, <1>8, <1>9 DEF Next, ReaderStep

LEMMA DoneTellsStep ==
    TypeInv /\ Existing /\ DoneTells /\ [Next]_vars => DoneTells'
<1> SUFFICES ASSUME TypeInv, Existing, DoneTells, [Next]_vars, NEW r \in Sub
             PROVE  (done[r] <=> rpc[r] \in {"dereg", "publish", "gone"})'
    BY DEF DoneTells
<1> DEFINE Good == done[r] <=> rpc[r] \in {"dereg", "publish", "gone"}
<1>0. rpc \in [Sub -> ReaderPc] /\ done \in [Sub -> BOOLEAN]
    BY DEF TypeInv, TypeOK
<1>01. Good
    BY DEF DoneTells
<1>1. ASSUME NEW c \in Callers, SubscribeFresh(c) PROVE Good'
    <2>1. nsubs + 1 \in Sub /\ rpc[nsubs + 1] = "none"
        BY <1>1, RouterAssumption
        DEF SubscribeFresh, TypeInv, TypeOK, Existing, Sub
    <2>2. done' = done /\ rpc' = [rpc EXCEPT ![nsubs + 1] = "range"]
        BY <1>1 DEF SubscribeFresh
    <2>3. QED
        BY <1>0, <1>01, <2>1, <2>2
<1>2. ASSUME NEW s \in Sub, MarkDead(s) PROVE Good'
    BY <1>0, <1>01, <1>2 DEF MarkDead
<1>3. ASSUME NEW s \in Sub, Deregister(s) \/ Publish(s) PROVE Good'
    BY <1>0, <1>01, <1>3 DEF Deregister, Publish, stateVars
<1>4. ASSUME NEW s \in Sub,
             \/ ReadMessage(s) \/ ReadError(s) \/ ReadClosed(s) \/ Snapshot(s)
             \/ \E t \in Token : Dispatch(s, t)
      PROVE  Good'
    BY <1>0, <1>01, <1>4, LoopStep DEF ReaderMoves, Looping, stateVars
<1>5. ASSUME UNCHANGED <<done, rpc>> PROVE Good'
    BY <1>01, <1>5
<1>6. ASSUME NEW s \in Sub, StopClose(s) \/ Peer(s) PROVE Good'
    BY <1>5, <1>6, TransportStep DEF stateVars, readerVars
<1>7. ASSUME NEW c \in Callers, CallerBegin(c) PROVE Good'
    BY <1>5, <1>7 DEF CallerBegin, SubscribeBegin, UnsubscribeToken,
       UnsubscribeUnknown, CloseBegin, stateVars, readerVars
<1>8. ASSUME NEW c \in Callers, CallerStep(c), ~SubscribeFresh(c) PROVE Good'
    BY <1>5, <1>8 DEF CallerStep, SubscribeAttach, SubscribeDial,
       SubscribeFailed, UnsubscribeSub, CloseUnsubscribe, CloseReturn,
       stateVars, readerVars
<1>9. CASE UNCHANGED vars
    BY <1>5, <1>9 DEF vars, stateVars, readerVars
<1>10. QED
    BY <1>1, <1>2, <1>3, <1>4, <1>6, <1>7, <1>8, <1>9 DEF Next, ReaderStep

\* The health contract for one destination.
Healthy(d) ==
    dests[d] # NoSub =>
        /\ destOf[dests[d]] = d
        /\ handlers[dests[d]] # {}
        /\ IF done[dests[d]] THEN rpc[dests[d]] = "dereg"
           ELSE rpc[dests[d]] \in Looping \cup {"exit"}

LEMMA HealthyEverywhere == RegistryLive <=> \A d \in Dests : Healthy(d)
BY DEF RegistryLive, Healthy, Draining, Looping

LEMMA RegistryLiveStep ==
    TypeInv /\ Existing /\ DoneTells /\ RegistryLive /\ [Next]_vars
    => RegistryLive'
<1> SUFFICES ASSUME TypeInv, Existing, DoneTells, \A d \in Dests : Healthy(d),
                    [Next]_vars, NEW e \in Dests
             PROVE  Healthy(e)'
    BY HealthyEverywhere DEF RegistryLive, Healthy, Draining, Looping
<1>0. /\ dests \in [Dests -> Sub \cup {NoSub}] /\ rpc \in [Sub -> ReaderPc]
      /\ destOf \in [Sub -> Dests \cup {None}]
      /\ handlers \in [Sub -> SUBSET Token] /\ done \in [Sub -> BOOLEAN]
      /\ NoSub \notin Sub
    BY DEF TypeInv, TypeOK, Sub, NoSub
<1>01. Healthy(e)
    OBVIOUS
<1>1. ASSUME NEW c \in Callers, SubscribeAttach(c) PROVE Healthy(e)'
    <2>1. cdest[c] \in Dests
        BY <1>1 DEF SubscribeAttach, TypeInv, Locals
    <2>2. /\ UNCHANGED <<dests, destOf, done, rpc>>
          /\ handlers' = [handlers EXCEPT ![dests[cdest[c]]] = @ \cup {ctok[c]}]
        BY <1>1 DEF SubscribeAttach, routerVars, readerVars
    <2>3. QED
        BY <1>0, <1>01, <2>1, <2>2 DEF Healthy
<1>2. ASSUME NEW c \in Callers, SubscribeFresh(c) PROVE Healthy(e)'
    <2> DEFINE s == nsubs + 1
    <2>1. s \in Sub /\ cdest[c] \in Dests /\ nsubs \in Nat
        BY <1>2, RouterAssumption
        DEF SubscribeFresh, TypeInv, TypeOK, Locals, Sub
    <2>2. rpc[s] = "none" /\ ~done[s]
        BY <2>1 DEF Existing, DoneTells
    <2>3. /\ destOf' = [destOf EXCEPT ![s] = cdest[c]]
          /\ handlers' = [handlers EXCEPT ![s] = {ctok[c]}]
          /\ dests' = [dests EXCEPT ![cdest[c]] = s]
          /\ rpc' = [rpc EXCEPT ![s] = "range"]
          /\ done' = done
        BY <1>2 DEF SubscribeFresh
    <2> HIDE DEF s
    <2>4. CASE e = cdest[c]
        BY <1>0, <2>1, <2>2, <2>3, <2>4 DEF Healthy, Looping
    <2>5. CASE e # cdest[c]
        <3>1. dests[e] # s
            BY <1>0, <1>01, <2>1, <2>2 DEF Healthy, Looping
        <3>2. QED
            BY <1>0, <1>01, <2>1, <2>3, <2>5, <3>1 DEF Healthy
    <2>6. QED
        BY <2>4, <2>5
<1>3. ASSUME NEW c \in Callers, NEW d \in Dests, NEW t \in Token,
             UnsubscribeToken(c, d, t)
      PROVE  Healthy(e)'
    <2>1. /\ dests[d] \in Sub
          /\ handlers' = [handlers EXCEPT ![dests[d]] = @ \ {t}]
          /\ UNCHANGED <<destOf, done, rpc>>
        BY <1>0, <1>3 DEF UnsubscribeToken, readerVars
    <2>2. CASE LastHandler(dests[d], t)
        <3>1. dests' = [dests EXCEPT ![d] = NoSub]
            BY <1>3, <2>2 DEF UnsubscribeToken, DropLast
        <3>2. QED
            BY <1>0, <1>01, <2>1, <3>1 DEF Healthy
    <2>3. CASE ~LastHandler(dests[d], t)
        <3>1. dests' = dests
            BY <1>3, <2>3 DEF UnsubscribeToken
        <3>2. handlers[dests[d]] \ {t} # {}
            BY <2>3 DEF LastHandler
        <3>3. QED
            BY <1>0, <1>01, <2>1, <3>1, <3>2 DEF Healthy
    <2>4. QED
        BY <2>2, <2>3
<1>4. ASSUME NEW c \in Callers, CloseBegin(c) PROVE Healthy(e)'
    BY <1>4 DEF CloseBegin, Healthy
<1>5. ASSUME NEW s \in Sub,
             \/ ReadMessage(s) \/ ReadError(s) \/ ReadClosed(s) \/ Snapshot(s)
             \/ \E t \in Token : Dispatch(s, t)
      PROVE  Healthy(e)'
    <2>1. /\ ReaderMoves(s, Looping, Looping \cup {"exit"})
          /\ UNCHANGED <<dests, destOf, handlers, done>>
        BY <1>5, LoopStep DEF routerVars, stateVars
    <2>2. ~done[s]
        BY <2>1 DEF ReaderMoves, Looping, DoneTells
    <2>3. QED
        BY <1>0, <1>01, <2>1, <2>2 DEF ReaderMoves, Healthy
<1>6. ASSUME NEW s \in Sub, MarkDead(s) PROVE Healthy(e)'
    <2>1. /\ UNCHANGED <<dests, destOf, handlers>>
          /\ done' = [done EXCEPT ![s] = TRUE]
          /\ rpc' = [rpc EXCEPT ![s] = "dereg"]
        BY <1>6 DEF MarkDead, routerVars
    <2>2. QED
        BY <1>0, <1>01, <2>1 DEF Healthy
<1>7. ASSUME NEW s \in Sub, Deregister(s) PROVE Healthy(e)'
    <2>1. UNCHANGED <<destOf, handlers, done>>
        BY <1>7 DEF Deregister, stateVars
    <2>2. CASE dests[e] = s
        <3>1. destOf[s] = e
            BY <1>0, <1>01, <2>2 DEF Healthy
        <3>2. dests'[e] = NoSub
            BY <1>0, <1>7, <2>2, <3>1 DEF Deregister
        <3>3. QED
            BY <3>2 DEF Healthy
    <2>3. CASE dests[e] # s
        <3>1. dests'[e] = dests[e] \/ dests'[e] = NoSub
            BY <1>0, <1>7 DEF Deregister
        <3>2. \A r \in Sub \ {s} : rpc'[r] = rpc[r]
            BY <1>0, <1>7 DEF Deregister
        <3>3. QED
            BY <1>0, <1>01, <2>1, <2>3, <3>1, <3>2 DEF Healthy
    <2>4. QED
        BY <2>2, <2>3
<1>8. ASSUME NEW s \in Sub, Publish(s) PROVE Healthy(e)'
    <2>1. /\ UNCHANGED <<dests, destOf, handlers, done>>
          /\ rpc[s] = "publish" /\ rpc' = [rpc EXCEPT ![s] = "gone"]
        BY <1>8 DEF Publish, routerVars, stateVars
    <2>2. done[s]
        BY <2>1 DEF DoneTells
    <2>3. QED
        BY <1>0, <1>01, <2>1, <2>2 DEF Healthy
<1>9. ASSUME UNCHANGED <<dests, destOf, handlers, done, rpc>> PROVE Healthy(e)'
    BY <1>01, <1>9 DEF Healthy
<1>10. ASSUME NEW s \in Sub, StopClose(s) \/ Peer(s) PROVE Healthy(e)'
    BY <1>9, <1>10, TransportStep DEF routerVars, stateVars, readerVars
<1>11. ASSUME NEW c \in Callers, NEW d \in Dests, NEW t \in Token,
              UnsubscribeUnknown(c, d, t)
       PROVE  Healthy(e)'
    BY <1>9, <1>11 DEF UnsubscribeUnknown, routerVars, stateVars, readerVars
<1>12. ASSUME NEW c \in Callers, NEW d \in Dests, SubscribeBegin(c, d)
       PROVE  Healthy(e)'
    BY <1>9, <1>12 DEF SubscribeBegin, stateVars, readerVars
<1>13. ASSUME NEW c \in Callers,
              \/ SubscribeDial(c) \/ SubscribeFailed(c) \/ UnsubscribeSub(c)
              \/ \E s \in Sub : CloseUnsubscribe(c, s)
              \/ CloseReturn(c)
       PROVE  Healthy(e)'
    BY <1>9, <1>13 DEF SubscribeDial, SubscribeFailed, UnsubscribeSub,
       CloseUnsubscribe, CloseReturn, routerVars, stateVars, readerVars
<1>14. CASE UNCHANGED vars
    BY <1>9, <1>14 DEF vars, routerVars, stateVars, readerVars
<1>15. QED
    BY <1>1, <1>2, <1>3, <1>4, <1>5, <1>6, <1>7, <1>8, <1>10, <1>11, <1>12,
       <1>13, <1>14
    DEF Next, CallerBegin, CallerStep, ReaderStep

LEMMA CoreInvariant == Spec => []CoreInv
<1>1. CoreInv /\ [Next]_vars => CoreInv'
    BY TypeInvStep, MutexHeldStep, ExistingStep, DoneTellsStep,
       RegistryLiveStep
    DEF CoreInv
<1>2. QED
    BY <1>1, CoreInit, PTL DEF Spec

\* The health contract: a registered destination has a reader that is still
\* draining its subscription, or has just closed done and not yet deregistered.
THEOREM RegistryIsLive == Spec => []RegistryLive
BY CoreInvariant, PTL DEF CoreInv

-----------------------------------------------------------------------------
(***************************************************************************)
(* Teardowns.  A destState leaves the registry once, by the router's own   *)
(* hand or by its reader's; which of the two is what tells a teardown from *)
(* a fault.                                                                *)
(***************************************************************************)

\* An error is published at the very end of readLoop.
ReportedLast == \A s \in Sub : reported[s] # "nothing" => rpc[s] = "gone"

\* A destState that the router took out of the registry is not in it, and if
\* its reader publishes all the same it has an error to publish.
Settled(s) ==
    TornDown(s) =>
        /\ \A d \in Dests : dests[d] # s
        /\ reported[s] # "closed"
        /\ rpc[s] # "none"
        /\ rpc[s] = "publish" => termErr[s]

TeardownInv == CoreInv /\ ReportedLast /\ \A s \in Sub : Settled(s)

LEMMA ReportedLastStep ==
    CoreInv /\ ReportedLast /\ [Next]_vars => ReportedLast'
<1> SUFFICES ASSUME CoreInv, ReportedLast, [Next]_vars, NEW r \in Sub,
                    reported'[r] # "nothing"
             PROVE  rpc'[r] = "gone"
    BY DEF ReportedLast
<1>0. /\ rpc \in [Sub -> ReaderPc]
      /\ reported \in [Sub -> {"nothing", "error", "closed"}]
      /\ reported[r] # "nothing" => rpc[r] = "gone"
    BY DEF CoreInv, TypeInv, TypeOK, ReportedLast
<1>1. ASSUME NEW c \in Callers, SubscribeFresh(c) PROVE rpc'[r] = "gone"
    <2>1. nsubs + 1 \in Sub /\ rpc[nsubs + 1] = "none"
        BY <1>1, RouterAssumption
        DEF SubscribeFresh, CoreInv, TypeInv, TypeOK, Existing, Sub
    <2>2. reported' = reported /\ rpc' = [rpc EXCEPT ![nsubs + 1] = "range"]
        BY <1>1 DEF SubscribeFresh
    <2>3. QED
        BY <1>0, <2>1, <2>2
<1>2. ASSUME NEW s \in Sub, Publish(s) PROVE rpc'[r] = "gone"
    BY <1>0, <1>2 DEF Publish
<1>3. ASSUME NEW s \in Sub, reported' = reported, rpc[s] # "gone",
             \E x \in ReaderPc : rpc' = [rpc EXCEPT ![s] = x]
      PROVE  rpc'[r] = "gone"
    BY <1>0, <1>3
<1>4. ASSUME NEW s \in Sub,
             \/ ReadMessage(s) \/ ReadError(s) \/ ReadClosed(s) \/ Snapshot(s)
             \/ \E t \in Token : Dispatch(s, t)
      PROVE  rpc'[r] = "gone"
    BY <1>3, <1>4, LoopStep DEF ReaderMoves, Looping, ReaderPc, historyVars
<1>5. ASSUME NEW s \in Sub, MarkDead(s) \/ Deregister(s) PROVE rpc'[r] = "gone"
    BY <1>3, <1>5 DEF MarkDead, Deregister, ReaderPc, historyVars
<1>6. ASSUME UNCHANGED <<reported, rpc>> PROVE rpc'[r] = "gone"
    BY <1>0, <1>6
<1>7. ASSUME NEW s \in Sub, StopClose(s) \/ Peer(s) PROVE rpc'[r] = "gone"
    BY <1>6, <1>7, TransportStep DEF readerVars, historyVars
<1>8. ASSUME NEW c \in Callers, CallerBegin(c) PROVE rpc'[r] = "gone"
    BY <1>6, <1>8 DEF CallerBegin, SubscribeBegin, UnsubscribeToken,
       UnsubscribeUnknown, CloseBegin, readerVars, historyVars
<1>9. ASSUME NEW c \in Callers, CallerStep(c), ~SubscribeFresh(c)
      PROVE  rpc'[r] = "gone"
    BY <1>6, <1>9 DEF CallerStep, SubscribeAttach, SubscribeDial,
       SubscribeFailed, UnsubscribeSub, CloseUnsubscribe, CloseReturn,
       readerVars, historyVars
<1>10. CASE UNCHANGED vars
    BY <1>6, <1>10 DEF vars, readerVars, historyVars
<1>11. QED
    BY <1>1, <1>2, <1>4, <1>5, <1>7, <1>8, <1>9, <1>10 DEF Next, ReaderStep

LEMMA SettledStep ==
    TeardownInv /\ [Next]_vars => \A s \in Sub : Settled(s)'
<1> SUFFICES ASSUME TeardownInv, [Next]_vars, NEW r \in Sub PROVE Settled(r)'
    OBVIOUS
<1>0. /\ dests \in [Dests -> Sub \cup {NoSub}] /\ rpc \in [Sub -> ReaderPc]
      /\ destOf \in [Sub -> Dests \cup {None}]
      /\ teardown \in [Sub -> {"none", "unsubscribe", "close"}]
      /\ reported \in [Sub -> {"nothing", "error", "closed"}]
      /\ termErr \in [Sub -> BOOLEAN]
      /\ NoSub \notin Sub
    BY DEF TeardownInv, CoreInv, TypeInv, TypeOK, Sub, NoSub
<1>01. Settled(r)
    BY DEF TeardownInv
\* A registered destState has published nothing and is not about to.
<1>02. ASSUME NEW d \in Dests, dests[d] = r
       PROVE  /\ reported[r] = "nothing" /\ rpc[r] \notin {"none", "publish"}
              /\ destOf[r] = d
    <2>1. Healthy(d)
        BY HealthyEverywhere DEF TeardownInv, CoreInv
    <2>2. rpc[r] \in Looping \cup {"exit", "dereg"} /\ destOf[r] = d
        BY <1>0, <1>02, <2>1 DEF Healthy
    <2>3. QED
        BY <2>2 DEF Looping, TeardownInv, ReportedLast
<1>1. ASSUME NEW c \in Callers, SubscribeFresh(c) PROVE Settled(r)'
    <2>1. /\ nsubs + 1 \in Sub /\ cdest[c] \in Dests
          /\ rpc[nsubs + 1] = "none"
        BY <1>1, RouterAssumption
        DEF SubscribeFresh, TeardownInv, CoreInv, TypeInv, TypeOK, Locals,
            Existing, Sub
    <2>2. /\ dests' = [dests EXCEPT ![cdest[c]] = nsubs + 1]
          /\ rpc' = [rpc EXCEPT ![nsubs + 1] = "range"]
          /\ UNCHANGED <<teardown, reported, termErr>>
        BY <1>1 DEF SubscribeFresh
    <2>3. QED
        BY <1>0, <1>01, <2>1, <2>2 DEF Settled, TornDown
<1>2. ASSUME NEW c \in Callers, NEW d \in Dests, NEW t \in Token,
             UnsubscribeToken(c, d, t)
      PROVE  Settled(r)'
    <2>1. UNCHANGED <<rpc, termErr, reported>> /\ dests[d] \in Sub
        BY <1>0, <1>2 DEF UnsubscribeToken, readerVars
    <2>2. CASE LastHandler(dests[d], t)
        <3>1. /\ dests' = [dests EXCEPT ![d] = NoSub]
              /\ teardown' = [teardown EXCEPT ![dests[d]] = "unsubscribe"]
            BY <1>2, <2>2 DEF UnsubscribeToken, DropLast
        <3>2. CASE dests[d] = r
            <4>1. \A e \in Dests : dests'[e] # r
                BY <1>0, <1>02, <3>1, <3>2
            <4>2. QED
                BY <1>02, <2>1, <3>2, <4>1 DEF Settled
        <3>3. CASE dests[d] # r
            BY <1>0, <1>01, <2>1, <3>1, <3>3 DEF Settled, TornDown
        <3>4. QED
            BY <3>2, <3>3
    <2>3. CASE ~LastHandler(dests[d], t)
        BY <1>01, <1>2, <2>1, <2>3 DEF UnsubscribeToken, Settled, TornDown
    <2>4. QED
        BY <2>2, <2>3
<1>3. ASSUME NEW c \in Callers, CloseBegin(c) PROVE Settled(r)'
    <2>1. /\ UNCHANGED <<rpc, termErr, reported>>
          /\ \A d \in Dests : dests'[d] = NoSub
          /\ teardown'[r] = IF r \in States THEN "close" ELSE teardown[r]
        BY <1>3 DEF CloseBegin, readerVars
    <2>2. CASE r \in States
        BY <1>0, <1>02, <2>1, <2>2 DEF States, Settled
    <2>3. CASE r \notin States
        BY <1>0, <1>01, <2>1, <2>3 DEF Settled, TornDown
    <2>4. QED
        BY <2>2, <2>3
<1>4. ASSUME NEW s \in Sub, Deregister(s) PROVE Settled(r)'
    <2>1. UNCHANGED <<teardown, termErr, reported>>
        BY <1>4 DEF Deregister, historyVars
    <2>2. \A d \in Dests : dests'[d] = dests[d] \/ dests'[d] = NoSub
        BY <1>0, <1>4 DEF Deregister
    <2>3. CASE s = r
        <3>1. destOf[r] \in Dests
            BY <1>0, <1>4, <2>3 DEF Deregister, TeardownInv, CoreInv, Existing,
               TypeInv, TypeOK, Sub
        <3>2. TornDown(r) => dests[destOf[r]] # r
            BY <1>01, <3>1 DEF Settled
        <3>3. rpc'[r] = IF termErr[r] \/ dests[destOf[r]] = r
                        THEN "publish" ELSE "gone"
            BY <1>0, <1>4, <2>3 DEF Deregister
        <3>4. QED
            BY <1>0, <1>01, <2>1, <2>2, <3>2, <3>3 DEF Settled, TornDown
    <2>4. CASE s # r
        <3>1. rpc'[r] = rpc[r]
            BY <1>0, <1>4, <2>4 DEF Deregister
        <3>2. QED
            BY <1>0, <1>01, <2>1, <2>2, <3>1 DEF Settled, TornDown
    <2>5. QED
        BY <2>3, <2>4
<1>5. ASSUME NEW s \in Sub, Publish(s) PROVE Settled(r)'
    <2>1. /\ UNCHANGED <<dests, teardown, termErr>> /\ rpc[s] = "publish"
          /\ rpc' = [rpc EXCEPT ![s] = "gone"]
          /\ reported' = [reported EXCEPT ![s] =
                              IF termErr[s] THEN "error" ELSE "closed"]
        BY <1>5 DEF Publish, routerVars
    <2>2. QED
        BY <1>0, <1>01, <2>1 DEF Settled, TornDown
<1>6. ASSUME NEW s \in Sub, UNCHANGED <<dests, teardown, reported>>,
             \E x \in ReaderPc \ {"none", "publish"} :
                rpc' = [rpc EXCEPT ![s] = x],
             rpc[s] # "publish",
             \A q \in Sub \ {s} : termErr'[q] = termErr[q]
      PROVE  Settled(r)'
    BY <1>0, <1>01, <1>6 DEF Settled, TornDown
<1>7. ASSUME NEW s \in Sub,
             \/ ReadMessage(s) \/ ReadError(s) \/ ReadClosed(s) \/ Snapshot(s)
             \/ \E t \in Token : Dispatch(s, t)
      PROVE  Settled(r)'
    <2>1. /\ UNCHANGED <<dests, teardown, reported>>
          /\ ReaderMoves(s, Looping, Looping \cup {"exit"})
        BY <1>7, LoopStep DEF routerVars, historyVars
    <2>2. \A q \in Sub \ {s} : termErr'[q] = termErr[q]
        BY <1>0, <1>7 DEF ReadMessage, ReadError, ReadClosed, Snapshot, Dispatch
    <2>3. QED
        BY <1>6, <2>1, <2>2 DEF ReaderMoves, Looping, ReaderPc
<1>8. ASSUME NEW s \in Sub, MarkDead(s) PROVE Settled(r)'
    BY <1>6, <1>8 DEF MarkDead, ReaderPc, routerVars, historyVars
<1>9. ASSUME UNCHANGED <<dests, teardown, reported, rpc, termErr>>
      PROVE  Settled(r)'
    BY <1>01, <1>9 DEF Settled, TornDown
<1>10. ASSUME NEW s \in Sub, StopClose(s) \/ Peer(s) PROVE Settled(r)'
    BY <1>9, <1>10, TransportStep DEF routerVars, readerVars, historyVars
<1>11. ASSUME NEW c \in Callers, NEW d \in Dests, NEW t \in Token,
              UnsubscribeUnknown(c, d, t)
       PROVE  Settled(r)'
    BY <1>9, <1>11 DEF UnsubscribeUnknown, routerVars, readerVars
<1>12. ASSUME NEW c \in Callers, NEW d \in Dests, SubscribeBegin(c, d)
       PROVE  Settled(r)'
    BY <1>9, <1>12 DEF SubscribeBegin, readerVars, historyVars
<1>13. ASSUME NEW c \in Callers,
              \/ SubscribeAttach(c) \/ SubscribeDial(c) \/ SubscribeFailed(c)
              \/ UnsubscribeSub(c) \/ CloseReturn(c)
              \/ \E s \in Sub : CloseUnsubscribe(c, s)
       PROVE  Settled(r)'
    BY <1>9, <1>13 DEF SubscribeAttach, SubscribeDial, SubscribeFailed,
       UnsubscribeSub, CloseUnsubscribe, CloseReturn, routerVars, readerVars,
       historyVars
<1>14. CASE UNCHANGED vars
    BY <1>9, <1>14 DEF vars, routerVars, readerVars, historyVars
<1>15. QED
    BY <1>1, <1>2, <1>3, <1>4, <1>5, <1>7, <1>8, <1>10, <1>11, <1>12, <1>13,
       <1>14
    DEF Next, CallerBegin, CallerStep, ReaderStep

LEMMA TeardownInvariant == Spec => []TeardownInv
<1>1. Init => ReportedLast /\ \A s \in Sub : Settled(s)
    BY DEF Init, ReportedLast, Settled, TornDown
<1>2. TeardownInv /\ [Next]_vars => (ReportedLast /\ \A s \in Sub : Settled(s))'
    BY ReportedLastStep, SettledStep DEF TeardownInv
<1>3. QED
    BY <1>1, <1>2, CoreInvariant, PTL DEF Spec, TeardownInv

\* "Our own teardown is never reported as a fault": no reader of a destState
\* that Unsubscribe or Close deregistered publishes ErrSubscriptionClosed.
THEOREM TeardownIsNotAFault == Spec => []OwnTeardownNotAFault
<1>1. TeardownInv => OwnTeardownNotAFault
    BY DEF TeardownInv, Settled, OwnTeardownNotAFault
<1>2. QED
    BY <1>1, TeardownInvariant, PTL

-----------------------------------------------------------------------------
(***************************************************************************)
(* done, once closed, bars a destState to newcomers.                       *)
(***************************************************************************)

\* No handler joins a destState whose reader has closed done.
THEOREM DeadStaysAlone == Spec => DeadNeverJoined
<1>1. CoreInv /\ [Next]_vars
      => [\A s \in Sub : done[s] => handlers'[s] \subseteq handlers[s]]_vars
    <2> SUFFICES ASSUME CoreInv, Next, NEW r \in Sub, done[r]
                 PROVE  handlers'[r] \subseteq handlers[r]
        BY DEF vars
    <2>0. /\ handlers \in [Sub -> SUBSET Token]
          /\ dests \in [Dests -> Sub \cup {NoSub}]
        BY DEF CoreInv, TypeInv, TypeOK
    <2>1. ASSUME NEW c \in Callers, SubscribeAttach(c)
          PROVE  handlers'[r] \subseteq handlers[r]
        <3>1. dests[cdest[c]] # r
            BY <2>1 DEF SubscribeAttach, Reusable
        <3>2. QED
            BY <2>0, <2>1, <3>1 DEF SubscribeAttach
    <2>2. ASSUME NEW c \in Callers, SubscribeFresh(c)
          PROVE  handlers'[r] \subseteq handlers[r]
        <3>1. nsubs + 1 \in Sub /\ rpc[nsubs + 1] = "none"
            BY <2>2, RouterAssumption
            DEF SubscribeFresh, CoreInv, TypeInv, TypeOK, Existing, Sub
        <3>2. nsubs + 1 # r
            BY <3>1 DEF CoreInv, DoneTells
        <3>3. QED
            BY <2>0, <2>2, <3>1, <3>2 DEF SubscribeFresh
    <2>3. ASSUME NEW c \in Callers, NEW d \in Dests, NEW t \in Token,
                 UnsubscribeToken(c, d, t)
          PROVE  handlers'[r] \subseteq handlers[r]
        BY <2>0, <2>3 DEF UnsubscribeToken
    <2>4. ASSUME NEW c \in Callers, CallerBegin(c),
                 ~\E d \in Dests, t \in Token : UnsubscribeToken(c, d, t)
          PROVE  handlers' = handlers
        BY <2>4 DEF CallerBegin, SubscribeBegin, UnsubscribeUnknown, CloseBegin,
           stateVars
    <2>5. ASSUME NEW c \in Callers, CallerStep(c), ~SubscribeAttach(c),
                 ~SubscribeFresh(c)
          PROVE  handlers' = handlers
        BY <2>5 DEF CallerStep, SubscribeDial, SubscribeFailed, UnsubscribeSub,
           CloseUnsubscribe, CloseReturn, stateVars
    <2>6. ASSUME NEW s \in Sub, ReaderStep(s) PROVE handlers' = handlers
        BY <2>6 DEF ReaderStep, ReadMessage, ReadError, ReadClosed, Snapshot,
           Dispatch, MarkDead, Deregister, Publish, stateVars
    <2>7. ASSUME NEW s \in Sub, StopClose(s) \/ Peer(s)
          PROVE  handlers' = handlers
        BY <2>7, TransportStep DEF stateVars
    <2>8. QED
        BY <2>1, <2>2, <2>3, <2>4, <2>5, <2>6, <2>7 DEF Next
<1>2. QED
    BY <1>1, CoreInvariant, PTL DEF Spec, DeadNeverJoined
=============================================================================

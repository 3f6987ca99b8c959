----------------------- MODULE RouterLifecycleProofs ------------------------
(***************************************************************************)
(* What becomes of registrations, of the transport subscriptions behind    *)
(* them and of their readers, for any destinations, callers and bounds, and *)
(* that the router may stand on any transport.Subscription.                *)
(***************************************************************************)
EXTENDS RouterProofs, RouterTransport

-----------------------------------------------------------------------------
(***************************************************************************)
(* A token has its home, and a reader calls the handlers of its own.       *)
(***************************************************************************)

InSubscribe(c) == cpc[c] \in {"subscribe", "dial"}

\* A token in the making is below the counter and not yet registered; no two
\* calls have the same one.
FreshTokens ==
    /\ \A c \in Callers :
          InSubscribe(c) => ctok[c] <= nextToken /\ home[ctok[c]] = NoSub
    /\ \A b, c \in Callers :
          InSubscribe(b) /\ InSubscribe(c) /\ ctok[b] = ctok[c] => b = c
    /\ \A t \in Token : t > nextToken => home[t] = NoSub

\* A handler is registered with one destState for good.
AtHome ==
    \A s \in Sub, t \in Token :
        t \in handlers[s] \/ t \in snap[s] => home[t] = s

LEMMA FreshTokensStep == TypeInv /\ FreshTokens /\ [Next]_vars => FreshTokens'
<1> SUFFICES ASSUME TypeInv, FreshTokens, [Next]_vars PROVE FreshTokens'
    OBVIOUS
<1>0. /\ cpc \in [Callers -> CallerPc] /\ nextToken \in Nat
      /\ ctok \in [Callers -> Token \cup {0}]
      /\ home \in [Token -> Sub \cup {NoSub}]
      /\ Token \subseteq Nat
      /\ \A c \in Callers : InSubscribe(c) => ctok[c] \in Token
    BY RouterAssumption DEF TypeInv, TypeOK, Locals, InSubscribe, Token
<1>1. ASSUME NEW c \in Callers, NEW d \in Dests, SubscribeBegin(c, d)
      PROVE  FreshTokens'
    <2>1. /\ nextToken' = nextToken + 1 /\ home' = home
          /\ ctok' = [ctok EXCEPT ![c] = nextToken + 1]
          /\ cpc' = [cpc EXCEPT ![c] = "subscribe"]
          /\ nextToken + 1 \in Token
        BY <1>0, <1>1, RouterAssumption DEF SubscribeBegin, historyVars, Token
    <2>2. \A b \in Callers \ {c} : InSubscribe(b)' <=> InSubscribe(b)
        BY <1>0, <2>1 DEF InSubscribe
    <2>3. \A b \in Callers :
             InSubscribe(b)' => ctok'[b] <= nextToken' /\ home'[ctok'[b]] = NoSub
        <3> SUFFICES ASSUME NEW b \in Callers, InSubscribe(b)'
                     PROVE  /\ ctok'[b] <= nextToken'
                            /\ home'[ctok'[b]] = NoSub
            OBVIOUS
        <3>1. CASE b = c
            BY <1>0, <2>1, <3>1 DEF FreshTokens
        <3>2. CASE b # c
            <4>1. InSubscribe(b) /\ ctok'[b] = ctok[b] /\ ctok[b] \in Token
                BY <1>0, <2>1, <2>2, <3>2
            <4>2. ctok[b] <= nextToken /\ home[ctok[b]] = NoSub
                BY <4>1 DEF FreshTokens
            <4>3. ctok[b] <= nextToken + 1
                <5>1. ctok[b] \in Nat /\ nextToken \in Nat
                    BY <1>0, <4>1
                <5>2. QED
                    BY <4>2, <5>1
            <4>4. QED
                BY <2>1, <4>1, <4>2, <4>3
        <3>3. QED
            BY <3>1, <3>2
    <2>4. \A a, b \in Callers :
             InSubscribe(a)' /\ InSubscribe(b)' /\ ctok'[a] = ctok'[b] => a = b
        BY <1>0, <2>1, <2>2 DEF FreshTokens
    <2>5. \A t \in Token : t > nextToken' => home'[t] = NoSub
        BY <1>0, <2>1 DEF FreshTokens
    <2>6. QED
        BY <2>3, <2>4, <2>5 DEF FreshTokens
<1>2. ASSUME NEW c \in Callers, InSubscribe(c), nextToken' = nextToken,
             SubscribeReturn(c),
             \/ home' = home
             \/ \E s \in Sub : home' = [home EXCEPT ![ctok[c]] = s]
      PROVE  FreshTokens'
    <2>1. ~InSubscribe(c)'
        BY <1>0, <1>2 DEF SubscribeReturn, InSubscribe
    <2>2. \A b \in Callers \ {c} :
             (InSubscribe(b)' <=> InSubscribe(b)) /\ ctok'[b] = ctok[b]
        BY <1>0, <1>2 DEF SubscribeReturn, InSubscribe
    <2>3. \A b \in Callers :
             InSubscribe(b)' => ctok'[b] <= nextToken' /\ home'[ctok'[b]] = NoSub
        <3> SUFFICES ASSUME NEW b \in Callers, InSubscribe(b)'
                     PROVE  /\ ctok'[b] <= nextToken'
                            /\ home'[ctok'[b]] = NoSub
            OBVIOUS
        <3>1. InSubscribe(b) /\ b # c /\ ctok'[b] = ctok[b] /\ ctok[b] \in Token
            BY <1>0, <2>1, <2>2
        <3>2. ctok[b] # ctok[c] /\ ctok[b] <= nextToken /\ home[ctok[b]] = NoSub
            BY <1>2, <3>1 DEF FreshTokens
        <3>3. QED
            BY <1>0, <1>2, <3>1, <3>2
    <2>4. \A a, b \in Callers :
             InSubscribe(a)' /\ InSubscribe(b)' /\ ctok'[a] = ctok'[b] => a = b
        BY <2>1, <2>2 DEF FreshTokens
    <2>5. \A t \in Token : t > nextToken' => home'[t] = NoSub
        BY <1>0, <1>2 DEF FreshTokens
    <2>6. QED
        BY <2>3, <2>4, <2>5 DEF FreshTokens
<1>3. ASSUME NEW c \in Callers, SubscribeAttach(c) PROVE FreshTokens'
    <2>1. dests[cdest[c]] \in Sub
        BY <1>3 DEF SubscribeAttach, Reusable, TypeInv, TypeOK, Locals
    <2>2. QED
        BY <1>2, <1>3, <2>1 DEF SubscribeAttach, InSubscribe, routerVars
<1>4. ASSUME NEW c \in Callers, SubscribeFresh(c) PROVE FreshTokens'
    <2>1. nsubs + 1 \in Sub
        BY <1>4, RouterAssumption DEF SubscribeFresh, TypeInv, TypeOK, Sub
    <2>2. QED
        BY <1>2, <1>4, <2>1 DEF SubscribeFresh, InSubscribe
<1>5. ASSUME NEW c \in Callers, SubscribeFailed(c) PROVE FreshTokens'
    BY <1>2, <1>5 DEF SubscribeFailed, InSubscribe, historyVars
<1>6. ASSUME UNCHANGED <<nextToken, home, ctok>>,
             \A b \in Callers : InSubscribe(b)' <=> InSubscribe(b)
      PROVE  FreshTokens'
    BY <1>6 DEF FreshTokens
<1>7. ASSUME NEW c \in Callers, SubscribeDial(c) PROVE FreshTokens'
    BY <1>0, <1>6, <1>7 DEF SubscribeDial, InSubscribe, historyVars
<1>8. ASSUME NEW c \in Callers, NEW d \in Dests, NEW t \in Token,
             UnsubscribeToken(c, d, t)
      PROVE  FreshTokens'
    <2>1. UNCHANGED <<nextToken, home, ctok>>
        BY <1>8 DEF UnsubscribeToken
    <2>2. cpc[c] = "idle"
          /\ (cpc' = cpc \/ cpc' = [cpc EXCEPT ![c] = "unsubscribe"])
        BY <1>8 DEF UnsubscribeToken, DropLast
    <2>3. QED
        BY <1>0, <1>6, <2>1, <2>2 DEF InSubscribe
<1>9. ASSUME NEW c \in Callers,
             UnsubscribeSub(c) \/ CloseBegin(c) \/ CloseReturn(c)
      PROVE  FreshTokens'
    BY <1>0, <1>6, <1>9 DEF UnsubscribeSub, CloseBegin, CloseReturn,
       InSubscribe, routerVars, historyVars
<1>10. ASSUME UNCHANGED <<nextToken, home, ctok, cpc>> PROVE FreshTokens'
    BY <1>6, <1>10 DEF InSubscribe
<1>11. ASSUME NEW c \in Callers, NEW d \in Dests, NEW t \in Token,
              UnsubscribeUnknown(c, d, t)
       PROVE  FreshTokens'
    BY <1>10, <1>11 DEF UnsubscribeUnknown, routerVars, callerVars
<1>12. ASSUME NEW c \in Callers, NEW s \in Sub, CloseUnsubscribe(c, s)
       PROVE  FreshTokens'
    BY <1>10, <1>12 DEF CloseUnsubscribe, routerVars, historyVars
<1>13. ASSUME NEW s \in Sub, ReaderStep(s) PROVE FreshTokens'
    BY <1>10, <1>13 DEF ReaderStep, ReadMessage, ReadError, ReadClosed,
       Snapshot, Dispatch, MarkDead, Deregister, Publish, routerVars,
       callerVars, historyVars
<1>14. ASSUME NEW s \in Sub, StopClose(s) \/ Peer(s) PROVE FreshTokens'
    BY <1>10, <1>14, TransportStep DEF routerVars, callerVars, historyVars
<1>15. CASE UNCHANGED vars
    BY <1>10, <1>15 DEF vars, routerVars, callerVars, historyVars
<1>16. QED
    BY <1>1, <1>3, <1>4, <1>5, <1>7, <1>8, <1>9, <1>11, <1>12, <1>13, <1>14,
       <1>15
    DEF Next, CallerBegin, CallerStep

LEMMA AtHomeStep ==
    TypeInv /\ FreshTokens /\ AtHome /\ [Next]_vars => AtHome'
<1> SUFFICES ASSUME TypeInv, FreshTokens, AtHome, [Next]_vars,
                    NEW r \in Sub, NEW u \in Token,
                    u \in handlers'[r] \/ u \in snap'[r]
             PROVE  home'[u] = r
    BY DEF AtHome
<1>0. /\ handlers \in [Sub -> SUBSET Token] /\ snap \in [Sub -> SUBSET Token]
      /\ home \in [Token -> Sub \cup {NoSub}] /\ NoSub \notin Sub
    BY DEF TypeInv, TypeOK, Sub, NoSub
<1>01. u \in handlers[r] \/ u \in snap[r] => home[u] = r
    BY DEF AtHome
<1>1. ASSUME NEW c \in Callers, NEW s \in Sub, InSubscribe(c),
             home' = [home EXCEPT ![ctok[c]] = s], snap' = snap,
             \E H \in SUBSET (handlers[s] \cup {ctok[c]}) :
                handlers' = [handlers EXCEPT ![s] = H]
      PROVE  home'[u] = r
    <2>1. home[ctok[c]] = NoSub /\ ctok[c] \in Token
        BY <1>1 DEF FreshTokens, TypeInv, Locals, InSubscribe
    <2>2. QED
        BY <1>0, <1>01, <1>1, <2>1
<1>2. ASSUME NEW c \in Callers, SubscribeAttach(c) PROVE home'[u] = r
    <2>1. dests[cdest[c]] \in Sub
        BY <1>2 DEF SubscribeAttach, Reusable, TypeInv, TypeOK, Locals
    <2>2. QED
        BY <1>1, <1>2, <2>1 DEF SubscribeAttach, InSubscribe, readerVars
<1>3. ASSUME NEW c \in Callers, SubscribeFresh(c) PROVE home'[u] = r
    <2>1. nsubs + 1 \in Sub
        BY <1>3, RouterAssumption DEF SubscribeFresh, TypeInv, TypeOK, Sub
    <2>2. QED
        BY <1>1, <1>3, <2>1 DEF SubscribeFresh, InSubscribe
<1>4. ASSUME home' = home,
             handlers'[r] \cup snap'[r] \subseteq handlers[r] \cup snap[r]
      PROVE  home'[u] = r
    BY <1>01, <1>4
<1>5. ASSUME NEW c \in Callers, NEW d \in Dests, NEW t \in Token,
             UnsubscribeToken(c, d, t)
      PROVE  home'[u] = r
    BY <1>0, <1>4, <1>5 DEF UnsubscribeToken, readerVars
<1>6. ASSUME NEW s \in Sub, Snapshot(s) PROVE home'[u] = r
    BY <1>0, <1>4, <1>6 DEF Snapshot, OwnHandlers, stateVars, historyVars
<1>7. ASSUME NEW s \in Sub, NEW t \in Token, Dispatch(s, t) PROVE home'[u] = r
    BY <1>0, <1>4, <1>7 DEF Dispatch, stateVars, historyVars
<1>8. ASSUME UNCHANGED <<home, handlers, snap>> PROVE home'[u] = r
    BY <1>4, <1>8
<1>9. ASSUME NEW s \in Sub,
             \/ ReadMessage(s) \/ ReadError(s) \/ ReadClosed(s)
             \/ MarkDead(s) \/ Deregister(s) \/ Publish(s)
      PROVE  home'[u] = r
    BY <1>8, <1>9 DEF ReadMessage, ReadError, ReadClosed, MarkDead, Deregister,
       Publish, stateVars, historyVars
<1>10. ASSUME NEW s \in Sub, StopClose(s) \/ Peer(s) PROVE home'[u] = r
    BY <1>8, <1>10, TransportStep DEF stateVars, readerVars, historyVars
<1>11. ASSUME NEW c \in Callers, CallerBegin(c),
              ~\E d \in Dests, t \in Token : UnsubscribeToken(c, d, t)
       PROVE  home'[u] = r
    BY <1>8, <1>11 DEF CallerBegin, SubscribeBegin, UnsubscribeUnknown,
       CloseBegin, stateVars, readerVars, historyVars
<1>12. ASSUME NEW c \in Callers, CallerStep(c), ~SubscribeAttach(c),
              ~SubscribeFresh(c)
       PROVE  home'[u] = r
    BY <1>8, <1>12 DEF CallerStep, SubscribeDial, SubscribeFailed,
       UnsubscribeSub, CloseUnsubscribe, CloseReturn, stateVars, readerVars,
       historyVars
<1>13. CASE UNCHANGED vars
    BY <1>8, <1>13 DEF vars, stateVars, readerVars, historyVars
<1>14. QED
    BY <1>2, <1>3, <1>5, <1>6, <1>7, <1>9, <1>10, <1>11, <1>12, <1>13
    DEF Next, ReaderStep

TokenInv == CoreInv /\ FreshTokens /\ AtHome

LEMMA TokenInvariant == Spec => []TokenInv
<1>1. Init => FreshTokens /\ AtHome
    BY DEF Init, FreshTokens, AtHome, InSubscribe
<1>2. TokenInv /\ [Next]_vars => (FreshTokens /\ AtHome)'
    BY FreshTokensStep, AtHomeStep DEF TokenInv, CoreInv
<1>3. QED
    BY <1>1, <1>2, CoreInvariant, PTL DEF Spec, TokenInv

\* A reader calls only the handlers of its own destState, though a Subscribe
\* may have put another one in its place.
THEOREM DispatchIsOwn == Spec => []DispatchesOwnHandlers
<1>1. TokenInv => DispatchesOwnHandlers
    BY DEF TokenInv, AtHome, DispatchesOwnHandlers, CoreInv, TypeInv, TypeOK
<1>2. QED
    BY <1>1, TokenInvariant, PTL

-----------------------------------------------------------------------------
(***************************************************************************)
(* No registration is lost silently.                                       *)
(***************************************************************************)

\* Where the registration of a token has gone.
Accounted(t) ==
    home[t] # NoSub /\ t \notin unsubbed =>
        \/ Registered(home[t]) /\ t \in handlers[home[t]]
        \/ teardown[home[t]] = "close"
        \/ rpc[home[t]] = "publish"
        \/ reported[home[t]] # "nothing"
        \/ home[t] \in replaced

LEMMA AccountedEverywhere ==
    RegistrationAccounted <=> \A t \in Token : Accounted(t)
BY DEF RegistrationAccounted, Accounted, Issued

AccountedInv ==
    TokenInv /\ TeardownInv /\ \A t \in Token : Accounted(t)

LEMMA AccountedStep ==
    AccountedInv /\ [Next]_vars => \A t \in Token : Accounted(t)'
<1> SUFFICES ASSUME AccountedInv, [Next]_vars, NEW u \in Token
             PROVE  Accounted(u)'
    OBVIOUS
<1>0. /\ dests \in [Dests -> Sub \cup {NoSub}] /\ rpc \in [Sub -> ReaderPc]
      /\ destOf \in [Sub -> Dests \cup {None}]
      /\ handlers \in [Sub -> SUBSET Token]
      /\ home \in [Token -> Sub \cup {NoSub}]
      /\ teardown \in [Sub -> {"none", "unsubscribe", "close"}]
      /\ reported \in [Sub -> {"nothing", "error", "closed"}]
      /\ NoSub \notin Sub /\ None \notin Dests
    BY RouterAssumption
    DEF AccountedInv, TokenInv, CoreInv, TypeInv, TypeOK, Sub, NoSub
<1>01. Accounted(u)
    BY DEF AccountedInv
<1>02. \A d \in Dests : dests[d] # NoSub => destOf[dests[d]] = d
    BY DEF AccountedInv, TokenInv, CoreInv, RegistryLive
<1>1. ASSUME NEW c \in Callers, SubscribeAttach(c) PROVE Accounted(u)'
    <2>1. /\ cdest[c] \in Dests /\ ctok[c] \in Token
          /\ dests[cdest[c]] \in Sub
        BY <1>0, <1>1 DEF SubscribeAttach, Reusable, AccountedInv, TokenInv,
           CoreInv, TypeInv, Locals
    <2>2. /\ UNCHANGED <<dests, destOf, rpc, teardown, reported, replaced,
                         unsubbed>>
          /\ home' = [home EXCEPT ![ctok[c]] = dests[cdest[c]]]
          /\ handlers' = [handlers EXCEPT ![dests[cdest[c]]] = @ \cup {ctok[c]}]
        BY <1>1 DEF SubscribeAttach, routerVars, readerVars
    <2>3. CASE u = ctok[c]
        BY <1>0, <1>02, <2>1, <2>2, <2>3 DEF Accounted, Registered
    <2>4. CASE u # ctok[c]
        BY <1>0, <1>01, <2>1, <2>2, <2>4 DEF Accounted, Registered
    <2>5. QED
        BY <2>3, <2>4
<1>2. ASSUME NEW c \in Callers, SubscribeFresh(c) PROVE Accounted(u)'
    <2> DEFINE s == nsubs + 1
    <2>1. /\ s \in Sub /\ cdest[c] \in Dests /\ ctok[c] \in Token
          /\ rpc[s] = "none" /\ destOf[s] = None
        BY <1>2, RouterAssumption
        DEF SubscribeFresh, AccountedInv, TokenInv, CoreInv, TypeInv, TypeOK,
            Locals, Existing, Sub
    <2>2. /\ destOf' = [destOf EXCEPT ![s] = cdest[c]]
          /\ handlers' = [handlers EXCEPT ![s] = {ctok[c]}]
          /\ dests' = [dests EXCEPT ![cdest[c]] = s]
          /\ rpc' = [rpc EXCEPT ![s] = "range"]
          /\ home' = [home EXCEPT ![ctok[c]] = s]
          /\ replaced' = replaced \cup ({dests[cdest[c]]} \ {NoSub})
          /\ UNCHANGED <<teardown, reported, unsubbed>>
        BY <1>2 DEF SubscribeFresh
    <2> HIDE DEF s
    <2>3. CASE u = ctok[c]
        BY <1>0, <2>1, <2>2, <2>3 DEF Accounted, Registered
    <2>4. CASE u # ctok[c] /\ home[u] # NoSub /\ Registered(home[u])
        <3>1. home[u] # s /\ destOf[home[u]] \in Dests
            BY <1>0, <2>1, <2>4 DEF Registered
        <3>2. CASE destOf[home[u]] = cdest[c]
            BY <1>0, <2>1, <2>2, <2>4, <3>1, <3>2 DEF Accounted, Registered
        <3>3. CASE destOf[home[u]] # cdest[c]
            BY <1>0, <1>01, <2>1, <2>2, <2>4, <3>1, <3>3
            DEF Accounted, Registered
        <3>4. QED
            BY <3>2, <3>3
    <2>5. CASE u # ctok[c] /\ ~(home[u] # NoSub /\ Registered(home[u]))
        BY <1>0, <1>01, <2>1, <2>2, <2>5 DEF Accounted
    <2>6. QED
        BY <2>3, <2>4, <2>5
<1>3. ASSUME NEW c \in Callers, NEW d \in Dests, NEW t \in Token,
             UnsubscribeToken(c, d, t)
      PROVE  Accounted(u)'
    <2> DEFINE s == dests[d]
    <2>1. /\ s \in Sub /\ destOf[s] = d
          /\ handlers' = [handlers EXCEPT ![s] = @ \ {t}]
          /\ unsubbed' = unsubbed \cup (IF destOf[home[t]] = d THEN {t} ELSE {})
          /\ UNCHANGED <<destOf, rpc, home, reported, replaced>>
        BY <1>0, <1>02, <1>3 DEF UnsubscribeToken, readerVars
    <2>2. \/ UNCHANGED <<dests, teardown>>
          \/ /\ LastHandler(s, t)
             /\ dests' = [dests EXCEPT ![d] = NoSub]
             /\ teardown' = [teardown EXCEPT ![s] = "unsubscribe"]
        BY <1>3 DEF UnsubscribeToken, DropLast
    <2>3. teardown[s] # "close"
        BY <2>1 DEF AccountedInv, TeardownInv, Settled, TornDown
    <2>4. SUFFICES ASSUME home[u] # NoSub, u \notin unsubbed' PROVE Accounted(u)'
        BY <2>1 DEF Accounted
    <2>5. CASE Registered(home[u]) /\ u \in handlers[home[u]]
        <3>1. CASE home[u] = s
            <4>1. t # u
                BY <2>1, <2>4, <3>1
            <4>2. u \in handlers'[s] /\ ~LastHandler(s, t)
                BY <1>0, <2>1, <2>5, <3>1, <4>1 DEF LastHandler
            <4>3. QED
                BY <1>0, <2>1, <2>2, <2>5, <3>1, <4>2 DEF Accounted, Registered
        <3>2. CASE home[u] # s
            <4>1. destOf[home[u]] # d /\ destOf[home[u]] \in Dests
                BY <1>0, <2>4, <2>5, <3>2 DEF Registered
            <4>2. dests'[destOf[home[u]]] = home[u] /\ home[u] \in Sub
                BY <1>0, <2>2, <2>4, <2>5, <4>1 DEF Registered
            <4>3. handlers'[home[u]] = handlers[home[u]]
                BY <1>0, <2>1, <3>2, <4>2
            <4>4. QED
                BY <2>1, <2>5, <4>2, <4>3 DEF Accounted, Registered
        <3>3. QED
            BY <3>1, <3>2
    <2>6. CASE ~(Registered(home[u]) /\ u \in handlers[home[u]])
        BY <1>0, <1>01, <2>1, <2>2, <2>3, <2>4, <2>6 DEF Accounted
    <2>7. QED
        BY <2>5, <2>6
<1>4. ASSUME NEW c \in Callers, CloseBegin(c) PROVE Accounted(u)'
    <2>1. /\ UNCHANGED <<rpc, home, unsubbed, replaced, reported>>
          /\ \A q \in Sub :
                teardown'[q] = IF q \in States THEN "close" ELSE teardown[q]
        BY <1>4 DEF CloseBegin, readerVars
    <2>2. home[u] # NoSub /\ Registered(home[u]) => home[u] \in States
        BY <1>0 DEF Registered, States
    <2>3. QED
        BY <1>0, <1>01, <2>1, <2>2 DEF Accounted
<1>5. ASSUME NEW s \in Sub, Deregister(s) PROVE Accounted(u)'
    <2>1. UNCHANGED <<destOf, handlers, home, unsubbed, teardown, reported,
                      replaced>>
        BY <1>5 DEF Deregister, stateVars, historyVars
    <2>2. SUFFICES ASSUME home[u] # NoSub, u \notin unsubbed PROVE Accounted(u)'
        BY <2>1 DEF Accounted
    <2>3. CASE home[u] = s
        <3>1. Registered(s) => rpc'[s] = "publish"
            BY <1>0, <1>5 DEF Deregister, Registered
        <3>2. rpc[s] # "publish"
            BY <1>5 DEF Deregister
        <3>3. QED
            BY <1>01, <2>1, <2>2, <2>3, <3>1, <3>2 DEF Accounted
    <2>4. CASE home[u] # s
        <3>1. Registered(home[u]) => Registered(home[u])'
            BY <1>0, <1>5, <2>1, <2>2, <2>4 DEF Deregister, Registered
        <3>2. rpc'[home[u]] = rpc[home[u]]
            BY <1>0, <1>5, <2>2, <2>4 DEF Deregister
        <3>3. QED
            BY <1>01, <2>1, <2>2, <3>1, <3>2 DEF Accounted
    <2>5. QED
        BY <2>3, <2>4
<1>6. ASSUME NEW s \in Sub, Publish(s) PROVE Accounted(u)'
    <2>1. /\ UNCHANGED <<dests, destOf, handlers, home, unsubbed, teardown,
                         replaced>>
          /\ rpc' = [rpc EXCEPT ![s] = "gone"]
          /\ \E x \in {"error", "closed"} :
                reported' = [reported EXCEPT ![s] = x]
        BY <1>6 DEF Publish, routerVars, stateVars
    <2>2. QED
        BY <1>0, <1>01, <2>1 DEF Accounted, Registered
<1>7. ASSUME UNCHANGED <<dests, destOf, handlers, home, teardown, reported,
                         replaced>>,
             unsubbed \subseteq unsubbed',
             \A q \in Sub : rpc[q] = "publish" => rpc'[q] = "publish"
      PROVE  Accounted(u)'
    BY <1>0, <1>01, <1>7 DEF Accounted, Registered
<1>8. ASSUME NEW s \in Sub,
             \/ ReadMessage(s) \/ ReadError(s) \/ ReadClosed(s) \/ Snapshot(s)
             \/ \E t \in Token : Dispatch(s, t)
      PROVE  Accounted(u)'
    <2>1. \A q \in Sub : rpc[q] = "publish" => rpc'[q] = "publish"
        BY <1>0, <1>8, LoopStep DEF ReaderMoves, Looping
    <2>2. QED
        BY <1>7, <1>8, <2>1, LoopStep DEF routerVars, stateVars, historyVars
<1>9. ASSUME NEW s \in Sub, MarkDead(s) PROVE Accounted(u)'
    BY <1>0, <1>7, <1>9 DEF MarkDead, routerVars, historyVars
<1>10. ASSUME NEW s \in Sub, StopClose(s) \/ Peer(s) PROVE Accounted(u)'
    BY <1>7, <1>10, TransportStep
    DEF routerVars, stateVars, readerVars, historyVars
<1>11. ASSUME NEW c \in Callers, NEW d \in Dests, NEW t \in Token,
              UnsubscribeUnknown(c, d, t)
       PROVE  Accounted(u)'
    BY <1>7, <1>11 DEF UnsubscribeUnknown, routerVars, stateVars, readerVars
<1>12. ASSUME NEW c \in Callers, NEW d \in Dests, SubscribeBegin(c, d)
       PROVE  Accounted(u)'
    BY <1>7, <1>12 DEF SubscribeBegin, stateVars, readerVars, historyVars
<1>13. ASSUME NEW c \in Callers,
              \/ SubscribeDial(c) \/ SubscribeFailed(c) \/ UnsubscribeSub(c)
              \/ CloseReturn(c) \/ \E s \in Sub : CloseUnsubscribe(c, s)
       PROVE  Accounted(u)'
    BY <1>7, <1>13 DEF SubscribeDial, SubscribeFailed, UnsubscribeSub,
       CloseUnsubscribe, CloseReturn, routerVars, stateVars, readerVars,
       historyVars
<1>14. CASE UNCHANGED vars
    BY <1>7, <1>14 DEF vars, routerVars, stateVars, readerVars, historyVars
<1>15. QED
    BY <1>1, <1>2, <1>3, <1>4, <1>5, <1>6, <1>8, <1>9, <1>10, <1>11, <1>12,
       <1>13, <1>14
    DEF Next, CallerBegin, CallerStep, ReaderStep

\* A registration that nobody took back is in the registry, or a Close ended
\* it, or its end is published or about to be, or its dead destState was
\* replaced by a Subscribe.
THEOREM NoRegistrationLost == Spec => []RegistrationAccounted
<1>1. Init => \A t \in Token : Accounted(t)
    BY DEF Init, Accounted
<1>2. AccountedInv /\ [Next]_vars => (\A t \in Token : Accounted(t))'
    BY AccountedStep
<1>3. QED
    BY <1>1, <1>2, AccountedEverywhere, TokenInvariant, TeardownInvariant, PTL
    DEF Spec, AccountedInv

-----------------------------------------------------------------------------
(***************************************************************************)
(* No subscription is forgotten.                                           *)
(***************************************************************************)

\* Only Unsubscribe and Close have subscriptions to cancel.
NothingPending ==
    \A c \in Callers : cpc[c] \notin {"unsubscribe", "close"} => csubs[c] = {}

\* While a Subscribe is in conn.Subscribe its destination has no live reader.
DialingDead == \A c \in Callers : cpc[c] = "dial" => ~Reusable(cdest[c])

\* Somebody or something ends a subscription that is still being drained.
Tended(s) ==
    Draining(s) =>
        \/ Registered(s)
        \/ \E c \in Callers : s \in csubs[c]
        \/ stop[s]
        \/ closed[s]

LEMMA NothingPendingStep ==
    TypeInv /\ NothingPending /\ [Next]_vars => NothingPending'
<1> SUFFICES ASSUME TypeInv, NothingPending, [Next]_vars, NEW b \in Callers,
                    cpc'[b] \notin {"unsubscribe", "close"}
             PROVE  csubs'[b] = {}
    BY DEF NothingPending
<1>0. /\ cpc \in [Callers -> CallerPc] /\ csubs \in [Callers -> SUBSET Sub]
      /\ cpc[b] \notin {"unsubscribe", "close"} => csubs[b] = {}
    BY DEF TypeInv, TypeOK, NothingPending
<1>1. ASSUME csubs' = csubs, NEW c \in Callers,
             cpc[c] \in {"idle", "subscribe", "dial"},
             \E x \in CallerPc : cpc' = [cpc EXCEPT ![c] = x]
      PROVE  csubs'[b] = {}
    BY <1>0, <1>1 DEF NothingPending
<1>2. ASSUME NEW c \in Callers,
             \/ \E d \in Dests : SubscribeBegin(c, d)
             \/ SubscribeAttach(c) \/ SubscribeDial(c) \/ SubscribeFresh(c)
             \/ SubscribeFailed(c)
      PROVE  csubs'[b] = {}
    BY <1>1, <1>2 DEF SubscribeBegin, SubscribeAttach, SubscribeDial,
       SubscribeFresh, SubscribeFailed, SubscribeReturn, CallerPc
<1>3. ASSUME NEW c \in Callers, NEW d \in Dests, NEW t \in Token,
             UnsubscribeToken(c, d, t)
      PROVE  csubs'[b] = {}
    <2>1. \/ UNCHANGED <<cpc, csubs>>
          \/ /\ cpc' = [cpc EXCEPT ![c] = "unsubscribe"]
             /\ csubs' = [csubs EXCEPT ![c] = {dests[d]}]
        BY <1>3 DEF UnsubscribeToken, DropLast
    <2>2. QED
        BY <1>0, <2>1
<1>4. ASSUME NEW c \in Callers, UnsubscribeSub(c) PROVE csubs'[b] = {}
    BY <1>0, <1>4 DEF UnsubscribeSub
<1>5. ASSUME NEW c \in Callers, CloseBegin(c) PROVE csubs'[b] = {}
    BY <1>0, <1>5 DEF CloseBegin
<1>6. ASSUME NEW c \in Callers, NEW s \in Sub, CloseUnsubscribe(c, s)
      PROVE  csubs'[b] = {}
    BY <1>0, <1>6 DEF CloseUnsubscribe
<1>7. ASSUME NEW c \in Callers, CloseReturn(c) PROVE csubs'[b] = {}
    BY <1>0, <1>7 DEF CloseReturn
<1>8. ASSUME UNCHANGED <<cpc, csubs>> PROVE csubs'[b] = {}
    BY <1>0, <1>8
<1>9. ASSUME NEW c \in Callers, NEW d \in Dests, NEW t \in Token,
             UnsubscribeUnknown(c, d, t)
      PROVE  csubs'[b] = {}
    BY <1>8, <1>9 DEF UnsubscribeUnknown, callerVars
<1>10. ASSUME NEW s \in Sub, ReaderStep(s) PROVE csubs'[b] = {}
    BY <1>8, <1>10 DEF ReaderStep, ReadMessage, ReadError, ReadClosed, Snapshot,
       Dispatch, MarkDead, Deregister, Publish, callerVars
<1>11. ASSUME NEW s \in Sub, StopClose(s) \/ Peer(s) PROVE csubs'[b] = {}
    BY <1>8, <1>11, TransportStep DEF callerVars
<1>12. CASE UNCHANGED vars
    BY <1>8, <1>12 DEF vars, callerVars
<1>13. QED
    BY <1>2, <1>3, <1>4, <1>5, <1>6, <1>7, <1>9, <1>10, <1>11, <1>12
    DEF Next, CallerBegin, CallerStep

\* r.mu keeps the registry as Subscribe found it until conn.Subscribe returns.
LEMMA DialingDeadStep ==
    CoreInv /\ DialingDead /\ [Next]_vars => DialingDead'
<1> SUFFICES ASSUME CoreInv, DialingDead, [Next]_vars, NEW b \in Callers,
                    cpc'[b] = "dial"
             PROVE  ~Reusable(cdest[b])'
    BY DEF DialingDead
<1>0. /\ cpc \in [Callers -> CallerPc] /\ done \in [Sub -> BOOLEAN]
      /\ cdest \in [Callers -> Dests \cup {None}]
      /\ dests \in [Dests -> Sub \cup {NoSub}]
      /\ cpc[b] = "dial" => ~Reusable(cdest[b]) /\ cdest[b] \in Dests
      /\ \A c \in Callers : cpc[c] = "dial" <=> mu = c
      /\ None \notin Callers /\ NoSub \notin Sub
    BY RouterAssumption
    DEF CoreInv, TypeInv, TypeOK, Locals, DialingDead, MutexHeld, Sub, NoSub
<1>1. ASSUME NEW c \in Callers, SubscribeDial(c) PROVE ~Reusable(cdest[b])'
    <2>1. b = c /\ ~Reusable(cdest[c])
        BY <1>0, <1>1 DEF SubscribeDial
    <2>2. UNCHANGED <<dests, done, cdest>>
        BY <1>1 DEF SubscribeDial, stateVars
    <2>3. QED
        BY <2>1, <2>2 DEF Reusable
<1>2. ASSUME UNCHANGED <<dests, done>>, cpc[b] = "dial", cdest'[b] = cdest[b]
      PROVE  ~Reusable(cdest[b])'
    BY <1>0, <1>2 DEF Reusable
<1>3. ASSUME NEW s \in Sub, MarkDead(s) PROVE ~Reusable(cdest[b])'
    <2>1. /\ UNCHANGED <<dests, cdest, cpc>>
          /\ done' = [done EXCEPT ![s] = TRUE]
        BY <1>3 DEF MarkDead, routerVars, callerVars
    <2>2. QED
        BY <1>0, <2>1 DEF Reusable
<1>4. ASSUME NEW c \in Callers, NEW d \in Dests, SubscribeBegin(c, d)
      PROVE  ~Reusable(cdest[b])'
    BY <1>0, <1>2, <1>4 DEF SubscribeBegin, stateVars
<1>5. ASSUME NEW c \in Callers,
             SubscribeAttach(c) \/ SubscribeFailed(c)
      PROVE  ~Reusable(cdest[b])'
    BY <1>0, <1>2, <1>5 DEF SubscribeAttach, SubscribeFailed, SubscribeReturn,
       routerVars, stateVars
<1>6. ASSUME NEW c \in Callers, SubscribeFresh(c) PROVE FALSE
    BY <1>0, <1>6 DEF SubscribeFresh, SubscribeReturn
<1>7. ASSUME mu = None, cpc[b] = "dial" PROVE FALSE
    BY <1>0, <1>7
<1>8. ASSUME NEW c \in Callers, NEW d \in Dests, NEW t \in Token,
             UnsubscribeToken(c, d, t)
      PROVE  FALSE
    BY <1>0, <1>7, <1>8 DEF UnsubscribeToken, DropLast
<1>9. ASSUME NEW c \in Callers, CloseBegin(c) PROVE FALSE
    BY <1>0, <1>7, <1>9 DEF CloseBegin
<1>10. ASSUME NEW s \in Sub, Deregister(s) PROVE FALSE
    BY <1>7, <1>10 DEF Deregister, callerVars
<1>11. ASSUME NEW c \in Callers, UnsubscribeSub(c) \/ CloseReturn(c)
       PROVE  ~Reusable(cdest[b])'
    BY <1>0, <1>2, <1>11 DEF UnsubscribeSub, CloseReturn, routerVars, stateVars
<1>12. ASSUME UNCHANGED <<dests, done, cpc, cdest>> PROVE ~Reusable(cdest[b])'
    BY <1>2, <1>12
<1>13. ASSUME NEW c \in Callers, NEW s \in Sub, CloseUnsubscribe(c, s)
       PROVE  ~Reusable(cdest[b])'
    BY <1>12, <1>13 DEF CloseUnsubscribe, routerVars, stateVars
<1>14. ASSUME NEW c \in Callers, NEW d \in Dests, NEW t \in Token,
              UnsubscribeUnknown(c, d, t)
       PROVE  ~Reusable(cdest[b])'
    BY <1>12, <1>14 DEF UnsubscribeUnknown, routerVars, stateVars, callerVars
<1>15. ASSUME NEW s \in Sub,
              \/ ReadMessage(s) \/ ReadError(s) \/ ReadClosed(s) \/ Snapshot(s)
              \/ \E t \in Token : Dispatch(s, t)
       PROVE  ~Reusable(cdest[b])'
    BY <1>12, <1>15, LoopStep DEF routerVars, stateVars, callerVars
<1>16. ASSUME NEW s \in Sub, Publish(s) PROVE ~Reusable(cdest[b])'
    BY <1>12, <1>16 DEF Publish, routerVars, stateVars, callerVars
<1>17. ASSUME NEW s \in Sub, StopClose(s) \/ Peer(s) PROVE ~Reusable(cdest[b])'
    BY <1>12, <1>17, TransportStep DEF routerVars, stateVars, callerVars
<1>18. CASE UNCHANGED vars
    BY <1>12, <1>18 DEF vars, routerVars, stateVars, callerVars
<1>19. QED
    BY <1>1, <1>3, <1>4, <1>5, <1>6, <1>8, <1>9, <1>10, <1>11, <1>13, <1>14,
       <1>15, <1>16, <1>17, <1>18
    DEF Next, CallerBegin, CallerStep, ReaderStep

TendedInv ==
    CoreInv /\ NothingPending /\ DialingDead /\ \A s \in Sub : Tended(s)

LEMMA TendedStep == TendedInv /\ [Next]_vars => \A s \in Sub : Tended(s)'
<1> SUFFICES ASSUME TendedInv, [Next]_vars, NEW r \in Sub, Draining(r)'
             PROVE  (\/ Registered(r)
                     \/ \E c \in Callers : r \in csubs[c]
                     \/ stop[r]
                     \/ closed[r])'
    BY DEF Tended
<1> DEFINE Cared == \/ Registered(r)
                    \/ \E c \in Callers : r \in csubs[c]
                    \/ stop[r]
                    \/ closed[r]
<1>0. /\ dests \in [Dests -> Sub \cup {NoSub}] /\ rpc \in [Sub -> ReaderPc]
      /\ destOf \in [Sub -> Dests \cup {None}] /\ done \in [Sub -> BOOLEAN]
      /\ csubs \in [Callers -> SUBSET Sub] /\ stop \in [Sub -> BOOLEAN]
      /\ closed \in [Sub -> BOOLEAN]
      /\ NoSub \notin Sub /\ None \notin Dests
    BY RouterAssumption DEF TendedInv, CoreInv, TypeInv, TypeOK, Sub, NoSub
<1>01. Draining(r) => Cared
    BY DEF TendedInv, Tended
<1>02. Draining(r) => ~done[r]
    BY DEF TendedInv, CoreInv, DoneTells, Draining
<1>1. ASSUME NEW c \in Callers, SubscribeFresh(c) PROVE Cared'
    <2> DEFINE s == nsubs + 1
    <2>1. s \in Sub /\ cdest[c] \in Dests
        BY <1>1, RouterAssumption
        DEF SubscribeFresh, TendedInv, CoreInv, TypeInv, TypeOK, Locals, Sub
    <2>2. /\ destOf' = [destOf EXCEPT ![s] = cdest[c]]
          /\ dests' = [dests EXCEPT ![cdest[c]] = s]
          /\ rpc' = [rpc EXCEPT ![s] = "range"]
          /\ UNCHANGED <<csubs, stop, closed>>
        BY <1>1 DEF SubscribeFresh, subVars
    <2>3. ~Reusable(cdest[c])
        BY <1>1 DEF SubscribeFresh, TendedInv, DialingDead
    <2> HIDE DEF s
    <2>4. CASE r = s
        BY <1>0, <2>1, <2>2, <2>4 DEF Registered
    <2>5. CASE r # s
        <3>1. Draining(r) /\ ~done[r]
            BY <1>0, <1>02, <2>1, <2>2, <2>5 DEF Draining
        <3>2. dests[cdest[c]] # r
            BY <1>0, <2>3, <3>1 DEF Reusable
        <3>3. Registered(r) => Registered(r)'
            BY <1>0, <2>1, <2>2, <2>5, <3>2 DEF Registered
        <3>4. QED
            BY <1>01, <2>2, <3>1, <3>3
    <2>6. QED
        BY <2>4, <2>5
<1>2. ASSUME NEW c \in Callers, NEW d \in Dests, NEW t \in Token,
             UnsubscribeToken(c, d, t)
      PROVE  Cared'
    <2>1. /\ UNCHANGED <<destOf, rpc, stop, closed>> /\ cpc[c] = "idle"
          /\ dests[d] \in Sub
        BY <1>0, <1>2 DEF UnsubscribeToken, subVars, readerVars
    <2>2. Draining(r) /\ ~done[r]
        BY <1>02, <2>1 DEF Draining
    <2>3. csubs[c] = {}
        BY <2>1 DEF TendedInv, NothingPending
    <2>4. CASE UNCHANGED <<dests, csubs>>
        BY <1>01, <2>1, <2>2, <2>4 DEF Registered
    <2>5. CASE DropLast(c, d, dests[d]) /\ dests[d] = r
        <3>1. csubs' = [csubs EXCEPT ![c] = {r}]
            BY <2>2, <2>5 DEF DropLast
        <3>2. QED
            BY <1>0, <3>1
    <2>6. CASE DropLast(c, d, dests[d]) /\ dests[d] # r
        <3>1. /\ dests' = [dests EXCEPT ![d] = NoSub]
              /\ csubs' = csubs \/ csubs' = [csubs EXCEPT ![c] = {dests[d]}]
            BY <2>6 DEF DropLast
        <3>2. Registered(r) => Registered(r)'
            BY <1>0, <2>1, <2>6, <3>1 DEF Registered
        <3>3. \A b \in Callers : r \in csubs[b] => r \in csubs'[b]
            BY <1>0, <2>3, <3>1
        <3>4. QED
            BY <1>01, <2>1, <2>2, <3>2, <3>3
    <2>7. QED
        BY <1>2, <2>4, <2>5, <2>6 DEF UnsubscribeToken
<1>3. ASSUME NEW c \in Callers, UnsubscribeSub(c) PROVE Cared'
    <2>1. /\ UNCHANGED <<dests, destOf, rpc, closed>>
          /\ stop' = [s \in Sub |-> stop[s] \/ s \in csubs[c]]
          /\ csubs' = [csubs EXCEPT ![c] = {}]
        BY <1>3 DEF UnsubscribeSub, routerVars, stateVars, readerVars
    <2>2. QED
        BY <1>0, <1>01, <2>1 DEF Draining, Registered
<1>4. ASSUME NEW c \in Callers, CloseBegin(c) PROVE Cared'
    <2>1. /\ UNCHANGED <<destOf, rpc, stop, closed>> /\ cpc[c] = "idle"
          /\ csubs' = [csubs EXCEPT ![c] = Collect]
        BY <1>4 DEF CloseBegin, stateVars, subVars, readerVars
    <2>2. Draining(r) /\ ~done[r]
        BY <1>02, <2>1 DEF Draining
    <2>3. csubs[c] = {}
        BY <2>1 DEF TendedInv, NothingPending
    <2>4. Registered(r) => r \in Collect
        BY <1>0, <2>2 DEF Registered, Collect, States
    <2>5. QED
        BY <1>0, <1>01, <2>1, <2>2, <2>3, <2>4
<1>5. ASSUME NEW c \in Callers, NEW s \in Sub, CloseUnsubscribe(c, s)
      PROVE  Cared'
    <2>1. /\ UNCHANGED <<dests, destOf, rpc, closed>>
          /\ stop' = [stop EXCEPT ![s] = TRUE]
          /\ csubs' = [csubs EXCEPT ![c] = @ \ {s}]
        BY <1>5 DEF CloseUnsubscribe, routerVars, stateVars, readerVars
    <2>2. QED
        BY <1>0, <1>01, <2>1 DEF Draining, Registered
<1>6. ASSUME NEW s \in Sub, Deregister(s) PROVE Cared'
    <2>1. UNCHANGED <<destOf, csubs, stop, closed>>
        BY <1>6 DEF Deregister, stateVars, subVars, callerVars
    <2>2. r # s /\ rpc'[r] = rpc[r]
        BY <1>0, <1>6 DEF Deregister, Draining
    <2>3. Registered(r) => Registered(r)'
        BY <1>0, <1>6, <2>1, <2>2 DEF Deregister, Registered
    <2>4. QED
        BY <1>01, <2>1, <2>2, <2>3 DEF Draining
<1>7. ASSUME UNCHANGED <<dests, destOf, csubs, stop>>, Draining(r),
             closed[r] => closed'[r]
      PROVE  Cared'
    BY <1>01, <1>7 DEF Registered
<1>8. ASSUME NEW s \in Sub,
             \/ ReadMessage(s) \/ ReadError(s) \/ ReadClosed(s) \/ Snapshot(s)
             \/ \E t \in Token : Dispatch(s, t)
      PROVE  Cared'
    <2>1. Draining(r)
        BY <1>0, <1>8, LoopStep DEF ReaderMoves, Looping, Draining
    <2>2. QED
        BY <1>7, <1>8, <2>1, LoopStep DEF routerVars, stateVars, callerVars
<1>9. ASSUME NEW s \in Sub, MarkDead(s) \/ Publish(s) PROVE Cared'
    <2>1. Draining(r)
        BY <1>0, <1>9 DEF MarkDead, Publish, Draining
    <2>2. QED
        BY <1>7, <1>9, <2>1
        DEF MarkDead, Publish, routerVars, stateVars, subVars, callerVars
<1>10. ASSUME NEW s \in Sub, StopClose(s) \/ Peer(s) PROVE Cared'
    <2>1. Draining(r) /\ (closed[r] => closed'[r])
        BY <1>0, <1>10, TransportStep DEF readerVars, Draining
    <2>2. QED
        BY <1>7, <1>10, <2>1, TransportStep
        DEF routerVars, stateVars, callerVars
<1>11. ASSUME UNCHANGED <<dests, destOf, rpc, csubs, stop, closed>> PROVE Cared'
    BY <1>7, <1>11 DEF Draining
<1>12. ASSUME NEW c \in Callers, NEW d \in Dests, NEW t \in Token,
              UnsubscribeUnknown(c, d, t)
       PROVE  Cared'
    BY <1>11, <1>12
    DEF UnsubscribeUnknown, routerVars, stateVars, subVars, readerVars, callerVars
<1>13. ASSUME NEW c \in Callers, NEW d \in Dests, SubscribeBegin(c, d)
       PROVE  Cared'
    BY <1>11, <1>13 DEF SubscribeBegin, stateVars, subVars, readerVars
<1>14. ASSUME NEW c \in Callers,
              \/ SubscribeAttach(c) \/ SubscribeDial(c) \/ SubscribeFailed(c)
              \/ CloseReturn(c)
       PROVE  Cared'
    BY <1>11, <1>14 DEF SubscribeAttach, SubscribeDial, SubscribeFailed,
       CloseReturn, routerVars, stateVars, subVars, readerVars
<1>15. CASE UNCHANGED vars
    BY <1>11, <1>15
    DEF vars, routerVars, stateVars, subVars, readerVars, callerVars
<1>16. QED
    BY <1>1, <1>2, <1>3, <1>4, <1>5, <1>6, <1>8, <1>9, <1>10, <1>12, <1>13,
       <1>14, <1>15
    DEF Next, CallerBegin, CallerStep, ReaderStep

\* No transport subscription is forgotten while its reader drains it: the
\* registry has it, or a call is about to cancel it, or it is ending.
THEOREM NoSubscriptionOrphaned == Spec => []NoOrphanSubscription
<1>1. Init => NothingPending /\ DialingDead /\ \A s \in Sub : Tended(s)
    BY DEF Init, NothingPending, DialingDead, Tended, Draining
<1>2. TendedInv /\ [Next]_vars
      => (NothingPending /\ DialingDead /\ \A s \in Sub : Tended(s))'
    BY NothingPendingStep, DialingDeadStep, TendedStep DEF TendedInv, CoreInv
<1>3. TendedInv => NoOrphanSubscription
    BY DEF TendedInv, Tended, NoOrphanSubscription
<1>4. QED
    BY <1>1, <1>2, <1>3, CoreInvariant, PTL DEF Spec, TendedInv

-----------------------------------------------------------------------------
(***************************************************************************)
(* No reader outlives a Close that returned.                               *)
(***************************************************************************)

\* No reader that a Close waited for runs any more, and one that is started
\* later has a number of its own.
Joined ==
    /\ joined <= nsubs
    /\ \A s \in Sub : s <= joined => ~Live(s)

\* Nothing that Joined depends on has changed, but that readers exit.
LEMMA JoinedFrame ==
    ASSUME Joined, UNCHANGED <<nsubs, joined>>,
           \A s \in Sub : Live(s)' => Live(s)
    PROVE  Joined'
BY DEF Joined

\* Every step keeps the readers that a Close waited for where they are.
LEMMA JoinedStep ==
    ASSUME TypeInv, Joined, [Next]_vars
    PROVE  Joined'
<1>0. /\ rpc \in [Sub -> ReaderPc]
      /\ nsubs \in Nat /\ joined \in Nat
    BY RouterAssumption DEF TypeInv, TypeOK, Sub
<1>1. ASSUME NEW c \in Callers, SubscribeFresh(c) PROVE Joined'
    <2>1. /\ nsubs' = nsubs + 1 /\ joined' = joined
          /\ rpc' = [rpc EXCEPT ![nsubs + 1] = "range"]
        BY <1>1 DEF SubscribeFresh
    <2>2. \A s \in Sub : s <= joined => s # nsubs + 1
        BY <1>0, RouterAssumption DEF Joined, Sub
    <2>3. \A s \in Sub : s <= joined' => ~Live(s)'
        BY <1>0, <2>1, <2>2 DEF Joined, Live
    <2>4. joined' <= nsubs'
        BY <1>0, <2>1 DEF Joined
    <2>5. QED
        BY <2>3, <2>4 DEF Joined
<1>2. ASSUME NEW c \in Callers, CloseReturn(c) PROVE Joined'
    BY <1>0, <1>2 DEF CloseReturn, ReadersExited, Joined, Live, readerVars,
       stateVars
<1>3. ASSUME NEW c \in Callers,
             \/ SubscribeAttach(c) \/ SubscribeDial(c) \/ SubscribeFailed(c)
             \/ UnsubscribeSub(c)
             \/ \E s \in Sub : CloseUnsubscribe(c, s)
             \/ CallerBegin(c)
      PROVE  Joined'
    <2>1. UNCHANGED <<nsubs, joined, rpc>>
        BY <1>3 DEF SubscribeAttach, SubscribeDial, SubscribeFailed,
           UnsubscribeSub, CloseUnsubscribe, CallerBegin, SubscribeBegin,
           UnsubscribeToken, UnsubscribeUnknown, CloseBegin, stateVars,
           readerVars, historyVars
    <2>2. QED
        BY <2>1, JoinedFrame DEF Live
<1>4. ASSUME NEW s \in Sub, ReaderStep(s) PROVE Joined'
    <2>1. Live(s)
        BY <1>4 DEF ReaderStep, ReadMessage, ReadError, ReadClosed, Snapshot,
           Dispatch, MarkDead, Deregister, Publish, Live
    <2>2. UNCHANGED <<nsubs, joined>>
        BY <1>4 DEF ReaderStep, ReadMessage, ReadError, ReadClosed, Snapshot,
           Dispatch, MarkDead, Deregister, Publish, stateVars, historyVars
    <2>3. \A r \in Sub \ {s} : rpc'[r] = rpc[r]
        BY <1>0, <1>4 DEF ReaderStep, ReadMessage, ReadError, ReadClosed,
           Snapshot, Dispatch, MarkDead, Deregister, Publish
    <2>4. QED
        BY <2>1, <2>2, <2>3, JoinedFrame DEF Live
<1>5. ASSUME NEW s \in Sub, StopClose(s) \/ Peer(s) PROVE Joined'
    BY <1>5, TransportStep, JoinedFrame DEF Live, readerVars, stateVars,
       historyVars
<1>6. CASE UNCHANGED vars
    BY <1>6, JoinedFrame DEF Live, vars, readerVars, stateVars, historyVars
<1>7. QED
    BY <1>1, <1>2, <1>3, <1>4, <1>5, <1>6 DEF Next, CallerStep

\* Once a Close has returned, no reader goroutine that was started before its
\* return runs: what r.wg.Wait() is for.
THEOREM NoReaderLeft == Spec => []NoReaderOutlivesClose
<1>1. Init => Joined
    BY DEF Init, Joined, Live
<1>2. CoreInv /\ Joined /\ [Next]_vars => Joined'
    BY JoinedStep DEF CoreInv
<1>3. Joined => NoReaderOutlivesClose
    BY DEF Joined, NoReaderOutlivesClose
<1>4. QED
    BY <1>1, <1>2, <1>3, CoreInvariant, PTL DEF Spec

-----------------------------------------------------------------------------
(***************************************************************************)
(* The steps of any transport are steps that Router allows its peer.       *)
(***************************************************************************)

Message == ({"msg"} \X Nat) \cup {Conn!EndErr, Conn!LateErr}

ConnTypes ==
    /\ state \in [Sub -> {"none", "open", "closed"}]
    /\ ch \in [Sub -> Seq(Message)]
    /\ sent \in [Sub -> Nat]

\* The router sees C() as it is.
Seen == chan = Held /\ closed = Shut

\* Behind an error C() is closed, so that who reads an open C() is in its loop.
ErrLast ==
    \A s \in Sub : \A i \in 1 .. Len(chan[s]) :
        chan[s][i] = "err" => state[s] = "closed"

OpenIsRead == \A s \in Sub : state[s] = "open" => Draining(s)

TransportInv == TypeInv /\ ConnTypes /\ Seen /\ ErrLast /\ OpenIsRead

LEMMA KindIs ==
    /\ \A n : Kind(<<"msg", n>>) = "msg"
    /\ Kind(Conn!EndErr) = "err"
    /\ Kind(Conn!LateErr) = "err"
BY DEF Kind, Conn!EndErr, Conn!LateErr

LEMMA KindsAppend ==
    ASSUME NEW q \in Seq(Message), NEW m \in Message
    PROVE  Kinds(Append(q, m)) = Append(Kinds(q), Kind(m))
BY DEF Kinds

LEMMA KindsTail ==
    ASSUME NEW q \in Seq(Message), q # <<>>
    PROVE  /\ Kinds(q) # <<>>
           /\ Kinds(Tail(q)) = Tail(Kinds(q))
BY DEF Kinds

LEMMA KindsLen ==
    ASSUME NEW q \in Seq(Message)
    PROVE  Len(Kinds(q)) = Len(q)
BY DEF Kinds

LEMMA TransportInvInit == TInit => TransportInv
<1> SUFFICES ASSUME TInit PROVE TransportInv
    OBVIOUS
<1>1. TypeInv
    BY TypeInvInit DEF TInit
<1>2. ConnTypes
    BY DEF TInit, Conn!SInit, ConnTypes
<1>3. Seen
    <2>1. Kinds(<<>>) = <<>>
        BY DEF Kinds
    <2>2. ch = [s \in Sub |-> <<>>] /\ state = [s \in Sub |-> "none"]
        BY DEF TInit, Conn!SInit
    <2>3. Held = [s \in Sub |-> <<>>] /\ Shut = [s \in Sub |-> FALSE]
        BY <2>1, <2>2 DEF Held, Shut
    <2>4. QED
        BY <2>3 DEF TInit, Init, Seen
<1>4. ErrLast /\ OpenIsRead
    BY DEF TInit, Init, Conn!SInit, ErrLast, OpenIsRead
<1>5. QED
    BY <1>1, <1>2, <1>3, <1>4 DEF TransportInv

\* A message put on C() is one more of its kind for the router.
LEMMA PutIsSeen ==
    ASSUME TransportInv, NEW s \in Sub, NEW m \in Message, Conn!Put(s, m),
           chan' = Held'
    PROVE  /\ Live(s) /\ ~closed[s] /\ Len(chan[s]) < ChanCap
           /\ chan' = [chan EXCEPT ![s] = Append(@, Kind(m))]
<1>1. Live(s) /\ ~closed[s]
    BY DEF TransportInv, ConnTypes, Seen, Shut, OpenIsRead, Draining, Live, Conn!Put
<1>2. Len(chan[s]) < ChanCap
    BY KindsLen DEF TransportInv, ConnTypes, Seen, Held, Conn!Put
<1>3. ASSUME NEW r \in Sub
      PROVE  Kinds(ch'[r]) = IF r = s THEN Append(Kinds(ch[s]), Kind(m))
                             ELSE Kinds(ch[r])
    BY KindsAppend DEF TransportInv, ConnTypes, Conn!Put
<1>4. chan' = [chan EXCEPT ![s] = Append(@, Kind(m))]
    BY <1>3 DEF TransportInv, Seen, Held
<1>5. QED
    BY <1>1, <1>2, <1>4

LEMMA MovesAreThePeers == TransportInv /\ TransportMoves => [Next]_vars
<1> SUFFICES ASSUME TransportInv, TransportMoves PROVE [Next]_vars
    OBVIOUS
<1> USE DEF routerVars, stateVars, readerVars, callerVars, historyVars
<1>1. ASSUME NEW s \in Sub, Conn!Deliver(s) PROVE PeerMessage(s)
    <2>1. <<"msg", sent[s] + 1>> \in Message
        BY DEF Message, TransportInv, ConnTypes
    <2>2. Conn!Put(s, <<"msg", sent[s] + 1>>) /\ closed' = closed /\ stop' = stop
        BY <1>1 DEF Conn!Deliver, Conn!Put, TransportMoves, TransportInv, Seen, Shut
    <2>3. chan' = Held'
        BY DEF TransportMoves
    <2>4. QED
        BY <2>1, <2>2, <2>3, PutIsSeen, KindIs DEF PeerMessage, TransportMoves
<1>2. ASSUME NEW s \in Sub, Conn!Fail(s) PROVE PeerError(s)
    <2>1. PICK m \in {Conn!EndErr, Conn!LateErr} : Conn!Put(s, m)
        BY <1>2 DEF Conn!Fail
    <2>2. m \in Message /\ Kind(m) = "err"
        BY KindIs DEF Message
    <2>3. closed' = [closed EXCEPT ![s] = TRUE]
        BY <1>2 DEF Conn!Fail, TransportMoves, TransportInv, ConnTypes, Seen, Shut
    <2>4. stop' = stop /\ chan' = Held'
        BY <2>1 DEF Conn!Put, TransportMoves
    <2>5. QED
        BY <2>1, <2>2, <2>3, <2>4, PutIsSeen DEF PeerError, TransportMoves
<1>3. ASSUME NEW s \in Sub, Conn!Close(s) PROVE PeerClose(s)
    <2>1. Live(s) /\ ~closed[s]
        BY <1>3 DEF TransportInv, Seen, Shut, OpenIsRead, Draining, Live, Conn!Close
    <2>2. closed' = [closed EXCEPT ![s] = TRUE] /\ chan' = chan /\ stop' = stop
        BY <1>3 DEF Conn!Close, TransportMoves, TransportInv, ConnTypes, Seen, Shut, Held
    <2>3. QED
        BY <2>1, <2>2 DEF PeerClose, TransportMoves
<1>4. CASE Conn!GoDown
    BY <1>4 DEF Conn!GoDown, TransportMoves, TransportInv, Seen, Shut, Held, vars, subVars
<1>5. QED
    BY <1>1, <1>2, <1>3, <1>4 DEF TransportMoves, Next, Peer

LEMMA StepIsRouters ==
    TransportInv /\ [TNext]_<<vars, connVars>> => [Next]_vars
<1> SUFFICES ASSUME TransportInv, [TNext]_<<vars, connVars>> PROVE [Next]_vars
    OBVIOUS
<1>1. CASE RouterAlone
    BY <1>1 DEF RouterAlone, Next, CallerStep, ReaderStep
<1>2. CASE RouterSubscribes \/ RouterUnsubscribes \/ RouterReceives
    BY <1>2 DEF RouterSubscribes, RouterUnsubscribes, RouterReceives, Next,
       CallerStep, ReaderStep
<1>3. CASE TransportMoves
    BY <1>3, MovesAreThePeers
<1>4. CASE UNCHANGED <<vars, connVars>>
    BY <1>4
<1>5. QED
    BY <1>1, <1>2, <1>3, <1>4 DEF TNext

\* What the steps of the router alone leave of a subscription and its reader.
LEMMA AloneKeeps ==
    ASSUME TransportInv, RouterAlone
    PROVE  /\ UNCHANGED <<chan, closed, state, ch, sent>>
           /\ OpenIsRead'
<1> USE DEF routerVars, stateVars, subVars, readerVars, callerVars, historyVars
<1>0. UNCHANGED <<state, ch, sent>>
    BY DEF RouterAlone, connVars
<1>1. ASSUME NEW c \in Callers,
             \/ CallerBegin(c)
             \/ SubscribeAttach(c) \/ SubscribeDial(c) \/ SubscribeFailed(c)
             \/ CloseReturn(c)
      PROVE  UNCHANGED <<chan, closed, rpc>>
    BY <1>1 DEF CallerBegin, SubscribeBegin, UnsubscribeToken, UnsubscribeUnknown,
       CloseBegin, SubscribeAttach, SubscribeDial, SubscribeFailed, CloseReturn
<1>2. ASSUME NEW s \in Sub, ReadClosed(s)
      PROVE  UNCHANGED <<chan, closed>> /\ OpenIsRead'
    BY <1>0, <1>2 DEF ReadClosed, TransportInv, TypeInv, TypeOK, Seen, Shut,
       OpenIsRead, Draining
<1>3. ASSUME NEW s \in Sub, Snapshot(s) \/ \E t \in Token : Dispatch(s, t)
      PROVE  UNCHANGED <<chan, closed>> /\ OpenIsRead'
    BY <1>0, <1>3 DEF Snapshot, Dispatch, TransportInv, TypeInv, TypeOK, OpenIsRead, Draining
<1>4. ASSUME NEW s \in Sub, MarkDead(s) \/ Deregister(s) \/ Publish(s)
      PROVE  UNCHANGED <<chan, closed>> /\ OpenIsRead'
    BY <1>0, <1>4 DEF MarkDead, Deregister, Publish, TransportInv, TypeInv, TypeOK,
       OpenIsRead, Draining
<1>5. ASSUME UNCHANGED <<chan, closed, rpc>>
      PROVE  UNCHANGED <<chan, closed>> /\ OpenIsRead'
    BY <1>0, <1>5 DEF TransportInv, OpenIsRead, Draining
<1>6. QED
    BY <1>0, <1>1, <1>2, <1>3, <1>4, <1>5 DEF RouterAlone

LEMMA TransportInvStep ==
    TransportInv /\ [TNext]_<<vars, connVars>> => TransportInv'
<1> SUFFICES ASSUME TransportInv, [TNext]_<<vars, connVars>>
             PROVE  TransportInv'
    OBVIOUS
<1> USE DEF routerVars, stateVars, subVars, readerVars, callerVars, historyVars
<1>1. TypeInv'
    BY StepIsRouters, TypeInvStep DEF TransportInv
<1>2. CASE RouterAlone
    <2>1. UNCHANGED <<chan, closed, state, ch, sent>> /\ OpenIsRead'
        BY <1>2, AloneKeeps
    <2>2. ConnTypes' /\ Seen' /\ ErrLast'
        BY <2>1 DEF TransportInv, ConnTypes, Seen, Held, Shut, ErrLast
    <2>3. QED
        BY <1>1, <2>1, <2>2 DEF TransportInv
<1>3. CASE RouterSubscribes
    <2>1. PICK c \in Callers : SubscribeFresh(c) /\ Conn!Make(nsubs + 1)
        BY <1>3 DEF RouterSubscribes
    <2> DEFINE n == nsubs + 1
    <2>2. /\ n \in Sub
          /\ state[n] = "none"
          /\ state' = [state EXCEPT ![n] = "open"]
          /\ rpc' = [rpc EXCEPT ![n] = "range"]
          /\ UNCHANGED <<chan, closed, ch, sent>>
        BY <2>1, RouterAssumption DEF SubscribeFresh, Conn!Make, TransportInv, TypeInv, TypeOK, Sub
    <2> HIDE DEF n
    <2>3. ConnTypes' /\ Seen' /\ ErrLast'
        BY <2>2 DEF TransportInv, ConnTypes, Seen, Held, Shut, ErrLast
    <2>4. OpenIsRead'
        BY <2>2 DEF TransportInv, TypeInv, TypeOK, ConnTypes, OpenIsRead, Draining
    <2>5. QED
        BY <1>1, <2>3, <2>4 DEF TransportInv
<1>4. CASE RouterUnsubscribes
    <2>1. UNCHANGED <<chan, closed, rpc, state, ch, sent>>
        BY <1>4 DEF RouterUnsubscribes, UnsubscribeSub, CloseUnsubscribe, Conn!Stop
    <2>2. ConnTypes' /\ Seen' /\ ErrLast' /\ OpenIsRead'
        BY <2>1 DEF TransportInv, ConnTypes, Seen, Held, Shut, ErrLast, OpenIsRead, Draining
    <2>3. QED
        BY <1>1, <2>2 DEF TransportInv
<1>5. CASE RouterReceives
    <2>1. PICK s \in Sub : (ReadMessage(s) \/ ReadError(s)) /\ Conn!Take(s)
        BY <1>5 DEF RouterReceives
    <2>2. /\ ch[s] # <<>>
          /\ ch' = [ch EXCEPT ![s] = Tail(@)]
          /\ chan[s] # <<>>
          /\ chan' = [chan EXCEPT ![s] = Tail(@)]
          /\ UNCHANGED <<state, sent, closed>>
        BY <2>1 DEF Conn!Take, ReadMessage, ReadError
    <2>3. ConnTypes'
        BY <2>2 DEF TransportInv, ConnTypes
    <2>4. Seen'
        <3>1. ASSUME NEW r \in Sub
              PROVE  Kinds(ch'[r]) = IF r = s THEN Tail(Kinds(ch[s])) ELSE Kinds(ch[r])
            BY <2>2, KindsTail DEF TransportInv, ConnTypes
        <3>2. chan' = Held'
            BY <2>2, <3>1 DEF TransportInv, Seen, Held
        <3>3. QED
            BY <2>2, <3>2 DEF TransportInv, Seen, Shut
    <2>5. ErrLast'
        BY <2>2 DEF TransportInv, TypeInv, TypeOK, ErrLast
    <2>6. OpenIsRead'
        <3>1. ReadError(s) => state[s] = "closed"
            BY <2>2 DEF ReadError, TransportInv, TypeInv, TypeOK, ErrLast
        <3>2. QED
            BY <2>1, <2>2, <3>1 DEF ReadMessage, ReadError, TransportInv, TypeInv, TypeOK, OpenIsRead, Draining
    <2>7. QED
        BY <1>1, <2>3, <2>4, <2>5, <2>6 DEF TransportInv
<1>6. CASE TransportMoves
    <2>1. Seen'
        BY <1>6 DEF TransportMoves, Seen
    <2>2. rpc' = rpc /\ chan' = Held'
        BY <1>6 DEF TransportMoves
    <2>3. ASSUME NEW s \in Sub, NEW m \in Message, Conn!Put(s, m)
          PROVE  /\ ch' \in [Sub -> Seq(Message)]
                 /\ sent' \in [Sub -> Nat]
                 /\ chan' = [chan EXCEPT ![s] = Append(@, Kind(m))]
                 /\ state[s] = "open"
        <3>1. /\ state[s] = "open"
              /\ ch' = [ch EXCEPT ![s] = Append(@, m)]
              /\ sent' = [sent EXCEPT ![s] = @ + 1]
            BY <2>3 DEF Conn!Put
        <3>2. ch' \in [Sub -> Seq(Message)] /\ sent' \in [Sub -> Nat]
            BY <3>1 DEF TransportInv, ConnTypes
        <3>3. QED
            BY <2>2, <2>3, <3>1, <3>2, PutIsSeen
    <2>4. ASSUME NEW s \in Sub, Conn!Deliver(s)
          PROVE  ConnTypes' /\ ErrLast' /\ OpenIsRead'
        <3>1. <<"msg", sent[s] + 1>> \in Message
            BY DEF Message, TransportInv, ConnTypes
        <3>2. Conn!Put(s, <<"msg", sent[s] + 1>>) /\ state' = state
            BY <2>4 DEF Conn!Deliver
        <3>3. ConnTypes' /\ OpenIsRead'
            BY <2>2, <2>3, <3>1, <3>2 DEF TransportInv, ConnTypes, OpenIsRead, Draining
        <3>4. chan' = [chan EXCEPT ![s] = Append(@, "msg")]
            BY <2>3, <3>1, <3>2, KindIs
        <3>5. QED
            BY <3>2, <3>3, <3>4 DEF TransportInv, TypeInv, TypeOK, ErrLast
    <2>5. ASSUME NEW s \in Sub, Conn!Fail(s)
          PROVE  ConnTypes' /\ ErrLast' /\ OpenIsRead'
        <3>1. PICK m \in {Conn!EndErr, Conn!LateErr} : Conn!Put(s, m)
            BY <2>5 DEF Conn!Fail
        <3>2. m \in Message /\ Kind(m) = "err"
            BY KindIs DEF Message
        <3>3. state' = [state EXCEPT ![s] = "closed"]
            BY <2>5 DEF Conn!Fail
        <3>4. ConnTypes' /\ OpenIsRead'
            BY <2>2, <2>3, <3>1, <3>2, <3>3 DEF TransportInv, ConnTypes, OpenIsRead, Draining
        <3>5. chan' = [chan EXCEPT ![s] = Append(@, "err")]
            BY <2>3, <3>1, <3>2
        <3>6. QED
            BY <3>3, <3>4, <3>5 DEF TransportInv, TypeInv, TypeOK, ConnTypes, ErrLast
    <2>6. ASSUME NEW s \in Sub, Conn!Close(s)
          PROVE  ConnTypes' /\ ErrLast' /\ OpenIsRead'
        <3>1. state' = [state EXCEPT ![s] = "closed"] /\ UNCHANGED <<ch, sent>>
            BY <2>6 DEF Conn!Close
        <3>2. chan' = chan
            BY <2>2, <3>1 DEF TransportInv, Seen, Held
        <3>3. QED
            BY <2>2, <3>1, <3>2 DEF TransportInv, ConnTypes, ErrLast, OpenIsRead, Draining
    <2>7. CASE Conn!GoDown
        <3>1. UNCHANGED <<state, ch, sent>>
            BY <2>7 DEF Conn!GoDown
        <3>2. chan' = chan
            BY <2>2, <3>1 DEF TransportInv, Seen, Held
        <3>3. ConnTypes' /\ ErrLast' /\ OpenIsRead'
            BY <2>2, <3>1, <3>2 DEF TransportInv, ConnTypes, ErrLast, OpenIsRead, Draining
        <3>4. QED
            BY <1>1, <2>1, <3>3 DEF TransportInv
    <2>8. QED
        BY <1>1, <1>6, <2>1, <2>4, <2>5, <2>6, <2>7 DEF TransportMoves, TransportInv
<1>7. CASE UNCHANGED <<vars, connVars>>
    <2>1. UNCHANGED <<chan, closed, rpc, state, ch, sent>>
        BY <1>7 DEF vars, connVars
    <2>2. ConnTypes' /\ Seen' /\ ErrLast' /\ OpenIsRead'
        BY <2>1 DEF TransportInv, ConnTypes, Seen, Held, Shut, ErrLast, OpenIsRead, Draining
    <2>3. QED
        BY <1>1, <2>2 DEF TransportInv
<1>8. QED
    BY <1>2, <1>3, <1>4, <1>5, <1>6, <1>7 DEF TNext

\* Whatever a transport that keeps the promises of transport.Subscription does,
\* Router takes it into account: every behaviour of the two together is one of
\* module Router, so what is proved there holds over every such transport.  In
\* particular nothing arrives for a reader that has left its range loop.
THEOREM RouterOverTransport == TSpec => Spec
<1>1. TSpec => []TransportInv
    BY TransportInvInit, TransportInvStep, PTL DEF TSpec
<1>2. TInit => Init
    BY DEF TInit
<1>3. QED
    BY <1>1, <1>2, StepIsRouters, PTL DEF TSpec, Spec
=============================================================================

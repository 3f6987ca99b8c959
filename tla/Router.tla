------------------------------- MODULE Router -------------------------------
(***************************************************************************)
(* The callback router of internal/router/router.go: a registry from       *)
(* destination to (transport subscription, handlers, reader goroutine).    *)
(*                                                                         *)
(* Every critical section of r.mu is one action, except Subscribe on a     *)
(* destination without a live reader: it keeps r.mu while it calls         *)
(* conn.Subscribe, so the mutex is a variable and that call has a          *)
(* beginning and an end.  What happens outside r.mu (close(state.done),    *)
(* the handler calls, sub.Unsubscribe, publishErr) are actions of their    *)
(* own and interleave with everything.                                     *)
(*                                                                         *)
(* publishErr is one step here; its retry loop is module ErrorChan.        *)
(***************************************************************************)
EXTENDS Naturals, Sequences, FiniteSets

CONSTANTS
    Dests,      \* destinations
    Callers,    \* goroutines that call the Router's methods
    None,       \* no destination, no caller
    MaxSubs,    \* bound: transport subscriptions ever created
    MaxTokens,  \* bound: calls of Subscribe
    ChanCap     \* capacity of a subscription's channel C()

ASSUME RouterAssumption ==
    /\ None \notin Dests
    /\ None \notin Callers
    /\ MaxSubs \in Nat
    /\ MaxTokens \in Nat
    /\ ChanCap \in Nat

Sub == 1 .. MaxSubs      \* a destState, its subscription and its reader
Token == 1 .. MaxTokens
NoSub == 0

VARIABLES
    \* Router
    mu,         \* who holds r.mu across steps, or None
    dests,      \* r.dests: the registered destState of a destination
    nextToken,  \* r.nextToken
    \* destState
    nsubs,      \* how many destStates were created
    destOf,     \* the destination it was created for
    handlers,   \* its handlers, by token
    done,       \* is its done channel closed?
    \* its transport.Subscription
    chan,       \* what C() still holds
    closed,     \* is C() closed?
    stop,       \* has Unsubscribe been called on it?
    \* its reader goroutine
    rpc,        \* where readLoop is
    termErr,    \* termErr # nil
    snap,       \* handlers of the current message still to be called
    \* callers
    cpc,        \* which call the caller is in
    ctok,       \* Subscribe: its token
    cdest,      \* Subscribe: its destination
    csubs,      \* Unsubscribe, Close: subscriptions still to be unsubscribed
    \* history
    home,       \* the destState that a token was registered on
    unsubbed,   \* tokens given to Unsubscribe with their own destination
    teardown,   \* which call, if any, deregistered a destState
    replaced,   \* dead destStates that Subscribe replaced
    reported,   \* what was published on Errors() for a destState
    joined      \* how many destStates there were when a Close last returned

routerVars == <<mu, dests, nextToken>>
stateVars == <<nsubs, destOf, handlers, done>>
subVars == <<chan, closed, stop>>
readerVars == <<rpc, termErr, snap>>
callerVars == <<cpc, ctok, cdest, csubs>>
historyVars == <<home, unsubbed, teardown, replaced, reported, joined>>
vars == <<routerVars, stateVars, subVars, readerVars, callerVars, historyVars>>

ReaderPc == {"none", "range", "snapshot", "dispatch", "exit", "dereg",
             "publish", "gone"}
CallerPc == {"idle", "subscribe", "dial", "unsubscribe", "close"}

\* A reader counted by r.wg: wg.Add(1) ran and its deferred wg.Done() did not.
Live(s) == rpc[s] \notin {"none", "gone"}

\* The states in which the range loop of readLoop is still running.
Draining(s) == rpc[s] \in {"range", "snapshot", "dispatch"}

Registered(s) == destOf[s] # None /\ dests[destOf[s]] = s

\* The router deregistered it itself.
TornDown(s) == teardown[s] # "none"

-----------------------------------------------------------------------------
\* New: an idle router on a connection.
Init ==
    /\ mu = None
    /\ dests = [d \in Dests |-> NoSub]
    /\ nextToken = 0
    /\ nsubs = 0
    /\ destOf = [s \in Sub |-> None]
    /\ handlers = [s \in Sub |-> {}]
    /\ done = [s \in Sub |-> FALSE]
    /\ chan = [s \in Sub |-> <<>>]
    /\ closed = [s \in Sub |-> FALSE]
    /\ stop = [s \in Sub |-> FALSE]
    /\ rpc = [s \in Sub |-> "none"]
    /\ termErr = [s \in Sub |-> FALSE]
    /\ snap = [s \in Sub |-> {}]
    /\ cpc = [c \in Callers |-> "idle"]
    /\ ctok = [c \in Callers |-> 0]
    /\ cdest = [c \in Callers |-> None]
    /\ csubs = [c \in Callers |-> {}]
    /\ home = [t \in Token |-> NoSub]
    /\ unsubbed = {}
    /\ teardown = [s \in Sub |-> "none"]
    /\ replaced = {}
    /\ reported = [s \in Sub |-> "nothing"]
    /\ joined = 0

-----------------------------------------------------------------------------
(***************************************************************************)
(* Subscribe                                                               *)
(***************************************************************************)

\* The token is drawn before the lock is taken.
SubscribeBegin(c, d) ==
    /\ cpc[c] = "idle"
    /\ nextToken < MaxTokens
    /\ nextToken' = nextToken + 1
    /\ ctok' = [ctok EXCEPT ![c] = nextToken + 1]
    /\ cdest' = [cdest EXCEPT ![c] = d]
    /\ cpc' = [cpc EXCEPT ![c] = "subscribe"]
    /\ UNCHANGED <<mu, dests, stateVars, subVars, readerVars, csubs,
                   historyVars>>

\* The call returns; its locals are gone.
SubscribeReturn(c) ==
    /\ cpc' = [cpc EXCEPT ![c] = "idle"]
    /\ ctok' = [ctok EXCEPT ![c] = 0]
    /\ cdest' = [cdest EXCEPT ![c] = None]

\* Faulty: the dead() check is missing.
ReusableThoughDead(d) == dests[d] # NoSub

\* A registered destState is reused unless its done channel is closed.
Reusable(d) == dests[d] # NoSub /\ ~done[dests[d]]

SubscribeAttach(c) ==
    LET s == dests[cdest[c]] IN
    /\ cpc[c] = "subscribe"
    /\ mu = None
    /\ Reusable(cdest[c])
    /\ handlers' = [handlers EXCEPT ![s] = @ \cup {ctok[c]}]
    /\ home' = [home EXCEPT ![ctok[c]] = s]
    /\ SubscribeReturn(c)
    /\ UNCHANGED <<routerVars, nsubs, destOf, done, subVars, readerVars, csubs,
                   unsubbed, teardown, replaced, reported, joined>>

\* No live reader: conn.Subscribe is called with r.mu held.
SubscribeDial(c) ==
    /\ cpc[c] = "subscribe"
    /\ mu = None
    /\ ~Reusable(cdest[c])
    /\ mu' = c
    /\ cpc' = [cpc EXCEPT ![c] = "dial"]
    /\ UNCHANGED <<dests, nextToken, stateVars, subVars, readerVars, ctok,
                   cdest, csubs, historyVars>>

\* conn.Subscribe returned a subscription: register it and start its reader.
SubscribeFresh(c) ==
    LET s == nsubs + 1
        d == cdest[c]
    IN
    /\ cpc[c] = "dial"
    /\ nsubs < MaxSubs
    /\ nsubs' = s
    /\ destOf' = [destOf EXCEPT ![s] = d]
    /\ handlers' = [handlers EXCEPT ![s] = {ctok[c]}]
    /\ dests' = [dests EXCEPT ![d] = s]
    /\ rpc' = [rpc EXCEPT ![s] = "range"]
    /\ mu' = None
    /\ home' = [home EXCEPT ![ctok[c]] = s]
    /\ replaced' = replaced \cup ({dests[d]} \ {NoSub})
    /\ SubscribeReturn(c)
    /\ UNCHANGED <<nextToken, done, subVars, termErr, snap, csubs, unsubbed,
                   teardown, reported, joined>>

\* conn.Subscribe failed: nothing is registered and the token is void.
SubscribeFailed(c) ==
    /\ cpc[c] = "dial"
    /\ mu' = None
    /\ SubscribeReturn(c)
    /\ UNCHANGED <<dests, nextToken, stateVars, subVars, readerVars, csubs,
                   historyVars>>

(***************************************************************************)
(* Unsubscribe                                                             *)
(***************************************************************************)

\* Tokens that some Subscribe has returned.
Issued == {t \in Token : home[t] # NoSub}

\* Faulty: the destination stays registered while it is being cancelled.
DropLastStillRegistered(c, d, s) ==
    /\ teardown' = [teardown EXCEPT ![s] = "unsubscribe"]
    /\ csubs' = [csubs EXCEPT ![c] = {s}]
    /\ cpc' = [cpc EXCEPT ![c] = "unsubscribe"]
    /\ UNCHANGED dests

\* Faulty: the dead() check is the wrong way round.
DropLastIfDead(c, d, s) ==
    /\ dests' = [dests EXCEPT ![d] = NoSub]
    /\ teardown' = [teardown EXCEPT ![s] = "unsubscribe"]
    /\ \/ ~done[s] /\ UNCHANGED <<csubs, cpc>>
       \/ /\ done[s]
          /\ csubs' = [csubs EXCEPT ![c] = {s}]
          /\ cpc' = [cpc EXCEPT ![c] = "unsubscribe"]

\* The last handler takes the destination out of the registry before the
\* subscription is cancelled; a dead destState's is not cancelled at all.
DropLast(c, d, s) ==
    /\ dests' = [dests EXCEPT ![d] = NoSub]
    /\ teardown' = [teardown EXCEPT ![s] = "unsubscribe"]
    /\ \/ done[s] /\ UNCHANGED <<csubs, cpc>>
       \/ /\ ~done[s]
          /\ csubs' = [csubs EXCEPT ![c] = {s}]
          /\ cpc' = [cpc EXCEPT ![c] = "unsubscribe"]

\* Faulty: the other handlers of the destination are not looked at.
LastHandlerUnchecked(s, t) == TRUE

LastHandler(s, t) == handlers[s] \subseteq {t}

\* The critical section of Unsubscribe(dest, tok) on a registered destState.
UnsubscribeToken(c, d, t) ==
    LET s == dests[d] IN
    /\ cpc[c] = "idle"
    /\ mu = None
    /\ t \in Issued
    /\ s # NoSub
    /\ handlers' = [handlers EXCEPT ![s] = @ \ {t}]
    /\ unsubbed' = unsubbed \cup (IF destOf[home[t]] = d THEN {t} ELSE {})
    /\ \/ LastHandler(s, t) /\ DropLast(c, d, s)
       \/ ~LastHandler(s, t) /\ UNCHANGED <<dests, teardown, csubs, cpc>>
    /\ UNCHANGED <<mu, nextToken, nsubs, destOf, done, subVars, readerVars,
                   ctok, cdest, home, replaced, reported, joined>>

\* An unknown destination is a no-op.
UnsubscribeUnknown(c, d, t) ==
    /\ cpc[c] = "idle"
    /\ mu = None
    /\ t \in Issued
    /\ dests[d] = NoSub
    /\ unsubbed' = unsubbed \cup (IF destOf[home[t]] = d THEN {t} ELSE {})
    /\ UNCHANGED <<routerVars, stateVars, subVars, readerVars, callerVars,
                   home, teardown, replaced, reported, joined>>

\* sub.Unsubscribe(), outside r.mu.
UnsubscribeSub(c) ==
    /\ cpc[c] = "unsubscribe"
    /\ stop' = [s \in Sub |-> stop[s] \/ s \in csubs[c]]
    /\ csubs' = [csubs EXCEPT ![c] = {}]
    /\ cpc' = [cpc EXCEPT ![c] = "idle"]
    /\ UNCHANGED <<routerVars, stateVars, chan, closed, readerVars, ctok,
                   cdest, historyVars>>

(***************************************************************************)
(* Close                                                                   *)
(***************************************************************************)

\* The registered destStates.
States == {dests[d] : d \in Dests} \ {NoSub}

\* Faulty: absent destinations are collected too.
CollectAbsent == {dests[d] : d \in Dests}

\* Faulty: the dead() check is the wrong way round.
CollectDead == {s \in States : done[s]}

\* The subscriptions to cancel: a dead destState's was closed peer-side.
Collect == {s \in States : ~done[s]}

\* The critical section: collect the live subscriptions, clear the registry.
CloseBegin(c) ==
    /\ cpc[c] = "idle"
    /\ mu = None
    /\ csubs' = [csubs EXCEPT ![c] = Collect]
    /\ dests' = [d \in Dests |-> NoSub]
    /\ cpc' = [cpc EXCEPT ![c] = "close"]
    /\ teardown' = [s \in Sub |-> IF s \in States THEN "close"
                                     ELSE teardown[s]]
    /\ UNCHANGED <<mu, nextToken, stateVars, subVars, readerVars, ctok, cdest,
                   home, unsubbed, replaced, reported, joined>>

\* sub.Unsubscribe() for each collected subscription, in any order.
CloseUnsubscribe(c, s) ==
    /\ cpc[c] = "close"
    /\ s \in csubs[c]
    /\ stop' = [stop EXCEPT ![s] = TRUE]
    /\ csubs' = [csubs EXCEPT ![c] = @ \ {s}]
    /\ UNCHANGED <<routerVars, stateVars, chan, closed, readerVars, cpc, ctok,
                   cdest, historyVars>>

\* Faulty: r.wg.Wait() is missing.
NoWait == TRUE

ReadersExited == \A s \in Sub : ~Live(s)

\* r.wg.Wait() and return.
CloseReturn(c) ==
    /\ cpc[c] = "close"
    /\ csubs[c] = {}
    /\ ReadersExited
    /\ cpc' = [cpc EXCEPT ![c] = "idle"]
    /\ joined' = nsubs
    /\ UNCHANGED <<routerVars, stateVars, subVars, readerVars, ctok, cdest,
                   csubs, home, unsubbed, teardown, replaced, reported>>

-----------------------------------------------------------------------------
(***************************************************************************)
(* readLoop                                                                *)
(***************************************************************************)

\* range state.sub.C() yields a message.
ReadMessage(s) ==
    /\ rpc[s] = "range"
    /\ chan[s] # <<>>
    /\ Head(chan[s]) = "msg"
    /\ chan' = [chan EXCEPT ![s] = Tail(@)]
    /\ rpc' = [rpc EXCEPT ![s] = "snapshot"]
    /\ UNCHANGED <<routerVars, stateVars, closed, stop, termErr, snap,
                   callerVars, historyVars>>

\* ... a terminal error: break.
ReadError(s) ==
    /\ rpc[s] = "range"
    /\ chan[s] # <<>>
    /\ Head(chan[s]) = "err"
    /\ chan' = [chan EXCEPT ![s] = Tail(@)]
    /\ termErr' = [termErr EXCEPT ![s] = TRUE]
    /\ rpc' = [rpc EXCEPT ![s] = "exit"]
    /\ UNCHANGED <<routerVars, stateVars, closed, stop, snap, callerVars,
                   historyVars>>

\* ... nothing more: the range ends.
ReadClosed(s) ==
    /\ rpc[s] = "range"
    /\ chan[s] = <<>>
    /\ closed[s]
    /\ rpc' = [rpc EXCEPT ![s] = "exit"]
    /\ UNCHANGED <<routerVars, stateVars, subVars, termErr, snap, callerVars,
                   historyVars>>

\* Faulty: the handlers are looked up in the registry.
RegistryHandlers(s) ==
    IF dests[destOf[s]] = NoSub THEN {} ELSE handlers[dests[destOf[s]]]

\* The handlers of this reader's own destState, not of the registered one.
OwnHandlers(s) == handlers[s]

\* Copy the handlers under r.mu.
Snapshot(s) ==
    /\ rpc[s] = "snapshot"
    /\ mu = None
    /\ snap' = [snap EXCEPT ![s] = OwnHandlers(s)]
    /\ rpc' = [rpc EXCEPT ![s] = IF snap'[s] = {} THEN "range" ELSE "dispatch"]
    /\ UNCHANGED <<routerVars, stateVars, subVars, termErr, callerVars,
                   historyVars>>

\* One handler call, outside r.mu; map order is arbitrary.
Dispatch(s, t) ==
    /\ rpc[s] = "dispatch"
    /\ t \in snap[s]
    /\ snap' = [snap EXCEPT ![s] = @ \ {t}]
    /\ rpc' = [rpc EXCEPT ![s] = IF snap'[s] = {} THEN "range" ELSE "dispatch"]
    /\ UNCHANGED <<routerVars, stateVars, subVars, termErr, callerVars,
                   historyVars>>

\* close(state.done), before r.mu is taken.
MarkDead(s) ==
    /\ rpc[s] = "exit"
    /\ done' = [done EXCEPT ![s] = TRUE]
    /\ rpc' = [rpc EXCEPT ![s] = "dereg"]
    /\ UNCHANGED <<routerVars, nsubs, destOf, handlers, subVars, termErr, snap,
                   callerVars, historyVars>>

\* Faulty: after an error the destination stays registered.
DeregisterUnlessError(s) ==
    LET unexpected == dests[destOf[s]] = s IN
    /\ rpc[s] = "dereg"
    /\ mu = None
    /\ dests' = [dests EXCEPT ![destOf[s]] =
                     IF unexpected /\ ~termErr[s] THEN NoSub ELSE @]
    /\ rpc' = [rpc EXCEPT ![s] = IF termErr[s] \/ unexpected
                                 THEN "publish" ELSE "gone"]
    /\ UNCHANGED <<mu, nextToken, stateVars, subVars, termErr, snap,
                   callerVars, historyVars>>

\* Still registered means unexpected; an error is published in any case.
Deregister(s) ==
    LET unexpected == dests[destOf[s]] = s IN
    /\ rpc[s] = "dereg"
    /\ mu = None
    /\ dests' = [dests EXCEPT ![destOf[s]] = IF unexpected THEN NoSub ELSE @]
    /\ rpc' = [rpc EXCEPT ![s] = IF termErr[s] \/ unexpected
                                 THEN "publish" ELSE "gone"]
    /\ UNCHANGED <<mu, nextToken, stateVars, subVars, termErr, snap,
                   callerVars, historyVars>>

\* publishErr, then the deferred wg.Done().
Publish(s) ==
    /\ rpc[s] = "publish"
    /\ reported' = [reported EXCEPT ![s] =
                        IF termErr[s] THEN "error" ELSE "closed"]
    /\ rpc' = [rpc EXCEPT ![s] = "gone"]
    /\ UNCHANGED <<routerVars, stateVars, subVars, termErr, snap, callerVars,
                   home, unsubbed, teardown, replaced, joined>>

-----------------------------------------------------------------------------
(***************************************************************************)
(* The subscription, as transport.Subscription and its use here promise:   *)
(* messages, then perhaps an error, then a closed channel.  The peer may   *)
(* end it at any time; Unsubscribe ends it eventually, and what was on its *)
(* way may still arrive before that.                                       *)
(***************************************************************************)

PeerMessage(s) ==
    /\ Live(s)
    /\ ~closed[s]
    /\ Len(chan[s]) < ChanCap
    /\ chan' = [chan EXCEPT ![s] = Append(@, "msg")]
    /\ UNCHANGED <<routerVars, stateVars, closed, stop, readerVars, callerVars,
                   historyVars>>

PeerError(s) ==
    /\ Live(s)
    /\ ~closed[s]
    /\ Len(chan[s]) < ChanCap
    /\ chan' = [chan EXCEPT ![s] = Append(@, "err")]
    /\ closed' = [closed EXCEPT ![s] = TRUE]
    /\ UNCHANGED <<routerVars, stateVars, stop, readerVars, callerVars,
                   historyVars>>

PeerClose(s) ==
    /\ Live(s)
    /\ ~closed[s]
    /\ closed' = [closed EXCEPT ![s] = TRUE]
    /\ UNCHANGED <<routerVars, stateVars, chan, stop, readerVars, callerVars,
                   historyVars>>

\* Unsubscribe closes C().
StopClose(s) ==
    /\ stop[s]
    /\ ~closed[s]
    /\ closed' = [closed EXCEPT ![s] = TRUE]
    /\ UNCHANGED <<routerVars, stateVars, chan, stop, readerVars, callerVars,
                   historyVars>>

-----------------------------------------------------------------------------
\* A call that has begun goes on.
CallerStep(c) ==
    \/ SubscribeAttach(c)
    \/ SubscribeDial(c)
    \/ SubscribeFresh(c)
    \/ SubscribeFailed(c)
    \/ UnsubscribeSub(c)
    \/ \E s \in Sub : CloseUnsubscribe(c, s)
    \/ CloseReturn(c)

\* A caller begins a call.
CallerBegin(c) ==
    \/ \E d \in Dests : SubscribeBegin(c, d)
    \/ \E d \in Dests, t \in Token :
          UnsubscribeToken(c, d, t) \/ UnsubscribeUnknown(c, d, t)
    \/ CloseBegin(c)

ReaderStep(s) ==
    \/ ReadMessage(s)
    \/ ReadError(s)
    \/ ReadClosed(s)
    \/ Snapshot(s)
    \/ \E t \in Token : Dispatch(s, t)
    \/ MarkDead(s)
    \/ Deregister(s)
    \/ Publish(s)

Peer(s) == PeerMessage(s) \/ PeerError(s) \/ PeerClose(s)

Next ==
    \/ \E c \in Callers : CallerBegin(c) \/ CallerStep(c)
    \/ \E s \in Sub : ReaderStep(s) \/ StopClose(s) \/ Peer(s)

Spec == Init /\ [][Next]_vars

(***************************************************************************)
(* Goroutines that can run do run: a call in progress, a reader (so its    *)
(* handlers return), and the transport's reaction to Unsubscribe.  Nobody  *)
(* is obliged to make a call, and the peer is obliged to nothing.          *)
(***************************************************************************)
Fairness ==
    /\ \A c \in Callers : WF_vars(CallerStep(c))
    /\ \A s \in Sub : WF_vars(ReaderStep(s)) /\ WF_vars(StopClose(s))

FairSpec == Spec /\ Fairness

-----------------------------------------------------------------------------
(***************************************************************************)
(* Properties                                                              *)
(***************************************************************************)

\* Every variable has its type (the fields of Router and destState, the
\* program points of readLoop and of the public methods).
TypeOK ==
    /\ mu \in Callers \cup {None}
    /\ dests \in [Dests -> Sub \cup {NoSub}]
    /\ nextToken \in Token \cup {0}
    /\ nsubs \in Sub \cup {0}
    /\ destOf \in [Sub -> Dests \cup {None}]
    /\ handlers \in [Sub -> SUBSET Token]
    /\ done \in [Sub -> BOOLEAN]
    /\ chan \in [Sub -> Seq({"msg", "err"})]
    /\ closed \in [Sub -> BOOLEAN]
    /\ stop \in [Sub -> BOOLEAN]
    /\ rpc \in [Sub -> ReaderPc]
    /\ termErr \in [Sub -> BOOLEAN]
    /\ snap \in [Sub -> SUBSET Token]
    /\ cpc \in [Callers -> CallerPc]
    /\ ctok \in [Callers -> Token \cup {0}]
    /\ cdest \in [Callers -> Dests \cup {None}]
    /\ csubs \in [Callers -> SUBSET Sub]
    /\ home \in [Token -> Sub \cup {NoSub}]
    /\ unsubbed \in SUBSET Token
    /\ teardown \in [Sub -> {"none", "unsubscribe", "close"}]
    /\ replaced \in SUBSET Sub
    /\ reported \in [Sub -> {"nothing", "error", "closed"}]
    /\ joined \in Sub \cup {0}

\* "A destination present in the registry always has a live reader goroutine"
\* (the health contract of the package comment): the registered destState is
\* this destination's, holds a handler, and its reader has not passed
\* deregistration; unless done already says that it is on its way out, the
\* reader has not even closed done.
RegistryLive ==
    \A d \in Dests :
        LET s == dests[d] IN
        s # NoSub =>
            /\ destOf[s] = d
            /\ handlers[s] # {}
            /\ IF done[s] THEN rpc[s] = "dereg"
               ELSE Draining(s) \/ rpc[s] = "exit"

\* A registration that nobody took back is never lost silently: its destState
\* is registered with it, or a Close cleared it, or its failure is published or
\* about to be; an Unsubscribe of another token is no excuse.  The exception is
\* the one replacement window: a dead destState that Subscribe replaced before
\* its reader deregistered.
RegistrationAccounted ==
    \A t \in Issued \ unsubbed :
        LET s == home[t] IN
        \/ Registered(s) /\ t \in handlers[s]
        \/ teardown[s] = "close"
        \/ rpc[s] = "publish"
        \/ reported[s] # "nothing"
        \/ s \in replaced

\* "When a reader stops for any reason other than a teardown the router itself
\* performed, it ... publishes the cause on Errors()" (package comment): the
\* same with no exception for a destState that Subscribe replaced.
UnexpectedExitReported ==
    \A s \in Sub :
        rpc[s] = "gone" /\ ~TornDown(s) => reported[s] # "nothing"

\* "Our own teardown is never reported as a fault": a destState that
\* Unsubscribe or Close deregistered is not published as closed by the peer.
OwnTeardownNotAFault ==
    \A s \in Sub : TornDown(s) => reported[s] # "closed"

\* A reader calls only handlers registered on its own destState, even while a
\* replacement destState is registered for the same destination.
DispatchesOwnHandlers ==
    \A s \in Sub : \A t \in snap[s] : home[t] = s

\* "A dead destination is never silently reattached to": no handler joins a
\* destState after its reader closed done, so no Token is bound to a reader that
\* has announced its exit.
DeadNeverJoined ==
    [][\A s \in Sub : done[s] => handlers'[s] \subseteq handlers[s]]_vars

\* No transport subscription is forgotten: one whose reader is still draining
\* is registered, or about to be unsubscribed by a call in progress, or
\* unsubscribed, or ended by the peer.
NoOrphanSubscription ==
    \A s \in Sub :
        Draining(s) =>
            \/ Registered(s)
            \/ \E c \in Callers : s \in csubs[c]
            \/ stop[s]
            \/ closed[s]

\* "This guarantees no goroutine outlives the router" (Close): once a Close has
\* returned, no reader that was started before its return runs, whichever calls
\* of Subscribe, Unsubscribe and Close it overlapped.
NoReaderOutlivesClose == \A s \in Sub : s <= joined => ~Live(s)

\* "Close unsubscribes all destinations and waits for every reader goroutine to
\* exit": the wait ends, whatever else is going on.
CloseReturns ==
    \A c \in Callers : cpc[c] = "close" ~> cpc[c] = "idle"

\* Close returns, also against other calls of Close and Unsubscribe and against
\* handlers and the peer, unless a Subscribe that got r.mu after it registered a
\* reader, which r.wg.Wait() then waits for and nobody cancels.
CloseReturnsUnlessRaced ==
    \A c \in Callers :
        cpc[c] = "close" ~> (cpc[c] = "idle" \/ \E s \in Sub : Registered(s))

\* Removing the last handler, or Close, makes the reader goroutine exit.
TornDownReaderExits ==
    \A s \in Sub : TornDown(s) ~> rpc[s] = "gone"

\* The registry lets go of a dead reader: its destination can be registered
\* again by the next Subscribe.
DeadReaderDeregisters ==
    \A s \in Sub : done[s] ~> ~Registered(s)
=============================================================================

# A verification project for gridappsd-go

gridappsd-go is a Go client library for the GridAPPS-D platform: it opens STOMP
sessions to a broker (with a GOSS token exchange first), multiplexes handlers
over shared subscriptions, and offers request/reply. The library has little
data and a lot of concurrency: reader goroutines, a bridge goroutine per
subscription, unsubscribes started by a context, timers that close sockets, and
a `Disconnect` that may run at any moment. This project models that
concurrency in TLA+, checks it with TLC on small instances, and proves with
TLAPS, for every value of the constants, the safety properties of all of its
components, that the STOMP transport implements the interface
`transport.Subscription`, and that the router may stand on any transport that
does.

Contents: [inventory](#inventory), [modules](#modules-and-code),
[runs](#runs), [fairness](#fairness), [findings](#findings),
[proofs](#proofs), [limits](#what-is-not-modelled-or-not-proved),
[plan](#plan).

## Inventory

| Component | Source | State | Operations | Interacts with |
| --- | --- | --- | --- | --- |
| Callback router | `internal/router/router.go` | `dests` (destination to `destState`), `nextToken`, `wg`, `mu`; per `destState` the subscription, handlers by token, `done` | `Subscribe`, `Unsubscribe`, `Close`, `Errors`, one `readLoop` goroutine per destination | calls `transport.Conn.Subscribe` under `mu`, reads `Subscription.C()`, calls user handlers outside `mu` |
| Error channel | same file, `publishErr` | `errs`, buffered | bounded loop of non-blocking sends and discards | every reader that stops on its own publishes; a health monitor receives |
| STOMP transport | `internal/stomp/stomp.go`, `transport/transport.go` | per connection `closing`, `unsubs` (a WaitGroup), `ended`, the disconnect bound; per subscription `stop`, `once`, `err`, `out`, `src` | `Dial`, `Send`, `Subscribe`, `Unsubscribe`, `Disconnect`, the `bridge` goroutine | go-stomp (external): one I/O loop per connection that delivers, answers receipts, and stalls while a subscription's channel is full |
| Request/reply | `internal/reqresp/reqresp.go` | a reply destination and a subscription per call | `GetResponse` | `Conn.Subscribe` with the caller's ctx, `Conn.Send` |
| Field bus | `fieldbus/fieldbus.go` | `conn`, `rtr`, `connected` under `b.mu` | `Connect`, `Disconnect`, `Subscribe`, `Unsubscribe`, `Send`, `GetResponse`, `IsConnected`, `Errors` | captures `rtr` or `conn` under `b.mu`, uses it after releasing it |
| Token exchange | `internal/auth/auth.go` | a credential connection, its subscription, the teardown's results and an `AfterFunc` for the time of one exchange | `Exchange`, `fetchToken`, `endCredentialConn`, `joinSteps`, `escapeBounded` | transport; a teardown goroutine that the caller need not wait for |
| Client connect | `gridappsd/client.go` | none that lasts | `Connect`, TLS or plaintext dialing | auth, transport |
| Topics, headers | `topics/topics.go`, `message/message.go` | none | names; `NormalizeDestination` | everything |
| Test fakes | `internal/transporttest` | - | - | tests only |

What is hard in this code, and the property that each part owes its callers:

* **Router.** A reader announces its death (`close(state.done)`) before it
  takes `mu` to deregister, so a `Subscribe` can find a dead destination and
  replace it in between. The registry must never hold a destination without a
  reader; no handler may be attached to a dead reader; no registration may
  vanish without a trace; the router's own teardown must not look like a fault
  of the peer; `Close` must end with no goroutine left.
* **Error channel.** Many readers publish at once when a connection is lost.
  Nobody may block, and what is dropped must be the oldest.
* **Transport.** go-stomp must not be unsubscribed while it is being closed;
  its loop stalls when a bridge stalls, and then every receipt of the
  connection waits. The bridge chooses between four events in two `select`s.
  Disconnect waits for a receipt unless it knows that none can come.
* **Request/reply.** The reply, the context and the closing of the channel race.
* **Field bus.** What was captured under `b.mu` is stale when it is used.
* **Token exchange.** ctx may end at any step, also while the teardown is under
  way: every socket must be closed, the caller must get away, the error it sees
  must be the exchange's own, and a token must be used exactly when ctx was
  still live. Text from a broker must not spoil a log line.
* **Client connect.** Plaintext only where the caller chose it, on both legs
  alike; a handshake is bounded even where ctx is not.

The hazards, each at its line, are listed in `PROJECT.json`.

## Modules and code

### `Router`

Models `router.go` whole. A destination's `destState`, its transport
subscription and its reader goroutine are one index `s \in Sub`, numbered in
the order of creation; `dests[d]` is `r.dests`, `handlers[s]` and `done[s]` the
fields of `destState`, `rpc[s]` the program point of `readLoop`
(`range`, `snapshot`, `dispatch`, `exit`, `dereg`, `publish`, `gone`) and
`cpc[c]` that of a caller. Tokens are the numbers `r.nextToken` gives out.
Variables under "history" exist only so that properties can speak of the past.

| Code | Action |
| --- | --- |
| `Subscribe`: token, then the lock, then one of three outcomes | `SubscribeBegin`; `SubscribeAttach`, or `SubscribeDial` followed by `SubscribeFresh` or `SubscribeFailed` |
| `Unsubscribe`: critical section, then `sub.Unsubscribe()` outside the lock | `UnsubscribeToken` (with `LastHandler`, `DropLast`) or `UnsubscribeUnknown`; `UnsubscribeSub` |
| `Close`: collect and clear, unsubscribe each, wait | `CloseBegin` (`Collect`), `CloseUnsubscribe`, `CloseReturn` |
| `readLoop` | `ReadMessage`, `ReadError`, `ReadClosed`, `Snapshot`, `Dispatch`, `MarkDead`, `Deregister`, `Publish` |
| the subscription behind `C()` | `PeerMessage`, `PeerError`, `PeerClose`, `StopClose` |

Grain of atomicity:

* A critical section of `r.mu` is one action. `Subscribe` without a live reader
  calls `conn.Subscribe` with the lock held, which may take long, so the lock
  is a variable there and every other section waits for it.
* `dead()` reads the `done` channel inside a critical section while
  `close(done)` happens outside. Evaluating `dead()` at one point of the section
  loses nothing: the closing goroutine does nothing else visible before it
  takes the lock itself.
* `sub.Unsubscribe()` is one step that marks the subscription stopped
  (`stop`); that its channel then closes is a separate step of the transport
  (`StopClose`), at any later time, with messages still arriving in between.
* Handlers that call the router's methods appear as other callers. A handler
  that waits for its own router's `Close` would wait for itself; the code
  forbids it and the model has no such handler.
* `publishErr` is one step here and is expanded in `ErrorChan`.

Callers may begin a `Subscribe` at any time, also one that overlaps or follows a
`Close`: the library does not prevent it. `joined` is the number of destStates
there were when a `Close` last returned, which is what `NoReaderOutlivesClose`
measures against; `Close` itself returns unless such a `Subscribe` got in behind
it (see [findings](#findings)).

### `ErrorChan`

`publishErr` as its loop: `Send` or `SendFull`, then `Discard` (`DropOldest`,
`LastTry`), with any number of publishers in any interleaving and a monitor
(`Receive`). An error is represented by its rank among the errors ever queued,
which makes "oldest" and "most recent" visible.

### `Stomp`

One connection of `stomp.go`. The variables are grouped as `conn` (`closing`,
`unsubs`, `ended`, the program point of `Disconnect` and what has become of its
DISCONNECT, `request`), `sub` (`stop`, `once`,
`err` and each call of `Unsubscribe`), bridge (program point, message in hand,
whether `out` is closed, what `C()` holds) and go-stomp.

| Code | Action |
| --- | --- |
| `conn.Subscribe`, `newSub` | `Subscribe`; the end of its ctx is `CtxDone` |
| `sub.Unsubscribe` and its `sync.Once` | `Unsubscribe`, `OnceRun`, `OnceReturn`, `OnceDone` |
| `beginUnsubscribe`, `endUnsubscribe` | `BeginUnsubscribe`, `RefuseUnsubscribe`, `EndUnsubscribe` |
| `bridge`, `endOut`, `endsConn` | `BridgeReceive`, `BridgeDiscard`, `BridgeSend`, `BridgeStop`, `BridgeDone`, `BridgeReturn`, `EndOut`, `EndsConn` |
| `Disconnect` | `DisconnectBegin`, `DisconnectMust`, `DisconnectSend`, `DisconnectReceipt`, `DisconnectTimer`, `DisconnectTimeout` |
| go-stomp (external) | `LoopTake`, `LoopDeliver`, `LoopTakeDisconnect`, `LoopEnd`, `LoopEndSub`, `LoopEndDisconnect`, `LoopBlocks`, `WireReceipt`, `WireEnded`, `WireTimeout` |

* go-stomp's loop holds one message in `busy` until the subscription's channel
  has room. While it does, no receipt arrives: this is what the bridge's
  "drain and discard" exists for, and what `UnsubscribeReturns` is about.
* `endUnsubscribe` and the end of the once's function are one step; both only
  release others. `c.unsubs.Wait()` and the read of `c.ended` are one step: the
  gate is closed and `ended` never goes back, so reading it later only adds
  the other branch, which the step already allows at a later time.
* The receipt of a DISCONNECT has its channel registered with the loop when the
  loop takes the frame (`LoopTakeDisconnect`). A loop that ends hands its error
  to everything that is registered, in no particular order. If `Disconnect` is
  still waiting, that ends the wait (`LoopEndDisconnect`); if go-stomp's own
  timeout gave up first, nobody receives on that channel and the loop blocks for
  good (`LoopBlocks`, `stomp.go:199-202` and the known issue of
  `CHANGELOG.md:53-55`), and the subscriptions it had not reached by then never
  hear of the end. `EndReachesBridges` excepts exactly that state. An
  `Unsubscribe` or the end of ctx still closes such a `C()`, which is what
  `SubscriptionEnds` says.
* `DisconnectTimer` comes before `DisconnectTimeout` because the timer is half
  the bound. The wording of the errors of `Disconnect` is left out; one call of
  `Disconnect` is modelled.
* `CtxSubs` are the subscriptions whose ctx can end. The router and the token
  exchange pass `context.WithoutCancel`, request/reply passes its own ctx.

### `Subscription` and `StompSubscription`

`Subscription` is what `transport/transport.go` promises of a subscription,
whoever implements it: `C()` delivers its messages in order and without a gap
(`Deliver`), an error is the last thing on it (`Fail`), it is closed only after
an unsubscribe, the end of its ctx or the end of the connection (`Close`), and
after an unsubscribe or the end of ctx it is closed in the end (`Ends`; the end of
the connection promises no such thing, see `LoopBlocks`). The reader takes what it likes (`Take`).
`StompSubscription` is the refinement mapping: a subscription is made when its
bridge runs and open until the bridge closes `out`; `stopped` is what the
bridge's selects wait for, `close(s.stop)` or `ctx.Done()`; `down` is the end of
go-stomp's loop, blocked or not.

### `RouterTransport`

The composition of `Router` with `Subscription`: a step of the router that calls
the transport (`RouterSubscribes`, `RouterUnsubscribes`, `RouterReceives`) is a
step of both, the others are its own (`RouterAlone`), and the transport sends on
`C()`, closes it or goes down when it likes (`TransportMoves`). The router sees
of `C()` what it holds (`Held`, messages and errors only, as `readLoop` tells
nothing else apart) and whether it is closed (`Shut`). `Router` alone leaves its
peer more freedom than that, a single subscription that the peer closes while
the connection goes on included (which a Subscribe that replaces a dead reader
needs, so the runs check `Router` itself); the theorem `RouterOverTransport` says
that it leaves enough. `TSpec => Spec` has no run of its own; TLC agrees with it on
the instance of `router` with one message per `C()`.
The case that is not obvious is a reader that has left its range loop:
`PeerMessage` and `PeerError` need `Live(s)`, so a transport that sent something
after an error, on a channel that nobody reads any more, would leave the model.

### `ReqResp`

`GetResponse` with every early return, the deferred `Unsubscribe` and the
`select`. Its subscription is the one of `Stomp` reduced to `C()` and the reason
it was closed; in particular the transport closes it when ctx is done
(`BridgeDone`). Random nonces are distinct by assumption (`FreshNonces`).
Answers come never, once or again, at any time.

### `Fieldbus`

The bus over its sessions, one after the other. `session` is `b.conn` and
`b.rtr`, which the code sets and clears together; `link[n]` is the state of a
session's connection and `regs[n]` the registrations of its router, which
appears as the registry that `Router` describes: a destination is present
exactly as long as its reader is, `Close` clears it (`RouterClear`) and waits
(`RouterWait`).

| Code | Action |
| --- | --- |
| `Connect`, which dials with `b.mu` held | `ConnectBegin`, then `ConnectOk` or `ConnectFails` |
| `Disconnect`: take the session, `rtr.Close()`, `conn.Disconnect()` | `DisconnectBegin`, `RouterClear`, `RouterWait`, `ConnDisconnect` |
| `Subscribe`, `Unsubscribe` | `SubscribeBegin`, then `SubscribeOk` or `SubscribeFails`; `UnsubscribeBegin`, `UnsubscribeEnd` |
| `topics.NormalizeDestination` | `Normalize`, on pairs of a prefix and a name |
| a lost connection, a reader that ends and reports | `Lose`, `ReaderEnd` |

Calls that return at once (`Connect` on a connected bus, the others without a
session) change nothing and have no action. `Send` and `GetResponse` capture
`b.conn` (`SendBegin`) and use it after `b.mu` is released (`SendEnd`), by which
time it may have been disconnected or replaced; they change nothing on the bus.
What `GetResponse` does in between is `ReqResp`.

### `Auth`, `BoundedText` and `ClientConfig`

One call of `gridappsd.Connect`, which is one `auth.Exchange`. Three goroutines
take part: the caller (`pc`), the teardown of the credential connection (`tpc`)
and the function given to `context.AfterFunc` (`closer`); ctx ends at any moment,
cancelled or, where it has a deadline, expired.

| Code | Action |
| --- | --- |
| `dial`, `dialPlain`, `dialTLS` | `DialOk`, `DialFails`, `HandshakeOk`, `HandshakeFails`; `DialsPlain`, `Hardened` of `ClientConfig` |
| `Dialer.Dial`: options, the deadline on the socket, CONNECT; `rwc.Close()` on failure | `ConnectBegin` (`Offer`, `ResolveHeartBeat`), `ConnectOk`, `ConnectFails` |
| `fetchToken` | `Nonce`, `Subscribe`, `Send`, `StepFails`, `Answered`, `WaitDone` |
| `endCredentialConn`: AfterFunc and goroutine, the two steps, its deferred calls | `EndBegin`; `TeardownSkips`, `TeardownCalls`, `UnsubscribeReturns`, `DisconnectReturns`, `TeardownReads`, `TeardownStops`, `TeardownDone`; `CloserCloses` |
| its two selects and the deferred function of `fetchToken` | `SettleDone`, `SettleLeft`, both with `Settle` (`MustClose`, `CtxFails`) |
| `bound`, `escapeBounded`, `isFormat`, `joinSteps` | `Bound`, `JoinSteps`; `EscapeBounded`, `Kept`, `Escape`, `IsFormat` of `BoundedText` |

* The outer select prefers neither `done` nor ctx, but one that sees ctx done
  looks at `done` once more; so `SettleLeft` needs `tpc # "done"`.
* The end of ctx and the start of the AfterFunc are one step (`CtxEnds`): the
  goroutine that is then started may run as late as it likes.
* The transport is the one of `Stomp`, seen through `transport.Conn`: any call
  may fail, and `Unsubscribe` and `Disconnect` take any time. An error of
  `Disconnect` leaves open whether the socket was closed.
* A text is the sequence of runes that `utf8.DecodeRuneInString` yields, so that
  what `escapeBounded` writes is a sequence of tokens (an escape, or the rune),
  each with its width in bytes. `LogLineSafe` states what its comment promises
  from the tokens alone: no rune is written raw that is a control, a line or
  paragraph separator or a format character (`Unprintable`). Which characters are
  format characters is the list of `isFormat` (`auth.go:249-263`), in the
  property as in the model. The note that `Error()` appends to a truncated text
  (`auth.go:206`) is fixed text and a number and is left out.
* The words of the errors, the base64 payload of the request and the frame of
  the answer are left out: an answer is a token, blank, an error, or the end.

### MC modules

`MCRouter`, `MCErrorChan`, `MCStomp`, `MCReqResp`, `MCFieldbus` and `MCAuth`
extend the component with what only TLC needs (symmetry sets, names of
destinations, configurations and texts). Each `.cfg` gives the constants. The
definitions commented "Faulty" in the component modules are plausible bugs; each
property has been checked to fail when the definition next to it is replaced by
its faulty form.

## Runs

| Run | Constants | Checks | Shows |
| --- | --- | --- | --- |
| `router` | 1 destination, 2 callers, 2 destStates, 2 tokens, channel of 1, fair | `TypeOK`, `RegistryLive`, `RegistrationAccounted`, `OwnTeardownNotAFault`, `DispatchesOwnHandlers`, `NoOrphanSubscription`, `NoReaderOutlivesClose`, `DeadNeverJoined`, `CloseReturnsUnlessRaced`, `TornDownReaderExits`, `DeadReaderDeregisters` | the registry stays healthy while calls, readers and the peer interleave; `Close` returns unless raced, and readers go away |
| `router_close_race` | the same | `CloseReturns` (violated) | finding 1 |
| `router_replace` | 2 tokens | `UnexpectedExitReported` (violated) | finding 2 |
| `error_chan` | 6 publishers, buffer of 2 | `TypeOK`, `GaveUpOutpaced`, `BurstObservable`, `MostRecentKept` | publishing gives up only when outpaced and loses the oldest first |
| `stomp` | 1 subscription with a ctx, 1 caller and the ctx's, 4 messages, buffers of 1, fair | `TypeOK`, `NoUnsubscribeUnderClose`, `OneAttempt`, `ForwardedIsPrefix`, `EndKnown`, `EndedIsReal`, `ImplementsSubscription`, `SubscriptionEnds`, `UnsubscribeReturns`, `EndReachesBridges`, `DisconnectReturns` | gate, once, bridge and `ended` in every interleaving with `Disconnect`; the transport implements `Subscription`; no stall, though nobody reads after an unsubscribe |
| `reqresp` | 2 requests, 2 nonces, 2 answers each, fair | `TypeOK`, `OwnReply`, `NoReplyMissed`, `NothingLeftSubscribed`, `BoundedByCtx` | overlapping calls with late and repeated answers |
| `reqresp_expiry` | 1 request | `ExpiryIsReported` (violated) | finding 3 |
| `fieldbus` | 3 callers, 3 sessions, 2 registrations, 3 names for 2 destinations | `TypeOK`, `SessionOwned`, `OnlyLateReported` | reconnects while earlier sessions are still being closed |
| `auth` | 4 configurations (plain or TLS, with and without a deadline, four kinds of heart-beats), 15 texts, limit of 12 bytes, fair | `TypeOK`, `OnlyOverlookedLeft`, `LegsInOrder`, `TeardownSettled`, `LogLineSafe`, `ExchangeReturns` | the exchange with a failure or the end of ctx at every step |
| `fieldbus_token` | 2 callers, 2 sessions, 2 registrations | `StaleTokenHarmless` (violated) | finding 4 |
| `fieldbus_late` | 2 callers, 2 sessions, 2 registrations | `OwnDisconnectNotAFault` (violated) | finding 5 |
| `auth_overlooked` | as `auth` | `SocketsReleased` (violated) | finding 6 |

Why the bounds suffice to make the hard cases happen:

* Two destStates on one destination is the replacement of a dead reader while
  the old one is still on its way; destinations interact only through `mu` and
  `Close`, which treats each alike. Two tokens are two handlers on one
  destState, or one on each; a channel of 1 is enough for a message or an
  error to be pending when the channel closes. The theorems of
  `RouterProofs` and `RouterLifecycleProofs` cover any number of all of them.
* Six publishers on a buffer of two fill it, overflow it, and outpace a
  publisher through all its `ErrorChanBuffer + 1` tries. The theorems cover
  every other size.
* In `stomp`, src (1), the message in hand (1), `C()` (1) and the loop's own
  message (1) take four messages: everything that can fill up is full. One
  subscription has its two calls of `Unsubscribe` (an explicit one and that of
  ctx), the bridge, the loop and `Disconnect` against each other. With two,
  TLC does not finish in reasonable time; that nothing goes wrong between
  subscriptions is proved for every invariant and for the refinement, and
  not checked for the liveness properties.
* Three callers on three sessions of the bus are two Disconnects under way while
  a third call connects or subscribes; one registration can be made in time and
  one behind the router's `Close`.
* The texts of `auth` hold a rune of every escape and every size in bytes, and
  end one byte below, at and one byte above the limit; 12 bytes are room for
  every escape and for two of most, and a text is never compared with anything
  but the limit. `maxStepErrLen` is larger in the code, which changes none of
  the cases.
* Deadlock is not checked: callers are not obliged to call, counters are
  bounded, and a connection that was closed has nothing left to do. What must
  happen is stated as liveness instead.

## Fairness

* `Router`: weak fairness of a call in progress, of a reader (so handlers
  return; a handler that never returns blocks `Close` by design) and of the
  transport's reaction to `Unsubscribe` (`SubscriptionEnds` of
  `StompSubscription` is that promise). Taking `r.mu` under weak fairness is enough because calls are
  bounded by `MaxTokens`; Go's mutex is starvation-free. Nobody must begin a
  call, and the peer owes nothing.
* `Stomp`: goroutines that can run do, go-stomp's timers fire, its loop delivers
  what it holds and ends once the socket is closed from this side. A consumer
  reads only until its subscription is unsubscribed. The broker owes neither
  messages nor receipts.
* `ReqResp`: a call that can go on does. That `Send` and `Unsubscribe` return is
  the transport's promise (`UnsubscribeReturns`); `Send` is not bounded by ctx
  in the code and the property starts when the call waits.
* `Auth`: the caller's goroutine runs on; `DialContext` and `HandshakeContext`
  return once their ctx is done, and a deadline on the socket fails the CONNECT
  in progress. Neither the broker nor the teardown goroutine owes anything, so
  `ExchangeReturns` holds although an `Unsubscribe` or a `Disconnect` may hang.
  A CONNECT under a ctx that can be cancelled but has no deadline is excepted:
  the code gives it nothing to end it.

## Findings

Each is a run in which TLC violates what a comment of the code says.

1. **`Close` may not return** (`router_close_race`). A `Subscribe` that waits for
   `r.mu` while `Close` clears the registry then registers a new subscription
   and starts a reader that nobody unsubscribes; `r.wg.Wait()` waits for it for
   as long as the connection lives (`router.go:262`), against "waits for every
   reader goroutine to exit" (`router.go:239`) and "This guarantees no goroutine
   outlives the router" (`router.go:260-261`). `CloseReturnsUnlessRaced` shows
   that nothing else keeps `Close`, and `NoReaderOutlivesClose` that a `Close`
   that does return has waited for every reader there was.
2. **A silent close can go unreported** (`router_replace`). The peer closes a
   subscription without an error; between the reader's `close(done)` and its
   critical section a `Subscribe` replaces the destState; then the reader finds
   itself not registered and publishes nothing (`router.go:306-322`), against
   the package comment (`router.go:32-35`). `RegistrationAccounted` shows that
   this is the only way in which a registration disappears.
3. **An expired ctx may be reported as a closed subscription**
   (`reqresp_expiry`). The transport closes `C()` on the same ctx that
   `GetResponse` selects on (`reqresp.go:78-89`, `stomp.go:335-340`).
4. **A token of an earlier session removes another handler**
   (`fieldbus_token`). `Connect` makes a new router (`fieldbus.go:178`) whose
   tokens begin at 1 again, so the first `Subscribe` of two sessions returns the
   same `Token`, against "Each Subscribe call returns a distinct Token"
   (`fieldbus.go:78`) and "remove exactly that registered handler" (52-54).
5. **A deliberate `Disconnect` may be reported as a fault** (`fieldbus_late`). A
   `Subscribe` that took the router before `Disconnect` did and registers between
   the end of `rtr.Close()` and `conn.Disconnect()` (`fieldbus.go:202-205`) has
   its reader end with the connection, which is published on `Errors()`, against
   "Teardown the bus performed itself, via Unsubscribe or Disconnect, is not
   reported" (`fieldbus.go:156-157`). `OnlyLateReported` shows that only such a
   registration is.
6. **The credential socket may stay open** (`auth_overlooked`). The teardown
   finds ctx live, stops the AfterFunc (`auth.go:154`) and then closes `done`. If
   `Disconnect` failed without closing the socket, which the code allows for
   ("a failed step does not show that the transport closed rwc1",
   `auth.go:332-333`), and ctx ends between the last two, the caller leaves by
   `ctx.Done()` with no step error and does not close the socket, and the
   AfterFunc no longer does; against "Once ctx is done rwc is closed"
   (`auth.go:131`), "The credential connection is always ended" (293) and
   "goss.py leaks this connection; we do not" (13). `OnlyOverlookedLeft` shows
   that this window (`Overlooked`) is the only one.

## Proofs

All theorems hold for arbitrary finite or infinite sets of destinations,
callers and subscriptions, and any bounds and capacities allowed by the named
assumptions (`RouterAssumption`, `ErrorChanAssumption`, `StompAssumption`,
`ReqRespAssumption`, `FieldbusAssumption`, `AuthAssumption`), which
only separate model values (`None` is not a caller), say that capacities and
limits are numbers, positive where the code's are, that publishers are finitely
many, and that a broker's text is a sequence of what decoding a Go string can
yield (`Rune`: the code points and one mark for an invalid byte).

| Module | Theorems | Inductive invariant |
| --- | --- | --- |
| `RouterProofs` | `TypeCorrect`, `RegistryIsLive`, `TeardownIsNotAFault`, `DeadStaysAlone` | `CoreInv`: types, who holds `mu`, which indices exist, what `done` says of a reader's program point, and `RegistryLive`. `TeardownInv` adds that a torn-down destState is not registered again and only a last step publishes |
| `RouterLifecycleProofs` | `DispatchIsOwn`, `NoRegistrationLost`, `NoSubscriptionOrphaned`, `NoReaderLeft`, `RouterOverTransport` | `TokenInv`: a token in a call is fresh, a token among the handlers of `s` has `s` for home. `AccountedInv` adds where each registration's destState stands. `TendedInv`: a reader that is draining is registered or its subscription is ended, stopped or in the hands of a call. `Joined`: the destStates that a `Close` has waited for have no reader left. `TransportInv`, for the composition: the router sees `C()` as it is, behind an error `C()` is closed, and an open `C()` has a reader in its loop |
| `ErrorChanProofs` | `TypeCorrect`, `GivesUpOnlyOutpaced`, `KeepsMostRecent`, `DropsNothingBeforeOverflow`, `BurstStaysObservable` | `OutpacedInv`: each further try of a publisher has seen one more error queued since it began. `LossInv`: the count of what was received, is queued, or was given room |
| `StompProofs` | `TypeCorrect`, `NeverClosedUnderUnsubscribe`, `UnsubscribesOnce`, `CarriesPrefix`, `EndIsKnown`, `EndIsReal` | `CallInv`: program points of all calls against the `sync.Once` and the gate's count against `closing`. `StreamInv`: `src` is the suffix of `delivered` not yet taken, `forwarded` is the rest but for the message in hand, and an ERROR frame among what was taken is known |
| `StompSubscriptionProofs` | `Implements` | `RefinementInv`: `StreamInv` and `CallInv`; up to the first error the messages that go-stomp delivered are numbered without a gap (`Numbered`); and what ends a subscription has a cause, an unsubscribe or the end of the connection (`Cause`) |
| `ReqRespProofs` | `TypeCorrect`, `LeavesNothingSubscribed`, `MissesNoReply`, `ReplyIsOwn` | `StageInv`: what a call has by the time it is where it is. `CorrelationInv` adds that no two calls have the same reply destination and that a channel holds answers to its own request only |
| `FieldbusProofs` | `TypeCorrect`, `EverySessionOwned`, `OnlyLateIsReported` | `OwnedInv`: who dials holds `b.mu` on a bus that is not connected, nobody has a session that was not opened, and each session has its one owner. `FaultInv`: a closed connection's router was cleared before, and what is registered on a cleared router came late |
| `AuthProofs` | `TypeCorrect`, `LeavesOnlyOverlooked`, `KeepsLegsInOrder`, `SettlesTeardown`, `LogLinesSafe`, `EscapeIsFaithful` | `IInv`: what the caller has at its program point (`Caller`), who will close each socket (`Sockets`), what was offered to the broker on which leg (`Offers`), what the teardown goroutine and the AfterFunc have done (`TeardownInv`), what the caller made of it (`Settled`), and that every text on its way to the log came from `escapeBounded` (`Lines`) |

Why the strengthenings are needed, in the cases that are not routine:
`RegistryLive` alone is not inductive because `SubscribeFresh` overwrites a
registry entry and `Deregister` removes one: one has to know that an index that
does not exist yet has no reader and that only the reader at `dereg` can remove
its own entry. `ForwardedIsPrefix` alone is not inductive because `BridgeSend`
appends the message in hand: one has to know that it is the one message
between what was forwarded and what is still in `src`, which holds only while
`out` is open. The refinement needs both of these and more: `BridgeSend` is
`Deliver` only if the message in hand is number `Len(forwarded) + 1`, which
follows from its place in `delivered` and from `Numbered`, and it is `Fail` only
if the error in hand has a reason that is still there; `BridgeReturn` is `Close`
only because go-stomp closes its channel for the reasons that `Cause` lists.
Every other step of `Stomp` changes nothing that the mapping reads
(`InnerStep`, `DisconnectInner`, `ReceiveInner`).

`OnlyOverlookedLeft` says something only of an exchange that is over, so nothing of
it survives a step backwards: the invariant has to follow the credential socket
from the moment it is dialed. Until `stop()` the AfterFunc closes it when ctx
ends; after `stop()` it is the caller's, who learns of it only by a step error it
has received, and the one state in which neither holds is `Overlooked`. Likewise
`TeardownSettled` compares what was returned with what the steps reported, which
the teardown goroutine has written piece by piece: `TeardownInv` says at each of
its program points how much of it is final.

`LogLineSafe` and `EscapeIsFaithful` are about every text and every limit.
`Kept` is a number of whole escaped runes that fit where the next does not, and
`Written` a recursive function on the number of runes. What they
yield is proved by induction in a form the provers can use: a set of numbers
that is not empty has a least element (`LeastNumber`, from the library's
well-foundedness of `<`), hence a set that holds 0 and with each number the next
holds all of them (`SetInduction`), and the set to take is that of the lengths for
which the claim is true.

`RouterOverTransport` carries the theorems about `Router` over to every
implementation of `Subscription`, and `Implements` says that `Stomp` is one. The
composition needs to know that a transport never sends to a reader that has
left: a reader leaves on an error or on a closed `C()`, an error is the last
thing on `C()` (`ErrLast`), so an open `C()` is still being read (`OpenIsRead`).

`NoReaderLeft` holds whatever calls overlap: a destState that a `Close` has waited
for has a reader that is gone, no step brings it back, and `joined` moves only
when all readers are gone.

## What is not modelled or not proved

* Only model-checked: liveness (`CloseReturnsUnlessRaced`, `TornDownReaderExits`,
  `DeadReaderDeregisters`, `UnsubscribeReturns`, `SubscriptionEnds`,
  `EndReachesBridges`, `DisconnectReturns`, `BoundedByCtx`, `ExchangeReturns`),
  which is out of the prover's reach. Every invariant, every action property and
  the refinement that the runs check are proved.
* Not modelled: payloads, headers (`message/message.go` builds maps and keeps no
  state) and error texts other than a teardown step's; `Send` of the transport
  (a pass-through that keeps no state); the test fakes.
* `IsConnected` reports `b.connected`, which stays true when the connection is
  lost (`Lose` does not touch it).
* That the half-bound timer of `Disconnect` keeps go-stomp's loop from blocking is
  not claimed: the code itself says that its close may come too late
  (`stomp.go:204-206`), so the model has both outcomes. `DisconnectReturns` says
  that the wait ends in either.
* go-stomp's other known issue, an `Unsubscribe` that misses its wakeup and waits
  out its receipt timeout, is `WireTimeout`.
* A transport whose `Subscribe` never returns blocks the whole router, since
  `r.mu` is held across the call; the model assumes that it returns.

## Plan

Done: every component that keeps state or starts a goroutine has its module, its
safety properties are proved, and the router is composed with the transport's
interface. What is left:

1. The same composition for `ReqResp`: that everything `Subscription` allows a
   reply subscription, the closing of `C()` with its ctx included, is allowed by
   `ReqResp`, so that its theorems hold over every transport too.
2. The registry of `Fieldbus` as a refinement of `Router`: that a session's
   `regs` is what `dests` and the readers of one router amount to, which is now
   an argument about the shape of their actions.

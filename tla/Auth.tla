-------------------------------- MODULE Auth --------------------------------
(***************************************************************************)
(* The GOSS token exchange: gridappsd.Connect (gridappsd/client.go) and    *)
(* auth.Exchange (internal/auth/auth.go), from the dialing of the          *)
(* credential connection to the durable one.                               *)
(*                                                                         *)
(* Three goroutines take part: the caller of Exchange, the teardown of the *)
(* credential connection, and the AfterFunc that closes its socket once    *)
(* ctx is done.  The transport is the one of module Stomp, seen through    *)
(* transport.Conn: any call may fail, Unsubscribe and Disconnect may take  *)
(* any time, and the broker may never answer.  ctx ends at any moment.     *)
(***************************************************************************)
EXTENDS BoundedText, ClientConfig

CONSTANTS
    Configs,        \* configurations that Connect is called with
    Texts,          \* what the error of a teardown step can say
    MaxStepErrLen   \* maxStepErrLen

ASSUME AuthAssumption ==
    /\ Texts \subseteq Seq(Rune)
    /\ MaxStepErrLen \in Nat

Leg == {"credential", "durable"}
User == "user"
Token == "token"
NoToken == ""
NoOffer == [login |-> "none"]
NoErr == <<>>       \* a nil step error; <<t>> is one that says t

VARIABLES
    cfg,        \* the Config
    ctx,        \* live, cancelled or expired
    \* Exchange and fetchToken
    pc,         \* where the caller is
    leg,        \* which connection it is making
    sock,       \* the socket of each leg
    armed,      \* legs whose socket has a deadline set
    offer,      \* what each leg's CONNECT says, and over what it goes
    sub,        \* is there a subscription to end?
    token,      \* the token that is to be returned
    err,        \* the error that is to be returned
    wrapped,    \* the step errors that it wraps
    log,        \* what went to the logger
    \* endCredentialConn
    tpc,        \* where the teardown goroutine is
    uerr, derr, \* the errors of Unsubscribe and Disconnect
    gotStep,    \* its results
    gotCtx,
    closer,     \* the AfterFunc that closes the socket
    \* history
    own,        \* the error that fetchToken had before the teardown
    left        \* did the caller leave before the teardown was done?

dialVars == <<leg, sock, armed, offer>>
resultVars == <<token, err, wrapped, log>>
teardownVars == <<tpc, uerr, derr, gotStep, gotCtx, closer>>
vars == <<cfg, ctx, pc, dialVars, sub, resultVars, teardownVars, own, left>>

Done == ctx # "live"

Init ==
    /\ cfg \in Configs
    /\ ctx = "live"
    /\ pc = "dial"
    /\ leg = "credential"
    /\ sock = [l \in Leg |-> "none"]
    /\ armed = {}
    /\ offer = [l \in Leg |-> NoOffer]
    /\ sub = FALSE
    /\ token = NoToken
    /\ err = "none"
    /\ wrapped = <<>>
    /\ log = <<>>
    /\ tpc = "none"
    /\ uerr = NoErr
    /\ derr = NoErr
    /\ gotStep = <<>>
    /\ gotCtx = "live"
    /\ closer = "none"
    /\ own = "none"
    /\ left = FALSE

-----------------------------------------------------------------------------
(***************************************************************************)
(* netDial: dial, dialPlain and dialTLS                                    *)
(***************************************************************************)

\* An error of a dial or a CONNECT fails the whole exchange.
Return(e) ==
    /\ err' = e
    /\ pc' = "returned"
    /\ UNCHANGED <<token, wrapped, log>>

\* DialContext: no socket, because the peer refuses or ctx is done.
DialFails ==
    /\ pc = "dial"
    /\ Return("dial")
    /\ UNCHANGED <<cfg, ctx, dialVars, sub, teardownVars, own, left>>

DialOk ==
    /\ pc = "dial"
    /\ ~Done
    /\ sock' = [sock EXCEPT ![leg] = "open"]
    /\ pc' = IF DialsPlain(cfg) THEN "connect" ELSE "handshake"
    /\ UNCHANGED <<cfg, ctx, leg, armed, offer, sub, resultVars, teardownVars,
                   own, left>>

HandshakeOk ==
    /\ pc = "handshake"
    /\ ~Done
    /\ pc' = "connect"
    /\ UNCHANGED <<cfg, ctx, dialVars, sub, resultVars, teardownVars, own, left>>

\* The deadline that bounds the handshake: ctx's own, or else the default.
HandshakeExpired == ctx = "expired" \/ ~cfg.deadline

\* HandshakeContext fails: too late, cancelled, or for what the peer says.  The
\* raw connection is closed.
HandshakeFails(e) ==
    /\ pc = "handshake"
    /\ e = "timeout" => HandshakeExpired
    /\ sock' = [sock EXCEPT ![leg] = "closed"]
    /\ Return(e)
    /\ UNCHANGED <<cfg, ctx, leg, armed, offer, sub, teardownVars, own, left>>

(***************************************************************************)
(* Dialer.Dial: the STOMP CONNECT on the dialed socket                     *)
(***************************************************************************)

\* Faulty: the token is the login of the wrong leg.
OfferSwapped ==
    [login |-> IF leg = "credential" THEN token ELSE User,
     plain |-> DialsPlain(cfg),
     tls |-> Hardened(Wanted(cfg)),
     beats |-> ResolveHeartBeat(cfg),
     bounded |-> leg = "credential"]

\* The CONNECT: credentials on the first leg, the token on the second.
Offer ==
    [login |-> IF leg = "credential" THEN User ELSE token,
     plain |-> DialsPlain(cfg),
     tls |-> IF DialsPlain(cfg) THEN [name |-> NoName, min |-> 0]
             ELSE Hardened(Wanted(cfg)),
     beats |-> ResolveHeartBeat(cfg),
     bounded |-> leg = "credential"]

\* A deadline of ctx is put on the socket for the time of the handshake.
ConnectBegin ==
    /\ pc = "connect"
    /\ offer' = [offer EXCEPT ![leg] = Offer]
    /\ armed' = IF cfg.deadline THEN armed \cup {leg} ELSE armed
    /\ pc' = "connecting"
    /\ UNCHANGED <<cfg, ctx, leg, sock, sub, resultVars, teardownVars, own, left>>

\* The first leg goes on with the token request, the second is the result.
ConnectOk ==
    /\ pc = "connecting"
    /\ leg \in armed => ctx # "expired"
    /\ armed' = armed \ {leg}
    /\ pc' = IF leg = "credential" THEN "nonce" ELSE "returned"
    /\ UNCHANGED <<cfg, ctx, leg, sock, offer, sub, resultVars, teardownVars,
                   own, left>>

\* rwc1.Close(), rwc2.Close(): go-stomp leaves the socket to the caller.
ConnectFails ==
    /\ pc = "connecting"
    /\ armed' = armed \ {leg}
    /\ sock' = [sock EXCEPT ![leg] = "closed"]
    /\ Return("connect")
    /\ UNCHANGED <<cfg, ctx, leg, offer, sub, teardownVars, own, left>>

-----------------------------------------------------------------------------
(***************************************************************************)
(* fetchToken on the credential connection                                 *)
(***************************************************************************)

\* A return with e runs the deferred teardown first.
Leave(e, t) ==
    /\ err' = e
    /\ own' = e
    /\ token' = t
    /\ pc' = "deferred"
    /\ UNCHANGED <<wrapped, log>>

Step(from, to) ==
    /\ pc = from
    /\ pc' = to
    /\ UNCHANGED <<cfg, ctx, dialVars, resultVars, teardownVars, own, left>>

Nonce == Step("nonce", "subscribe") /\ UNCHANGED sub
Subscribe == Step("subscribe", "send") /\ sub' = TRUE
Send == Step("send", "wait") /\ UNCHANGED sub

\* rand.Read, conn1.Subscribe or conn1.Send fails.
StepFails ==
    /\ pc \in {"nonce", "subscribe", "send"}
    /\ Leave(pc, NoToken)
    /\ UNCHANGED <<cfg, ctx, dialVars, sub, teardownVars, left>>

\* case msg, ok := <-sub.C(): a token, a blank one, an error, or the end
Answered(e) ==
    /\ pc = "wait"
    /\ Leave(e, IF e = "none" THEN Token ELSE NoToken)
    /\ UNCHANGED <<cfg, ctx, dialVars, sub, teardownVars, left>>

\* Faulty: the wait for the token ignores ctx.
WaitForever == FALSE

\* case <-ctx.Done()
WaitDone ==
    /\ pc = "wait"
    /\ Done
    /\ Leave("ctx", NoToken)
    /\ UNCHANGED <<cfg, ctx, dialVars, sub, teardownVars, left>>

-----------------------------------------------------------------------------
(***************************************************************************)
(* endCredentialConn: the teardown goroutine and the AfterFunc             *)
(***************************************************************************)

\* AfterFunc on a ctx that is done runs at once.  The goroutine that drains
\* sub.C() keeps no state.
EndBegin ==
    /\ pc = "deferred"
    /\ pc' = "select"
    /\ tpc' = "unsub"
    /\ closer' = IF Done THEN "running" ELSE "armed"
    /\ UNCHANGED <<cfg, ctx, dialVars, sub, resultVars, uerr, derr, gotStep,
                   gotCtx, own, left>>

Teardown(from, to) ==
    /\ tpc = from
    /\ tpc' = to
    /\ UNCHANGED <<cfg, ctx, pc, leg, armed, offer, sub, resultVars, own, left>>

TeardownSkips ==
    \/ /\ Teardown("unsub", "disc")
       /\ ~sub \/ Done
       /\ UNCHANGED <<sock, uerr, derr, gotStep, gotCtx, closer>>
    \/ /\ Teardown("disc", "read")
       /\ Done
       /\ UNCHANGED <<sock, uerr, derr, gotStep, gotCtx, closer>>

\* ctx.Err() == nil: the step begins; it may outlast ctx.
TeardownCalls ==
    \/ /\ Teardown("unsub", "unsubscribing")
       /\ sub /\ ~Done
       /\ UNCHANGED <<sock, uerr, derr, gotStep, gotCtx, closer>>
    \/ /\ Teardown("disc", "disconnecting")
       /\ ~Done
       /\ UNCHANGED <<sock, uerr, derr, gotStep, gotCtx, closer>>

\* unsubscribe returns: nil, an error, or a recovered runtime panic.
UnsubscribeReturns(e) ==
    /\ Teardown("unsubscribing", "disc")
    /\ uerr' = e
    /\ UNCHANGED <<sock, derr, gotStep, gotCtx, closer>>

\* conn.Disconnect returns nil with the socket closed, or an error that does
\* not say whether it is.
DisconnectReturns(e) ==
    /\ Teardown("disconnecting", "read")
    /\ derr' = e
    /\ \/ sock' = [sock EXCEPT !["credential"] = "closed"]
       \/ e # NoErr /\ UNCHANGED sock
    /\ UNCHANGED <<uerr, gotStep, gotCtx, closer>>

\* bound: the error, with its text made printable and short.
Bound(e) == [i \in 1 .. Len(e) |-> EscapeBounded(e[i], MaxStepErrLen)]

\* Faulty: the error of Disconnect hides that of Unsubscribe.
JoinLast(u, d) == IF d # NoErr THEN d ELSE u

JoinSteps(u, d) == u \o d

\* The results, with ctx.Err() read again after the steps.
TeardownReads ==
    /\ Teardown("read", "stop")
    /\ gotStep' = JoinSteps(Bound(uerr), Bound(derr))
    /\ gotCtx' = ctx
    /\ UNCHANGED <<sock, uerr, derr, closer>>

\* The deferred stop(): too late for a function that has been started.
TeardownStops ==
    /\ Teardown("stop", "close")
    /\ closer' = IF closer = "armed" THEN "stopped" ELSE closer
    /\ UNCHANGED <<sock, uerr, derr, gotStep, gotCtx>>

\* The deferred close(done).
TeardownDone ==
    /\ Teardown("close", "done")
    /\ UNCHANGED <<sock, uerr, derr, gotStep, gotCtx, closer>>

\* The function given to AfterFunc closes the socket.
CloserCloses ==
    /\ closer = "running"
    /\ closer' = "ran"
    /\ sock' = [sock EXCEPT !["credential"] = "closed"]
    /\ UNCHANGED <<cfg, ctx, pc, leg, armed, offer, sub, resultVars, tpc, uerr,
                   derr, gotStep, gotCtx, own, left>>

\* Faulty: a failed step leaves the socket to the transport.
CloseNever(step, cerr) == FALSE

\* Nobody else is sure to close the socket.
MustClose(step, cerr) == step # <<>> /\ cerr = "live"

\* A token is not used when ctx ended before the teardown did.
CtxFails(cerr) == cerr # "live" /\ err = "none"

\* The deferred function of fetchToken with what endCredentialConn returned;
\* without an error Exchange goes on to the second leg.
Settle(step, cerr) ==
    /\ pc = "select"
    /\ sock' = [sock EXCEPT !["credential"] =
                    IF MustClose(step, cerr) THEN "closed" ELSE @]
    /\ IF CtxFails(cerr)
       THEN /\ err' = "teardown"
            /\ token' = NoToken
            /\ wrapped' = step
            /\ UNCHANGED log
       ELSE /\ log' = IF step = <<>> THEN log
                      ELSE <<[received |-> err = "none", steps |-> step]>>
            /\ UNCHANGED <<err, token, wrapped>>
    /\ pc' = IF err' = "none" THEN "dial" ELSE "returned"
    /\ leg' = IF err' = "none" THEN "durable" ELSE leg
    /\ UNCHANGED <<cfg, ctx, armed, offer, sub, teardownVars, own>>

\* case <-done, in either select
SettleDone ==
    /\ tpc = "done"
    /\ Settle(gotStep, gotCtx)
    /\ UNCHANGED left

\* case <-ctx.Done() with the teardown still under way: it carries on alone.
SettleLeft ==
    /\ Done
    /\ tpc # "done"
    /\ Settle(<<>>, ctx)
    /\ left' = TRUE

-----------------------------------------------------------------------------
\* ctx ends, which starts the AfterFunc unless it was stopped.
CtxEnds(how) ==
    /\ ctx = "live"
    /\ how = "expired" => cfg.deadline
    /\ ctx' = how
    /\ closer' = IF closer = "armed" THEN "running" ELSE closer
    /\ UNCHANGED <<cfg, pc, dialVars, sub, resultVars, tpc, uerr, derr, gotStep,
                   gotCtx, own, left>>

NetDial ==
    \/ DialOk
    \/ HandshakeOk
    \/ \E e \in {"timeout", "handshake"} : HandshakeFails(e)

StompConnect == ConnectBegin \/ ConnectOk \/ ConnectFails

Answer == \E e \in {"none", "empty", "error", "closed"} : Answered(e)

\* Steps of fetchToken that do not wait for the broker.
FetchToken == Nonce \/ Subscribe \/ Send \/ StepFails \/ EndBegin

StepErrs == {NoErr} \cup {<<t>> : t \in Texts}

TeardownStep ==
    \/ TeardownSkips
    \/ TeardownCalls
    \/ \E e \in StepErrs : UnsubscribeReturns(e) \/ DisconnectReturns(e)
    \/ TeardownReads
    \/ TeardownStops
    \/ TeardownDone
    \/ CloserCloses

Next ==
    \/ DialFails
    \/ NetDial
    \/ StompConnect
    \/ FetchToken
    \/ Answer
    \/ WaitDone
    \/ SettleDone \/ SettleLeft
    \/ TeardownStep
    \/ \E how \in {"cancelled", "expired"} : CtxEnds(how)

Spec == Init /\ [][Next]_vars

(***************************************************************************)
(* The caller's goroutine runs on; DialContext and HandshakeContext heed   *)
(* their ctx, and an expired deadline on the socket fails the CONNECT.     *)
(* Neither the broker nor the teardown owes anything: a CONNECT without a  *)
(* deadline, an answer, a receipt may never come.                          *)
(***************************************************************************)
Fairness ==
    /\ WF_vars(Done /\ DialFails)
    /\ WF_vars(Done /\ HandshakeFails("handshake"))
    /\ WF_vars(HandshakeFails("timeout"))
    /\ WF_vars(ConnectBegin)
    /\ WF_vars(ctx = "expired" /\ leg \in armed /\ ConnectFails)
    /\ WF_vars(FetchToken)
    /\ WF_vars(WaitDone)
    /\ WF_vars(SettleDone)
    /\ WF_vars(SettleLeft)

FairSpec == Spec /\ Fairness

-----------------------------------------------------------------------------
(***************************************************************************)
(* Properties                                                              *)
(***************************************************************************)

CallerPc == {"dial", "handshake", "connect", "connecting", "nonce",
             "subscribe", "send", "wait", "deferred", "select", "returned"}
TeardownPc == {"none", "unsub", "unsubscribing", "disc", "disconnecting",
               "read", "stop", "close", "done"}
Errors == {"none", "dial", "timeout", "handshake", "connect", "nonce",
           "subscribe", "send", "empty", "error", "closed", "ctx", "teardown"}

\* Every variable has its type: the locals of Exchange, fetchToken and
\* endCredentialConn, the sockets that they dial, and who logs in on them.
TypeOK ==
    /\ cfg \in Configs
    /\ ctx \in {"live", "cancelled", "expired"}
    /\ pc \in CallerPc
    /\ leg \in Leg
    /\ sock \in [Leg -> {"none", "open", "closed"}]
    /\ armed \in SUBSET Leg
    /\ \A l \in Leg : offer[l].login \in {"none", User, Token}
    /\ sub \in BOOLEAN
    /\ token \in {NoToken, Token}
    /\ err \in Errors
    /\ tpc \in TeardownPc
    /\ uerr \in StepErrs
    /\ derr \in StepErrs
    /\ gotCtx \in {"live", "cancelled", "expired"}
    /\ closer \in {"none", "armed", "stopped", "running", "ran"}
    /\ own \in Errors
    /\ left \in BOOLEAN

\* Exchange has returned and none of its goroutines is left.
Over == pc = "returned" /\ tpc \in {"none", "done"} /\ closer # "running"

\* "Once ctx is done rwc is closed" (endCredentialConn), "The credential
\* connection is always ended" (fetchToken): whichever step fails or outlasts
\* ctx, no socket that Exchange dialed stays open but the one of the connection
\* that it returns.  A ctx that ends between stop() and close(done) of
\* endCredentialConn, after a failed step, violates it.
SocketsReleased ==
    Over =>
        /\ sock["durable"] = "open" => err = "none"
        /\ sock["credential"] # "open"

\* ctx ended after the teardown had found it live and stopped the AfterFunc, and
\* before close(done): the caller left without the error of a failed step.
Overlooked == left /\ gotCtx = "live" /\ gotStep # <<>>

\* What holds of it: that window is the only one in which endCredentialConn and
\* fetchToken leave the credential socket open, and the durable one is closed
\* on every error.
OnlyOverlookedLeft ==
    Over =>
        /\ sock["durable"] = "open" => err = "none"
        /\ sock["credential"] # "open" \/ Overlooked

\* "The credential leg is disconnected before the durable leg is established"
\* (Exchange); the durable leg logs in with the token that arrived, over the
\* same transport and with the same heart-beats, none of them disabled unless
\* HeartBeats says so; and plaintext only if that is what the caller chose
\* (Config.AllowPlaintext).  No deadline of ctx stays on the socket.
LegsInOrder ==
    /\ sock["durable"] # "none" => sock["credential"] = "closed" /\ token = Token
    /\ \A l \in Leg : offer[l] # NoOffer =>
          /\ offer[l].login = (IF l = "credential" THEN User ELSE Token)
          /\ offer[l].plain => cfg.tls = <<>> /\ cfg.plain
          /\ ~offer[l].plain /\ offer[l].tls.min < TLS12 => cfg.tls # <<>>
          /\ 0 \in {offer[l].beats[1], offer[l].beats[2]} => cfg.hbs # <<>>
    /\ offer["durable"] # NoOffer =>
          /\ offer["durable"].tls = offer["credential"].tls
          /\ offer["durable"].beats = offer["credential"].beats
    /\ pc # "connecting" => armed = {}

\* "An exchange that already failed keeps its own error, and a token that
\* arrived is still valid" (fetchToken): a failed teardown step is logged or
\* wrapped unless the caller left first, it never replaces the error of the
\* exchange, and it never costs a token that arrived while ctx was live; once
\* ctx is seen to end, the token is not used.
TeardownSettled ==
    tpc # "none" /\ pc \notin {"deferred", "select"} =>
        /\ own # "none" => err = own
        /\ own = "none" /\ err = "teardown" => Done
        /\ own = "none" /\ (left \/ gotCtx # "live") => err = "teardown"
        /\ ~left /\ (uerr # NoErr \/ derr # NoErr) =>
              LET steps == IF err = "teardown" THEN wrapped ELSE log[1].steps IN
              \A e \in {uerr, derr} \ {NoErr} :
                  \E i \in 1 .. Len(steps) : steps[i].raw = e[1]

\* What the code promises of the text of an error (escapeBounded): at most limit
\* bytes of printable runes and whole escapes, the beginning of the error's own
\* text, and as much of it as fits.
Faithful(b, limit) ==
    /\ TextBytes(b.text) <= limit
    /\ \A i \in 1 .. Len(b.text) :
          /\ b.text[i][2] = b.raw[i]
          /\ b.text[i][1] = "raw" => ~Unprintable(b.raw[i]) /\ b.raw[i] # Backslash
    /\ b.truncated <=> Len(b.text) < Len(b.raw)
    /\ b.truncated =>
          LET next == b.raw[Len(b.text) + 1] IN
          TextBytes(Append(b.text, <<Escape(next), next>>)) > limit

\* "Each step error is bounded before the join so neither can hide the other":
\* every step error in the log or in the returned error is shown that way.
LogLineSafe ==
    LET steps == IF log = <<>> THEN wrapped ELSE log[1].steps IN
    \A i \in 1 .. Len(steps) : Faithful(steps[i], MaxStepErrLen)

\* Exchange returns once its ctx is done, however the broker, an Unsubscribe or
\* a Disconnect hangs; only a CONNECT in progress is out of the reach of a ctx
\* without a deadline.  A TLS handshake ends even if ctx does not.
ExchangeReturns ==
    /\ ctx = "expired" ~> pc = "returned"
    /\ ctx = "cancelled" /\ pc \notin {"connect", "connecting"} ~> pc = "returned"
    /\ pc = "handshake" /\ ~cfg.deadline ~> pc # "handshake"
=============================================================================

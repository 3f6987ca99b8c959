------------------------------ MODULE ReqResp -------------------------------
(***************************************************************************)
(* GetResponse of internal/reqresp/reqresp.go: concurrent calls, each with *)
(* a reply destination and a subscription of its own, over one connection. *)
(*                                                                         *)
(* The subscription is the one that module Stomp describes, reduced to     *)
(* what GetResponse sees of it: C(), which the transport also closes when  *)
(* the ctx given to Subscribe ends.  Responders and the broker are outside *)
(* this repository: a request may be answered never, once or again, at any *)
(* time, and what arrives for nobody is lost.                              *)
(***************************************************************************)
EXTENDS Naturals, Sequences

CONSTANTS
    Requests,   \* calls of GetResponse
    Nonces,     \* names that the random nonce can give a reply destination
    None,       \* no reply destination
    MaxReplies  \* bound: answers to one request

ASSUME ReqRespAssumption ==
    /\ None \notin Nonces
    /\ MaxReplies \in Nat

VARIABLES
    \* GetResponse
    pc,         \* where the call is
    reply,      \* its reply destination
    result,     \* what it returns
    ctx,        \* is its ctx done?
    \* its subscription
    subbed,     \* did conn.Subscribe succeed?
    c,          \* what C() holds: the requests answered, or an error
    closed,     \* who closed C(): nobody, the peer, ctx or Unsubscribe
    stop,       \* has Unsubscribe been called?
    \* outside
    asked,      \* requests that the responder has received
    answers,    \* how often it has answered
    lost        \* requests of which an answer arrived for nobody

vars == <<pc, reply, result, ctx, subbed, c, closed, stop, asked, answers, lost>>

Answer(r) == <<"answer", r>>
Error == <<"error", None>>
Results == {<<p, None>> : p \in {"none", "failed", "error", "closed", "ctx"}}
           \cup {Answer(r) : r \in Requests}

Init ==
    /\ pc = [r \in Requests |-> "idle"]
    /\ reply = [r \in Requests |-> None]
    /\ result = [r \in Requests |-> <<"none", None>>]
    /\ ctx = [r \in Requests |-> FALSE]
    /\ subbed = [r \in Requests |-> FALSE]
    /\ c = [r \in Requests |-> <<>>]
    /\ closed = [r \in Requests |-> "no"]
    /\ stop = [r \in Requests |-> FALSE]
    /\ asked = {}
    /\ answers = [r \in Requests |-> 0]
    /\ lost = {}

-----------------------------------------------------------------------------
(***************************************************************************)
(* GetResponse                                                             *)
(***************************************************************************)

\* Faulty: the request is sent before the reply destination is subscribed.
SendFirst(p) ==
    CASE p = "idle" -> "send"
      [] p = "send" -> "subscribe"
      [] p = "subscribe" -> "wait"

\* Subscribe before sending so that no reply is missed.
After(p) ==
    CASE p = "idle" -> "subscribe"
      [] p = "subscribe" -> "send"
      [] p = "send" -> "wait"

Go(r, p) == pc' = [pc EXCEPT ![r] = p]

\* Faulty: a reply destination shared by concurrent calls.
AnyNonce == Nonces

\* crypto/rand: no two calls draw the same nonce.
FreshNonces == Nonces \ {reply[r] : r \in Requests}

\* A new reply destination.
Begin(r, n) ==
    /\ pc[r] = "idle"
    /\ n \in FreshNonces
    /\ reply' = [reply EXCEPT ![r] = n]
    /\ Go(r, After("idle"))
    /\ UNCHANGED <<result, ctx, subbed, c, closed, stop, asked, answers, lost>>

\* rand.Read fails.
BeginFails(r) ==
    /\ pc[r] = "idle"
    /\ result' = [result EXCEPT ![r] = <<"failed", None>>]
    /\ Go(r, "returned")
    /\ UNCHANGED <<reply, ctx, subbed, c, closed, stop, asked, answers, lost>>

\* conn.Subscribe(ctx, queueReply)
Subscribe(r) ==
    /\ pc[r] = "subscribe"
    /\ subbed' = [subbed EXCEPT ![r] = TRUE]
    /\ Go(r, After("subscribe"))
    /\ UNCHANGED <<reply, result, ctx, c, closed, stop, asked, answers, lost>>

\* ... fails, before anything is deferred.
SubscribeFails(r) ==
    /\ pc[r] = "subscribe"
    /\ result' = [result EXCEPT ![r] = <<"failed", None>>]
    /\ Go(r, "returned")
    /\ UNCHANGED <<reply, ctx, subbed, c, closed, stop, asked, answers, lost>>

\* conn.Send with the bare reply destination in its reply-to header
Send(r) ==
    /\ pc[r] = "send"
    /\ asked' = asked \cup {r}
    /\ Go(r, After("send"))
    /\ UNCHANGED <<reply, result, ctx, subbed, c, closed, stop, answers, lost>>

\* Faulty: the early return skips the Unsubscribe.
ReturnAtOnce(r) == Go(r, "returned")

\* A return after Subscribe runs the deferred Unsubscribe first.
Return(r) == Go(r, "deferred")

SendFails(r) ==
    /\ pc[r] = "send"
    /\ result' = [result EXCEPT ![r] = <<"failed", None>>]
    /\ Return(r)
    /\ UNCHANGED <<reply, ctx, subbed, c, closed, stop, asked, answers, lost>>

\* case msg, ok := <-sub.C()
Receive(r) ==
    /\ pc[r] = "wait"
    /\ c[r] # <<>>
    /\ c' = [c EXCEPT ![r] = Tail(@)]
    /\ result' = [result EXCEPT ![r] = Head(c[r])]
    /\ Return(r)
    /\ UNCHANGED <<reply, ctx, subbed, closed, stop, asked, answers, lost>>

\* Faulty: ok is not looked at, and the zero Msg is taken for an answer.
ReceiveZero(r) ==
    /\ pc[r] = "wait"
    /\ c[r] = <<>>
    /\ closed[r] # "no"
    /\ result' = [result EXCEPT ![r] = Answer(None)]
    /\ Return(r)
    /\ UNCHANGED <<reply, ctx, subbed, c, closed, stop, asked, answers, lost>>

\* ... with ok false
ReceiveClosed(r) ==
    /\ pc[r] = "wait"
    /\ c[r] = <<>>
    /\ closed[r] # "no"
    /\ result' = [result EXCEPT ![r] = <<"closed", None>>]
    /\ Return(r)
    /\ UNCHANGED <<reply, ctx, subbed, c, closed, stop, asked, answers, lost>>

\* Faulty: ctx is not selected on.
ExpireNever(r) == FALSE

\* case <-ctx.Done(); with both ready, select takes either.
Expire(r) ==
    /\ pc[r] = "wait"
    /\ ctx[r]
    /\ result' = [result EXCEPT ![r] = <<"ctx", None>>]
    /\ Return(r)
    /\ UNCHANGED <<reply, ctx, subbed, c, closed, stop, asked, answers, lost>>

\* The deferred sub.Unsubscribe() and the return; its error is discarded.
Deferred(r) ==
    /\ pc[r] = "deferred"
    /\ stop' = [stop EXCEPT ![r] = TRUE]
    /\ closed' = [closed EXCEPT ![r] = IF @ = "no" THEN "unsubscribe" ELSE @]
    /\ Go(r, "returned")
    /\ UNCHANGED <<reply, result, ctx, subbed, c, asked, answers, lost>>

-----------------------------------------------------------------------------
(***************************************************************************)
(* The transport, the broker and the responder (external)                  *)
(***************************************************************************)

CtxDone(r) ==
    /\ ~ctx[r]
    /\ ctx' = [ctx EXCEPT ![r] = TRUE]
    /\ UNCHANGED <<pc, reply, result, subbed, c, closed, stop, asked, answers,
                   lost>>

\* The transport unsubscribes and closes C() when ctx is done.
BridgeDone(r) ==
    /\ subbed[r]
    /\ closed[r] = "no"
    /\ ctx[r]
    /\ closed' = [closed EXCEPT ![r] = "ctx"]
    /\ UNCHANGED <<pc, reply, result, ctx, subbed, c, stop, asked, answers,
                   lost>>

\* The connection ends, with an error or without.
PeerEnd(r) ==
    /\ subbed[r]
    /\ closed[r] = "no"
    /\ closed' = [closed EXCEPT ![r] = "peer"]
    /\ \/ c' = [c EXCEPT ![r] = Append(@, Error)]
       \/ UNCHANGED c
    /\ UNCHANGED <<pc, reply, result, ctx, subbed, stop, asked, answers, lost>>

\* Open subscriptions on the reply destination of r.
Listeners(r) ==
    {q \in Requests : subbed[q] /\ closed[q] = "no" /\ reply[q] = reply[r]}

\* An answer reaches the reply destination named in the request.
Respond(r) ==
    /\ r \in asked
    /\ answers[r] < MaxReplies
    /\ answers' = [answers EXCEPT ![r] = @ + 1]
    /\ \/ \E q \in Listeners(r) :
             /\ c' = [c EXCEPT ![q] = Append(@, Answer(r))]
             /\ UNCHANGED lost
       \/ /\ Listeners(r) = {}
          /\ lost' = lost \cup {r}
          /\ UNCHANGED c
    /\ UNCHANGED <<pc, reply, result, ctx, subbed, closed, stop, asked>>

-----------------------------------------------------------------------------
GetResponse(r) ==
    \/ Subscribe(r) \/ SubscribeFails(r)
    \/ Send(r) \/ SendFails(r)
    \/ Receive(r) \/ ReceiveClosed(r) \/ Expire(r)
    \/ Deferred(r)

Next ==
    \E r \in Requests :
        \/ \E n \in Nonces : Begin(r, n)
        \/ BeginFails(r)
        \/ GetResponse(r)
        \/ CtxDone(r) \/ BridgeDone(r) \/ PeerEnd(r) \/ Respond(r)

Spec == Init /\ [][Next]_vars

\* A call that can go on does; the peer owes nothing.
FairSpec == Spec /\ \A r \in Requests : WF_vars(GetResponse(r))

-----------------------------------------------------------------------------
\* Every variable has its type.
TypeOK ==
    /\ pc \in [Requests -> {"idle", "subscribe", "send", "wait", "deferred",
                            "returned"}]
    /\ reply \in [Requests -> Nonces \cup {None}]
    /\ result \in [Requests -> Results]
    /\ ctx \in [Requests -> BOOLEAN]
    /\ subbed \in [Requests -> BOOLEAN]
    /\ c \in [Requests -> Seq({Error} \cup {Answer(r) : r \in Requests})]
    /\ closed \in [Requests -> {"no", "peer", "ctx", "unsubscribe"}]
    /\ stop \in [Requests -> BOOLEAN]
    /\ asked \in SUBSET Requests
    /\ answers \in [Requests -> 0 .. MaxReplies]
    /\ lost \in SUBSET Requests

\* "the first message on that subscription is the correlated reply": a call
\* returns the answer to its own request, or none, whatever other calls are in
\* progress and however late or often their answers come.
OwnReply ==
    \A r, q \in Requests : result[r] = Answer(q) => q = r

\* "Subscribe BEFORE sending so no reply is missed": an answer is lost only when
\* its call is no longer waiting for one or its subscription has ended.
NoReplyMissed ==
    \A r \in lost : pc[r] \in {"deferred", "returned"} \/ closed[r] # "no"

\* "Always unsubscribe the reply destination on return (success or error)".
NothingLeftSubscribed ==
    \A r \in Requests : pc[r] = "returned" /\ subbed[r] => stop[r]

\* "waits for the first reply, bounded by ctx": a call whose ctx is done
\* returns, answered or not.
BoundedByCtx ==
    \A r \in Requests : (pc[r] = "wait" /\ ctx[r]) ~> pc[r] = "returned"

\* "On ctx expiry returns a wrapped ctx.Err()": a call never reports as closed a
\* subscription that only its own ctx has ended.
ExpiryIsReported ==
    \A r \in Requests :
        result[r] = <<"closed", None>> => closed[r] # "ctx"
=============================================================================

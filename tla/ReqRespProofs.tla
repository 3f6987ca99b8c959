---------------------------- MODULE ReqRespProofs ---------------------------
(***************************************************************************)
(* What module ReqResp promises, for any number of overlapping calls and   *)
(* any number of answers.                                                  *)
(***************************************************************************)
EXTENDS ReqResp, TLAPS

-----------------------------------------------------------------------------
(***************************************************************************)
(* Types                                                                   *)
(***************************************************************************)

LEMMA AfterIs ==
    /\ After("idle") = "subscribe" /\ After("subscribe") = "send"
    /\ After("send") = "wait"
BY DEF After

LEMMA TypeInit == Init => TypeOK
BY ReqRespAssumption DEF Init, TypeOK, Results

\* The fields of a result are told apart by their first component.
LEMMA ResultFacts ==
    /\ \A p \in {"none", "failed", "error", "closed", "ctx"} :
          <<p, None>> \in Results /\ \A q \in Requests : <<p, None>> # Answer(q)
    /\ Error \in Results
    /\ \A q \in Requests : Answer(q) \in Results
BY DEF Results, Answer, Error

LEMMA SeqFacts ==
    ASSUME NEW S, NEW s \in Seq(S)
    PROVE  /\ \A e \in S : Append(s, e) \in Seq(S)
           /\ s # <<>> => Head(s) \in S /\ Tail(s) \in Seq(S)
OBVIOUS

\* What C() carries.
Carried == {Error} \cup {Answer(r) : r \in Requests}

LEMMA CarriedFacts ==
    /\ Error \in Carried
    /\ \A r \in Requests : Answer(r) \in Carried
    /\ Carried \subseteq Results
    /\ TypeOK => \A r \in Requests : c[r] \in Seq(Carried)
BY ResultFacts DEF Carried, TypeOK

LEMMA TypeStep == TypeOK /\ [Next]_vars => TypeOK'
<1> SUFFICES ASSUME TypeOK, [Next]_vars PROVE TypeOK'
    OBVIOUS
<1> USE AfterIs, ResultFacts DEF TypeOK, Go
<1>1. ASSUME NEW r \in Requests, NEW n \in Nonces, Begin(r, n) PROVE TypeOK'
    BY <1>1 DEF Begin
<1>2. ASSUME NEW r \in Requests,
             BeginFails(r) \/ SubscribeFails(r) \/ SendFails(r)
      PROVE  TypeOK'
    <2>1. result' \in [Requests -> Results]
        BY <1>2 DEF BeginFails, SubscribeFails, SendFails
    <2>2. QED
        BY <1>2, <2>1 DEF BeginFails, SubscribeFails, SendFails, Return
<1>3. ASSUME NEW r \in Requests, Subscribe(r) PROVE TypeOK'
    BY <1>3 DEF Subscribe
<1>4. ASSUME NEW r \in Requests, Send(r) PROVE TypeOK'
    BY <1>4 DEF Send
<1>5. ASSUME NEW r \in Requests, Receive(r) PROVE TypeOK'
    <2>1. Head(c[r]) \in Carried /\ Tail(c[r]) \in Seq(Carried)
        BY <1>5, CarriedFacts, SeqFacts DEF Receive
    <2>2. c' \in [Requests -> Seq(Carried)]
        BY <1>5, <2>1 DEF Receive, Carried
    <2>3. result' \in [Requests -> Results]
        BY <1>5, <2>1, CarriedFacts DEF Receive
    <2>4. QED
        BY <1>5, <2>2, <2>3 DEF Receive, Return, Carried
<1>6. ASSUME NEW r \in Requests, ReceiveClosed(r) \/ Expire(r) PROVE TypeOK'
    <2>1. result' \in [Requests -> Results]
        BY <1>6 DEF ReceiveClosed, Expire
    <2>2. QED
        BY <1>6, <2>1 DEF ReceiveClosed, Expire, Return
<1>7. ASSUME NEW r \in Requests, Deferred(r) PROVE TypeOK'
    BY <1>7 DEF Deferred
<1>8. ASSUME NEW r \in Requests, CtxDone(r) \/ BridgeDone(r) PROVE TypeOK'
    BY <1>8 DEF CtxDone, BridgeDone
<1>9. ASSUME NEW r \in Requests, PeerEnd(r) PROVE TypeOK'
    <2>1. Append(c[r], Error) \in Seq(Carried)
        BY CarriedFacts, SeqFacts
    <2>2. c' \in [Requests -> Seq(Carried)]
        BY <1>9, <2>1 DEF PeerEnd, Carried
    <2>3. QED
        BY <1>9, <2>2 DEF PeerEnd, Carried
<1>10. ASSUME NEW r \in Requests, Respond(r) PROVE TypeOK'
    <2>1. answers' \in [Requests -> 0 .. MaxReplies] /\ lost' \in SUBSET Requests
        BY <1>10, ReqRespAssumption DEF Respond
    <2>2. \A q \in Requests : Append(c[q], Answer(r)) \in Seq(Carried)
        BY CarriedFacts, SeqFacts
    <2>3. c' \in [Requests -> Seq(Carried)]
        BY <1>10, <2>2 DEF Respond, Listeners, Carried
    <2>4. QED
        BY <1>10, <2>1, <2>3 DEF Respond, Carried
<1>11. CASE UNCHANGED vars
    BY <1>11 DEF vars
<1>12. QED
    BY <1>1, <1>2, <1>3, <1>4, <1>5, <1>6, <1>7, <1>8, <1>9, <1>10, <1>11
    DEF Next, GetResponse

\* The locals of GetResponse and the state of its subscription keep their types.
THEOREM TypeCorrect == Spec => []TypeOK
BY TypeInit, TypeStep, PTL DEF Spec

-----------------------------------------------------------------------------
(***************************************************************************)
(* The stages of a call                                                    *)
(***************************************************************************)

\* What a call has by the time that it is where it is: a reply destination
\* once it began, a subscription before it sends, and that undone when it has
\* returned.
Stage(r) ==
    /\ pc[r] = "idle" => reply[r] = None
    /\ pc[r] \in {"subscribe", "send", "wait"} => reply[r] # None
    /\ pc[r] \in {"idle", "subscribe"} => ~subbed[r]
    /\ pc[r] \in {"send", "wait"} => subbed[r]
    /\ subbed[r] => reply[r] # None
    /\ r \in asked => subbed[r]
    /\ pc[r] = "returned" /\ subbed[r] => stop[r]
    /\ r \in lost => closed[r] # "no"

Staged == \A r \in Requests : Stage(r)

LEMMA StagedStep ==
    ASSUME TypeOK, Staged, [Next]_vars
    PROVE  Staged'
<1>1. SUFFICES ASSUME NEW q \in Requests PROVE Stage(q)'
    BY DEF Staged
<1>2. Stage(q)
    BY DEF Staged
<1> USE AfterIs, <1>2 DEF TypeOK, Go, Stage
<1>3. ASSUME NEW r \in Requests, NEW n \in Nonces, Begin(r, n) PROVE Stage(q)'
    BY <1>3, ReqRespAssumption DEF Begin, FreshNonces
<1>4. ASSUME NEW r \in Requests,
             BeginFails(r) \/ SubscribeFails(r) \/ SendFails(r)
      PROVE  Stage(q)'
    BY <1>4 DEF BeginFails, SubscribeFails, SendFails, Return
<1>5. ASSUME NEW r \in Requests, Subscribe(r) \/ Send(r) PROVE Stage(q)'
    BY <1>5 DEF Subscribe, Send
<1>6. ASSUME NEW r \in Requests, Receive(r) \/ ReceiveClosed(r) \/ Expire(r)
      PROVE  Stage(q)'
    BY <1>6 DEF Receive, ReceiveClosed, Expire, Return
<1>7. ASSUME NEW r \in Requests, Deferred(r) PROVE Stage(q)'
    BY <1>7 DEF Deferred
<1>8. ASSUME NEW r \in Requests, CtxDone(r) \/ BridgeDone(r) \/ PeerEnd(r)
      PROVE  Stage(q)'
    BY <1>8 DEF CtxDone, BridgeDone, PeerEnd
<1>9. ASSUME NEW r \in Requests, Respond(r) PROVE Stage(q)'
    <2>1. q \in lost' => q \in lost \/ closed[q] # "no"
        BY <1>9 DEF Respond, Listeners
    <2>2. QED
        BY <1>9, <2>1 DEF Respond
<1>10. CASE UNCHANGED vars
    BY <1>10 DEF vars
<1>11. QED
    BY <1>3, <1>4, <1>5, <1>6, <1>7, <1>8, <1>9, <1>10 DEF Next, GetResponse

LEMMA StagedInit == Init => Staged
BY DEF Init, Staged, Stage

StageInv == TypeOK /\ Staged

LEMMA StageInvariant == Spec => []StageInv
<1>1. Init => StageInv
    BY TypeInit, StagedInit DEF StageInv
<1>2. StageInv /\ [Next]_vars => StageInv'
    BY TypeStep, StagedStep DEF StageInv
<1>3. QED
    BY <1>1, <1>2, PTL DEF Spec

\* Whichever step fails, a call that subscribed its reply destination has
\* unsubscribed it when it returns.
THEOREM LeavesNothingSubscribed == Spec => []NothingLeftSubscribed
<1>1. StageInv => NothingLeftSubscribed
    BY DEF StageInv, Staged, Stage, NothingLeftSubscribed
<1>2. QED
    BY <1>1, StageInvariant, PTL

\* Since a call subscribes before it sends, an answer arrives for nobody only
\* once the call's subscription has ended.
THEOREM MissesNoReply == Spec => []NoReplyMissed
<1>1. StageInv => NoReplyMissed
    BY DEF StageInv, Staged, Stage, TypeOK, NoReplyMissed
<1>2. QED
    BY <1>1, StageInvariant, PTL

-----------------------------------------------------------------------------
(***************************************************************************)
(* Correlation                                                             *)
(***************************************************************************)

\* No two calls share a reply destination.
Distinct ==
    \A r, q \in Requests : reply[r] = reply[q] /\ reply[r] # None => r = q

\* C() carries answers to the call's own request only, and so does its result.
OwnOnly ==
    /\ \A r \in Requests : c[r] \in Seq({Error, Answer(r)})
    /\ OwnReply

LEMMA DistinctStep ==
    ASSUME TypeOK, Distinct, [Next]_vars
    PROVE  Distinct'
<1>1. CASE \E r \in Requests : \E n \in Nonces : Begin(r, n)
    BY <1>1 DEF Begin, FreshNonces, Distinct, TypeOK
<1>2. CASE reply' = reply
    BY <1>2 DEF Distinct
<1>3. QED
    BY <1>1, <1>2 DEF Next, GetResponse, vars, BeginFails, Subscribe,
       SubscribeFails, Send, SendFails, Receive, ReceiveClosed, Expire,
       Deferred, CtxDone, BridgeDone, PeerEnd, Respond

LEMMA AnswersDiffer ==
    \A r, q \in Requests : Answer(q) # Error /\ (Answer(q) = Answer(r) => q = r)
BY DEF Answer, Error

LEMMA OwnOnlyStep ==
    ASSUME TypeOK, Staged, Distinct, OwnOnly, [Next]_vars
    PROVE  OwnOnly'
<1> USE DEF TypeOK, OwnOnly, OwnReply
<1>1. CASE UNCHANGED <<c, result>>
    BY <1>1
<1>2. ASSUME NEW r \in Requests,
             \/ BeginFails(r) \/ SubscribeFails(r) \/ SendFails(r)
             \/ ReceiveClosed(r) \/ Expire(r)
      PROVE  OwnOnly'
    BY <1>2, ResultFacts DEF BeginFails, SubscribeFails, SendFails,
       ReceiveClosed, Expire
<1>3. ASSUME NEW r \in Requests, Receive(r) PROVE OwnOnly'
    <2>1. Head(c[r]) \in {Error, Answer(r)}
          /\ Tail(c[r]) \in Seq({Error, Answer(r)})
        BY <1>3 DEF Receive
    <2>2. \A q, p \in Requests : result'[q] = Answer(p) => p = q
        BY <1>3, <2>1, AnswersDiffer DEF Receive
    <2>3. QED
        BY <1>3, <2>1, <2>2 DEF Receive
<1>4. ASSUME NEW r \in Requests, PeerEnd(r) PROVE OwnOnly'
    <2>1. Append(c[r], Error) \in Seq({Error, Answer(r)})
        BY SeqFacts
    <2>2. QED
        BY <1>4, <2>1 DEF PeerEnd
<1>5. ASSUME NEW r \in Requests, Respond(r) PROVE OwnOnly'
    <2>1. reply[r] # None
        BY <1>5 DEF Respond, Staged, Stage
    <2>2. \A q \in Listeners(r) : q = r
        BY <2>1 DEF Listeners, Distinct
    <2>3. Append(c[r], Answer(r)) \in Seq({Error, Answer(r)})
        BY SeqFacts
    <2>4. \A q \in Requests : c'[q] \in Seq({Error, Answer(q)})
        BY <1>5, <2>2, <2>3 DEF Respond
    <2>5. QED
        BY <1>5, <2>4 DEF Respond
<1>6. QED
    BY <1>1, <1>2, <1>3, <1>4, <1>5
    DEF Next, GetResponse, vars, Begin, Subscribe, Send, Deferred, CtxDone,
        BridgeDone

CorrelationInv == StageInv /\ Distinct /\ OwnOnly

\* A call returns the answer to its own request or none, however many calls
\* overlap and however late or often answers come: the fresh reply destination
\* correlates them.
THEOREM ReplyIsOwn == Spec => []OwnReply
<1>1. Init => CorrelationInv
    <2> SUFFICES ASSUME Init PROVE CorrelationInv
        OBVIOUS
    <2>1. Distinct
        BY DEF Init, Distinct
    <2>2. OwnOnly
        BY ResultFacts DEF Init, OwnOnly, OwnReply
    <2>3. QED
        BY <2>1, <2>2, TypeInit, StagedInit DEF CorrelationInv, StageInv
<1>2. CorrelationInv /\ [Next]_vars => CorrelationInv'
    BY TypeStep, StagedStep, DistinctStep, OwnOnlyStep
    DEF CorrelationInv, StageInv
<1>3. CorrelationInv => OwnReply
    BY DEF CorrelationInv, OwnOnly
<1>4. QED
    BY <1>1, <1>2, <1>3, PTL DEF Spec
=============================================================================

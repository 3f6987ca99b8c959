---------------------------- MODULE Subscription ----------------------------
(***************************************************************************)
(* What transport.Conn promises of its subscriptions (the interfaces of    *)
(* transport/transport.go), apart from how a transport keeps it: C()       *)
(* delivers the subscription's messages in order and without a gap, an     *)
(* error is the last thing on it, it is closed for a reason and never      *)
(* reopened, and it is closed once it was unsubscribed.                    *)
(***************************************************************************)
EXTENDS Naturals, Sequences

CONSTANTS
    Subs,       \* subscriptions of the connection
    ChanBuf     \* capacity of C()

VARIABLES
    state,      \* is a subscription not made yet, open or closed?
    ch,         \* what C() holds
    sent,       \* how much was ever sent on C()
    stopped,    \* was it unsubscribed, by its owner or with its ctx?
    down        \* has the connection ended?

svars == <<state, ch, sent, stopped, down>>

\* The error of a connection that ended, and that of a failed unsubscribe.
EndErr == <<"end", 0>>
LateErr == <<"late", 0>>

SInit ==
    /\ state = [s \in Subs |-> "none"]
    /\ ch = [s \in Subs |-> <<>>]
    /\ sent = [s \in Subs |-> 0]
    /\ stopped = [s \in Subs |-> FALSE]
    /\ down = FALSE

\* Conn.Subscribe
Make(s) ==
    /\ state[s] = "none"
    /\ ~down
    /\ state' = [state EXCEPT ![s] = "open"]
    /\ UNCHANGED <<ch, sent, stopped, down>>

Put(s, m) ==
    /\ state[s] = "open"
    /\ Len(ch[s]) < ChanBuf
    /\ ch' = [ch EXCEPT ![s] = Append(@, m)]
    /\ sent' = [sent EXCEPT ![s] = @ + 1]
    /\ UNCHANGED <<stopped, down>>

\* The next message: none is skipped, repeated or overtaken.
Deliver(s) == Put(s, <<"msg", sent[s] + 1>>) /\ UNCHANGED state

\* Msg.Err: the broker reported an error or the subscription was closed
\* unexpectedly.  C() is closed behind it.
Fail(s) ==
    /\ \/ down /\ Put(s, EndErr)
       \/ stopped[s] /\ Put(s, LateErr)
    /\ state' = [state EXCEPT ![s] = "closed"]

\* "The channel is closed when the subscription ends."
Close(s) ==
    /\ state[s] = "open"
    /\ stopped[s] \/ down
    /\ state' = [state EXCEPT ![s] = "closed"]
    /\ UNCHANGED <<ch, sent, stopped, down>>

\* Unsubscribe is called, or the ctx of Subscribe is done.
Stop(s) ==
    /\ state[s] # "none"
    /\ stopped' = [stopped EXCEPT ![s] = TRUE]
    /\ UNCHANGED <<state, ch, sent, down>>

\* The reader of C() takes a message, also from a closed channel.
Take(s) ==
    /\ ch[s] # <<>>
    /\ ch' = [ch EXCEPT ![s] = Tail(@)]
    /\ UNCHANGED <<state, sent, stopped, down>>

GoDown ==
    /\ ~down
    /\ down' = TRUE
    /\ UNCHANGED <<state, ch, sent, stopped>>

SNext ==
    \/ \E s \in Subs :
          \/ Make(s) \/ Deliver(s) \/ Fail(s) \/ Close(s)
          \/ Stop(s) \/ Take(s)
    \/ GoDown

SSpec == SInit /\ [][SNext]_svars

\* "Unsubscribe cancels the subscription and closes C": a C() that was
\* unsubscribed, or whose ctx is done, is closed.
Ends == \A s \in Subs : state[s] = "open" /\ stopped[s] ~> state[s] = "closed"
=============================================================================

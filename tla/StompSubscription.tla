-------------------------- MODULE StompSubscription -------------------------
(***************************************************************************)
(* internal/stomp implements transport.Subscription: the refinement        *)
(* mapping from module Stomp to module Subscription.                       *)
(***************************************************************************)
EXTENDS Stomp

\* A subscription is open until its bridge closes out.
SubState == [s \in Subs |-> IF Open(s) THEN out[s] ELSE "none"]

SentCount == [s \in Subs |-> Len(forwarded[s])]

\* close(s.stop) or ctx.Done(): what the bridge's selects wait for.
StopAsked == [s \in Subs |-> stop[s] \/ ctx[s]]

Transport == INSTANCE Subscription WITH
    state <- SubState,
    sent <- SentCount,
    stopped <- StopAsked,
    down <- (loop # "up")

\* Whatever go-stomp delivers, however the bridge's two selects, the end of
\* ctx, Unsubscribe and Disconnect interleave, C() does nothing that
\* transport.Subscription does not allow.
ImplementsSubscription == Transport!SSpec

\* "Unsubscribe cancels the subscription and closes C" (transport.Subscription),
\* and so does the end of ctx, whatever the connection does meanwhile and also
\* when nobody reads C() any more.
SubscriptionEnds == Transport!Ends
=============================================================================

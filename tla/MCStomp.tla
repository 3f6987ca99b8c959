------------------------------ MODULE MCStomp -------------------------------
(***************************************************************************)
(* Stomp on small instances.                                               *)
(***************************************************************************)
EXTENDS StompSubscription
=============================================================================

---------------------------- MODULE ClientConfig ----------------------------
(***************************************************************************)
(* What gridappsd.Connect makes of its Config (gridappsd/client.go) and    *)
(* the STOMP dialer of its heart-beats (internal/stomp/stomp.go).          *)
(*                                                                         *)
(* A Config is a record of                                                 *)
(*   tls       TLSConfig: <<>> for nil, else <<[name, min]>>               *)
(*   plain     AllowPlaintext                                              *)
(*   deadline  does the ctx given to Connect have a deadline?              *)
(*   hb        HeartBeat, in seconds                                       *)
(*   hbs       HeartBeats: <<>> for nil, else <<send, recv>>               *)
(***************************************************************************)
EXTENDS Naturals

TLS12 == 771            \* tls.VersionTLS12
DefaultHeartBeat == 10
NoName == ""
Host == "host"          \* the host of Address

\* Faulty: AllowPlaintext wins over a TLSConfig.
PlainIfAllowed(c) == c.plain

\* dial: plain TCP only without a TLSConfig and when allowed.
DialsPlain(c) == c.tls = <<>> /\ c.plain

\* dial's own tls.Config where there is none.
Wanted(c) == IF c.tls = <<>> THEN [name |-> NoName, min |-> 0] ELSE c.tls[1]

\* dialTLS, on a clone: the host for a missing ServerName, TLS 1.2 for a
\* missing MinVersion; what is explicit stays.
Hardened(t) ==
    [name |-> IF t.name = NoName THEN Host ELSE t.name,
     min |-> IF t.min = 0 THEN TLS12 ELSE t.min]

\* resolveHeartBeat: HeartBeats as it is, zeros too; HeartBeat both ways, its
\* zero the default.
ResolveHeartBeat(c) ==
    IF c.hbs # <<>> THEN c.hbs
    ELSE LET hb == IF c.hb = 0 THEN DefaultHeartBeat ELSE c.hb IN <<hb, hb>>
=============================================================================

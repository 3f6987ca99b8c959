------------------------------ MODULE Fieldbus ------------------------------
(***************************************************************************)
(* GridAPPSDMessageBus of fieldbus/fieldbus.go: one bus, its sessions (a   *)
(* connection with its router) one after the other, and goroutines that    *)
(* call its methods.  A method takes what it needs under b.mu and works on *)
(* it after the lock is released, so a Disconnect may come in between.     *)
(*                                                                         *)
(* A router appears as what module Router shows it to be: a set of         *)
(* registrations in which a destination is present as long as its reader   *)
(* is; Close clears it and waits until no reader is left.                  *)
(***************************************************************************)
EXTENDS Naturals

CONSTANTS
    Callers,      \* goroutines that call the bus
    Names,        \* destinations as callers write them: <<prefix, name>>
    None,         \* no caller
    MaxSessions,  \* bound: sessions ever opened
    MaxRegs       \* bound: calls of Subscribe

ASSUME FieldbusAssumption ==
    /\ None \notin Callers
    /\ MaxSessions \in Nat
    /\ MaxRegs \in Nat

Session == 1 .. MaxSessions
NoSession == 0
Reg == 1 .. MaxRegs     \* a call of Subscribe and the handler it registers

\* NormalizeDestination: a name without one of the prefixes is a queue's.
Normalize(name) == IF name[1] = "bare" THEN <<"queue", name[2]>> ELSE name

Dest == {Normalize(name) : name \in Names}
NoDest == <<"", "">>

VARIABLES
    \* GridAPPSDMessageBus
    mu,         \* who holds b.mu across steps, or None
    connected,  \* b.connected
    session,    \* b.conn and b.rtr, which are set and cleared together
    \* sessions
    nses,       \* how many were opened
    link,       \* the connection: up, lost, or closed by Disconnect
    next,       \* the router's nextToken
    regs,       \* the router's registrations
    \* calls
    pc,         \* where a caller is
    got,        \* the session that it took from the bus
    arg,        \* the registration that its call is about
    \* registrations
    nregs,      \* how many calls of Subscribe there were
    tok,        \* the Token that Subscribe returned
    dest,       \* the normalized destination
    \* history
    cleared,    \* sessions whose router's Close has cleared the registry
    late,       \* registrations made on a router after that
    faults,     \* registrations reported on Errors() after Disconnect's close
    removed     \* <<r, q>>: Unsubscribe with the token of q removed r

busVars == <<mu, connected, session>>
sessionVars == <<nses, link, next, regs>>
callVars == <<pc, got, arg>>
regVars == <<nregs, tok, dest>>
historyVars == <<cleared, late, faults, removed>>
vars == <<busVars, sessionVars, callVars, regVars, historyVars>>

CallPc == {"idle", "dial", "subscribe", "unsubscribe", "send", "clear", "wait",
           "conn"}

\* New: an unconnected bus.
Init ==
    /\ mu = None
    /\ connected = FALSE
    /\ session = NoSession
    /\ nses = 0
    /\ link = [n \in Session |-> "none"]
    /\ next = [n \in Session |-> 0]
    /\ regs = [n \in Session |-> {}]
    /\ pc = [c \in Callers |-> "idle"]
    /\ got = [c \in Callers |-> NoSession]
    /\ arg = [c \in Callers |-> 0]
    /\ nregs = 0
    /\ tok = [r \in Reg |-> 0]
    /\ dest = [r \in Reg |-> NoDest]
    /\ cleared = {}
    /\ late = {}
    /\ faults = {}
    /\ removed = {}

-----------------------------------------------------------------------------
(***************************************************************************)
(* Connect                                                                 *)
(***************************************************************************)

\* Faulty: a bus that is connected dials again.
AlwaysDials == TRUE

\* A second Connect on a connected bus is a no-op.
MayDial == ~connected

\* gridappsd.Connect is called with b.mu held.
ConnectBegin(c) ==
    /\ pc[c] = "idle"
    /\ mu = None
    /\ MayDial
    /\ nses < MaxSessions
    /\ mu' = c
    /\ pc' = [pc EXCEPT ![c] = "dial"]
    /\ UNCHANGED <<connected, session, sessionVars, got, arg, regVars,
                   historyVars>>

\* A new connection, and a new router whose tokens begin at 1.
ConnectOk(c) ==
    /\ pc[c] = "dial"
    /\ nses < MaxSessions
    /\ nses' = nses + 1
    /\ session' = nses + 1
    /\ connected' = TRUE
    /\ link' = [link EXCEPT ![nses + 1] = "up"]
    /\ mu' = None
    /\ pc' = [pc EXCEPT ![c] = "idle"]
    /\ UNCHANGED <<next, regs, got, arg, regVars, historyVars>>

ConnectFails(c) ==
    /\ pc[c] = "dial"
    /\ mu' = None
    /\ pc' = [pc EXCEPT ![c] = "idle"]
    /\ UNCHANGED <<connected, session, sessionVars, got, arg, regVars,
                   historyVars>>

(***************************************************************************)
(* Disconnect                                                              *)
(***************************************************************************)

\* Faulty: the connection goes first.
ConnFirst(p) ==
    CASE p = "begin" -> "conn"
      [] p = "conn" -> "clear"
      [] p = "clear" -> "wait"
      [] p = "wait" -> "idle"

\* rtr.Close(), which clears the registry and waits, and then
\* conn.Disconnect().
Then(p) ==
    CASE p = "begin" -> "clear"
      [] p = "clear" -> "wait"
      [] p = "wait" -> "conn"
      [] p = "conn" -> "idle"

\* A call returns or goes on.
Go(c, p) ==
    /\ pc' = [pc EXCEPT ![c] = p]
    /\ got' = [got EXCEPT ![c] = IF p = "idle" THEN NoSession ELSE @]
    /\ arg' = [arg EXCEPT ![c] = IF p = "idle" THEN 0 ELSE @]

\* Take the session off the bus; without one there is nothing to do.
DisconnectBegin(c) ==
    /\ pc[c] = "idle"
    /\ mu = None
    /\ session # NoSession
    /\ got' = [got EXCEPT ![c] = session]
    /\ session' = NoSession
    /\ connected' = FALSE
    /\ pc' = [pc EXCEPT ![c] = Then("begin")]
    /\ UNCHANGED <<mu, sessionVars, arg, regVars, historyVars>>

RouterClear(c) ==
    /\ pc[c] = "clear"
    /\ regs' = [regs EXCEPT ![got[c]] = {}]
    /\ cleared' = cleared \cup {got[c]}
    /\ Go(c, Then("clear"))
    /\ UNCHANGED <<busVars, nses, link, next, regVars, late, faults, removed>>

RouterWait(c) ==
    /\ pc[c] = "wait"
    /\ regs[got[c]] = {}
    /\ Go(c, Then("wait"))
    /\ UNCHANGED <<busVars, sessionVars, regVars, historyVars>>

\* Whatever conn.Disconnect returns, the connection is closed.
ConnDisconnect(c) ==
    /\ pc[c] = "conn"
    /\ link' = [link EXCEPT ![got[c]] = "closed"]
    /\ Go(c, Then("conn"))
    /\ UNCHANGED <<busVars, nses, next, regs, regVars, historyVars>>

(***************************************************************************)
(* Subscribe and Unsubscribe                                               *)
(***************************************************************************)

\* Faulty: a nil router is not looked for.
NotChecked == TRUE

\* Without a session Subscribe, Send and GetResponse fail and Unsubscribe
\* returns nil.
HasSession == session # NoSession

\* Take the router; the call works on it after b.mu is released.
SubscribeBegin(c, name) ==
    /\ pc[c] = "idle"
    /\ mu = None
    /\ HasSession
    /\ nregs < MaxRegs
    /\ nregs' = nregs + 1
    /\ dest' = [dest EXCEPT ![nregs + 1] = Normalize(name)]
    /\ arg' = [arg EXCEPT ![c] = nregs + 1]
    /\ got' = [got EXCEPT ![c] = session]
    /\ pc' = [pc EXCEPT ![c] = "subscribe"]
    /\ UNCHANGED <<busVars, sessionVars, tok, historyVars>>

\* A destination of the session has a reader.
HasReader(n, d) == \E r \in regs[n] : dest[r] = d

\* rtr.Subscribe: a handler more, or a new subscription on a live connection.
SubscribeOk(c) ==
    LET n == got[c]
        r == arg[c]
    IN
    /\ pc[c] = "subscribe"
    /\ HasReader(n, dest[r]) \/ link[n] = "up"
    /\ next' = [next EXCEPT ![n] = @ + 1]
    /\ tok' = [tok EXCEPT ![r] = next[n] + 1]
    /\ regs' = [regs EXCEPT ![n] = @ \cup {r}]
    /\ late' = late \cup (IF n \in cleared THEN {r} ELSE {})
    /\ Go(c, "idle")
    /\ UNCHANGED <<busVars, nses, link, nregs, dest, cleared, faults, removed>>

\* conn.Subscribe fails; the token that was drawn is void.
SubscribeFails(c) ==
    /\ pc[c] = "subscribe"
    /\ ~HasReader(got[c], dest[arg[c]])
    /\ next' = [next EXCEPT ![got[c]] = @ + 1]
    /\ Go(c, "idle")
    /\ UNCHANGED <<busVars, nses, link, regs, regVars, historyVars>>

\* The caller of Subscribe q gives its token and destination to Unsubscribe.
UnsubscribeBegin(c, q) ==
    /\ pc[c] = "idle"
    /\ mu = None
    /\ HasSession
    /\ tok[q] # 0
    /\ arg' = [arg EXCEPT ![c] = q]
    /\ got' = [got EXCEPT ![c] = session]
    /\ pc' = [pc EXCEPT ![c] = "unsubscribe"]
    /\ UNCHANGED <<busVars, sessionVars, regVars, historyVars>>

\* What the router finds under the destination and the token of q.
Match(n, q) == {r \in regs[n] : dest[r] = dest[q] /\ tok[r] = tok[q]}

\* rtr.Unsubscribe
UnsubscribeEnd(c) ==
    LET n == got[c]
        q == arg[c]
    IN
    /\ pc[c] = "unsubscribe"
    /\ regs' = [regs EXCEPT ![n] = @ \ Match(n, q)]
    /\ removed' = removed \cup {<<r, q>> : r \in Match(n, q)}
    /\ Go(c, "idle")
    /\ UNCHANGED <<busVars, nses, link, next, regVars, cleared, late, faults>>

(***************************************************************************)
(* Send and GetResponse                                                    *)
(***************************************************************************)

\* Take the connection, which may be closed by the time it is used.
SendBegin(c) ==
    /\ pc[c] = "idle"
    /\ mu = None
    /\ HasSession
    /\ got' = [got EXCEPT ![c] = session]
    /\ pc' = [pc EXCEPT ![c] = "send"]
    /\ UNCHANGED <<busVars, sessionVars, arg, regVars, historyVars>>

\* conn.Send, or reqresp.GetResponse (module ReqResp), has returned; neither
\* touches the bus or the router.
SendEnd(c) ==
    /\ pc[c] = "send"
    /\ Go(c, "idle")
    /\ UNCHANGED <<busVars, sessionVars, regVars, historyVars>>

-----------------------------------------------------------------------------
(***************************************************************************)
(* The broker and the readers                                              *)
(***************************************************************************)

\* The connection is lost; nothing tells the bus.
Lose(n) ==
    /\ link[n] = "up"
    /\ link' = [link EXCEPT ![n] = "lost"]
    /\ UNCHANGED <<busVars, nses, next, regs, callVars, regVars, historyVars>>

\* The reader of a registered destination ends, deregisters it and reports:
\* its subscription was ended by the peer or with the connection.
ReaderEnd(n, d) ==
    LET gone == {r \in regs[n] : dest[r] = d} IN
    /\ HasReader(n, d)
    /\ regs' = [regs EXCEPT ![n] = @ \ gone]
    /\ faults' = faults \cup (IF link[n] = "closed" THEN gone ELSE {})
    /\ UNCHANGED <<busVars, nses, link, next, callVars, regVars, cleared, late,
                   removed>>

-----------------------------------------------------------------------------
Begin(c) ==
    \/ ConnectBegin(c)
    \/ DisconnectBegin(c)
    \/ \E name \in Names : SubscribeBegin(c, name)
    \/ \E q \in Reg : UnsubscribeBegin(c, q)
    \/ SendBegin(c)

Continue(c) ==
    \/ ConnectOk(c)
    \/ ConnectFails(c)
    \/ RouterClear(c)
    \/ RouterWait(c)
    \/ ConnDisconnect(c)
    \/ SubscribeOk(c)
    \/ SubscribeFails(c)
    \/ UnsubscribeEnd(c)
    \/ SendEnd(c)

Next ==
    \/ \E c \in Callers : Begin(c) \/ Continue(c)
    \/ \E n \in Session : Lose(n) \/ \E d \in Dest : ReaderEnd(n, d)

Spec == Init /\ [][Next]_vars

-----------------------------------------------------------------------------
(***************************************************************************)
(* Properties                                                              *)
(***************************************************************************)

\* A caller whose call works on a session, outside b.mu.
InCall(c) == pc[c] \notin {"idle", "dial"}

\* Every variable has its type, and no call goes on with a nil router or
\* connection.
TypeOK ==
    /\ mu \in Callers \cup {None}
    /\ connected \in BOOLEAN
    /\ session \in Session \cup {NoSession}
    /\ nses \in Session \cup {0}
    /\ link \in [Session -> {"none", "up", "lost", "closed"}]
    /\ next \in [Session -> Nat]
    /\ regs \in [Session -> SUBSET Reg]
    /\ pc \in [Callers -> CallPc]
    /\ got \in [Callers -> Session \cup {NoSession}]
    /\ arg \in [Callers -> Reg \cup {0}]
    /\ \A c \in Callers : InCall(c) => got[c] # NoSession
    /\ nregs \in Reg \cup {0}
    /\ tok \in [Reg -> Nat]
    /\ dest \in [Reg -> Dest \cup {NoDest}]
    /\ cleared \in SUBSET Session
    /\ late \in SUBSET Reg
    /\ faults \in SUBSET Reg
    /\ removed \in SUBSET (Reg \X Reg)

\* A Disconnect that has taken the session n and not yet closed it.
Closing(c, n) == pc[c] \in {"clear", "wait", "conn"} /\ got[c] = n

\* "closes the underlying transport.Conn ... Idempotent": whatever calls
\* overlap, a session that was opened is held by the bus, or by exactly one
\* Disconnect that is on its way to close it, until it is closed; none is
\* forgotten by a Connect and none is closed twice.
SessionOwned ==
    /\ connected <=> session # NoSession
    /\ \A n \in 1 .. nses :
          \/ /\ n = session
             /\ link[n] # "closed"
             /\ \A c \in Callers : ~Closing(c, n)
          \/ /\ n # session
             /\ link[n] # "closed"
             /\ \E c \in Callers :
                   /\ Closing(c, n)
                   /\ \A b \in Callers : Closing(b, n) => b = c
          \/ /\ n # session
             /\ link[n] = "closed"
             /\ \A c \in Callers : ~Closing(c, n)

\* "Teardown the bus performed itself, via Unsubscribe or Disconnect, is not
\* reported" (Errors): Disconnect's closing of the connection puts nothing on
\* Errors().  A Subscribe that overlaps the Disconnect violates it.
OwnDisconnectNotAFault == faults = {}

\* What holds of it: only a registration by a Subscribe that took the router
\* before Disconnect did, and registered after the router's Close had cleared
\* it, is reported by the closing of the connection.
OnlyLateReported == faults \subseteq late

\* "Pass it to Unsubscribe to remove exactly that registered handler, leaving
\* other handlers on the same destination unaffected" (Token).
StaleTokenHarmless == \A pair \in removed : pair[1] = pair[2]
=============================================================================

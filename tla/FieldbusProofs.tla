--------------------------- MODULE FieldbusProofs ---------------------------
(***************************************************************************)
(* What module Fieldbus promises, for any number of callers, sessions,     *)
(* destinations and registrations.                                         *)
(***************************************************************************)
EXTENDS Fieldbus, TLAPS

-----------------------------------------------------------------------------
(***************************************************************************)
(* Types                                                                   *)
(***************************************************************************)

\* Subscribe and Unsubscribe are about a registration.
Locals ==
    \A c \in Callers : pc[c] \in {"subscribe", "unsubscribe"} => arg[c] \in Reg

TypeInv == TypeOK /\ Locals

LEMMA ThenIs ==
    /\ Then("begin") = "clear" /\ Then("clear") = "wait"
    /\ Then("wait") = "conn" /\ Then("conn") = "idle"
BY DEF Then

LEMMA TypeInvInit == Init => TypeInv
<1> SUFFICES ASSUME Init PROVE TypeInv
    OBVIOUS
<1>1. /\ mu \in Callers \cup {None}
      /\ connected \in BOOLEAN
      /\ session \in Session \cup {NoSession}
      /\ nses \in Session \cup {0}
      /\ link \in [Session -> {"none", "up", "lost", "closed"}]
      /\ next \in [Session -> Nat]
      /\ regs \in [Session -> SUBSET Reg]
    BY DEF Init
<1>2. /\ pc \in [Callers -> CallPc]
      /\ got \in [Callers -> Session \cup {NoSession}]
      /\ arg \in [Callers -> Reg \cup {0}]
      /\ \A c \in Callers : InCall(c) => got[c] # NoSession
      /\ Locals
    BY DEF Init, CallPc, InCall, Locals
<1>3. /\ nregs \in Reg \cup {0}
      /\ tok \in [Reg -> Nat]
      /\ dest \in [Reg -> Dest \cup {NoDest}]
      /\ cleared \in SUBSET Session
      /\ late \in SUBSET Reg
      /\ faults \in SUBSET Reg
      /\ removed \in SUBSET (Reg \X Reg)
    BY DEF Init
<1>4. QED
    BY <1>1, <1>2, <1>3 DEF TypeInv, TypeOK

\* What a call does to the caller's own variables.
LEMMA GoTypes ==
    ASSUME TypeInv, NEW c \in Callers, NEW p \in {"idle", "wait", "conn"},
           got[c] # NoSession, Go(c, p)
    PROVE  /\ pc' \in [Callers -> CallPc]
           /\ got' \in [Callers -> Session \cup {NoSession}]
           /\ arg' \in [Callers -> Reg \cup {0}]
           /\ \A b \in Callers : InCall(b)' => got'[b] # NoSession
           /\ Locals'
BY DEF TypeInv, TypeOK, Locals, InCall, CallPc, Go

LEMMA TypeInvStep == TypeInv /\ [Next]_vars => TypeInv'
<1> SUFFICES ASSUME TypeInv, [Next]_vars PROVE TypeInv'
    OBVIOUS
<1> USE FieldbusAssumption
<1>1. ASSUME NEW c \in Callers, ConnectBegin(c) \/ ConnectFails(c)
      PROVE  TypeInv'
    BY <1>1 DEF ConnectBegin, ConnectFails, TypeInv, TypeOK, Locals, InCall,
       CallPc, sessionVars, regVars, historyVars
<1>2. ASSUME NEW c \in Callers, ConnectOk(c) PROVE TypeInv'
    <2>1. nses + 1 \in Session
        BY <1>2 DEF ConnectOk, TypeInv, TypeOK, Session
    <2>2. QED
        BY <1>2, <2>1 DEF ConnectOk, TypeInv, TypeOK, Locals, InCall, CallPc,
           regVars, historyVars
<1>3. ASSUME NEW c \in Callers, DisconnectBegin(c) PROVE TypeInv'
    BY <1>3, ThenIs DEF DisconnectBegin, TypeInv, TypeOK, Locals, InCall,
       CallPc, sessionVars, regVars, historyVars
<1>4. ASSUME NEW c \in Callers, RouterClear(c) PROVE TypeInv'
    <2>1. got[c] \in Session /\ got[c] # NoSession
        BY <1>4 DEF RouterClear, TypeInv, TypeOK, InCall
    <2>2. QED
        BY <1>4, <2>1, GoTypes, ThenIs
        DEF RouterClear, TypeInv, TypeOK, busVars, regVars
<1>5. ASSUME NEW c \in Callers, RouterWait(c) PROVE TypeInv'
    <2>1. got[c] # NoSession
        BY <1>5 DEF RouterWait, TypeInv, TypeOK, InCall
    <2>2. QED
        BY <1>5, <2>1, GoTypes, ThenIs
        DEF RouterWait, TypeInv, TypeOK, busVars, sessionVars, regVars,
            historyVars
<1>6. ASSUME NEW c \in Callers, ConnDisconnect(c) PROVE TypeInv'
    <2>1. got[c] # NoSession
        BY <1>6 DEF ConnDisconnect, TypeInv, TypeOK, InCall
    <2>2. QED
        BY <1>6, <2>1, GoTypes, ThenIs
        DEF ConnDisconnect, TypeInv, TypeOK, busVars, regVars, historyVars
<1>7. ASSUME NEW c \in Callers, NEW name \in Names, SubscribeBegin(c, name)
      PROVE  TypeInv'
    <2>1. nregs + 1 \in Reg
        BY <1>7 DEF SubscribeBegin, TypeInv, TypeOK, Reg
    <2>2. Normalize(name) \in Dest
        BY DEF Dest
    <2>3. QED
        BY <1>7, <2>1, <2>2 DEF SubscribeBegin, HasSession, TypeInv, TypeOK,
           Locals, InCall, CallPc, busVars, sessionVars, historyVars
<1>8. ASSUME NEW c \in Callers, SubscribeOk(c) PROVE TypeInv'
    <2>1. got[c] \in Session /\ got[c] # NoSession /\ arg[c] \in Reg
        BY <1>8 DEF SubscribeOk, TypeInv, TypeOK, Locals, InCall
    <2>2. QED
        BY <1>8, <2>1, GoTypes DEF SubscribeOk, TypeInv, TypeOK, busVars
<1>9. ASSUME NEW c \in Callers, SubscribeFails(c) PROVE TypeInv'
    <2>1. got[c] \in Session /\ got[c] # NoSession
        BY <1>9 DEF SubscribeFails, TypeInv, TypeOK, InCall
    <2>2. QED
        BY <1>9, <2>1, GoTypes
        DEF SubscribeFails, TypeInv, TypeOK, busVars, regVars, historyVars
<1>10. ASSUME NEW c \in Callers, NEW q \in Reg, UnsubscribeBegin(c, q)
       PROVE  TypeInv'
    BY <1>10 DEF UnsubscribeBegin, HasSession, TypeInv, TypeOK, Locals, InCall,
       CallPc, busVars, sessionVars, regVars, historyVars
<1>11. ASSUME NEW c \in Callers, UnsubscribeEnd(c) PROVE TypeInv'
    <2>1. got[c] \in Session /\ got[c] # NoSession /\ arg[c] \in Reg
        BY <1>11 DEF UnsubscribeEnd, TypeInv, TypeOK, Locals, InCall
    <2>2. removed' \in SUBSET (Reg \X Reg)
        BY <1>11, <2>1 DEF UnsubscribeEnd, Match, TypeInv, TypeOK
    <2>3. QED
        BY <1>11, <2>1, <2>2, GoTypes
        DEF UnsubscribeEnd, TypeInv, TypeOK, busVars, regVars
<1>12. ASSUME NEW n \in Session, Lose(n) PROVE TypeInv'
    BY <1>12 DEF Lose, TypeInv, TypeOK, Locals, InCall, busVars, callVars,
       regVars, historyVars
<1>13. ASSUME NEW n \in Session, NEW d \in Dest, ReaderEnd(n, d) PROVE TypeInv'
    BY <1>13 DEF ReaderEnd, TypeInv, TypeOK, Locals, InCall, busVars, callVars,
       regVars
<1>14. CASE UNCHANGED vars
    BY <1>14 DEF vars, TypeInv, TypeOK, Locals, InCall, busVars, sessionVars,
       callVars, regVars, historyVars
<1>15. ASSUME NEW c \in Callers, SendBegin(c) PROVE TypeInv'
    BY <1>15 DEF SendBegin, HasSession, TypeInv, TypeOK, Locals, InCall, CallPc,
       busVars, sessionVars, regVars, historyVars
<1>16. ASSUME NEW c \in Callers, SendEnd(c) PROVE TypeInv'
    <2>1. got[c] # NoSession
        BY <1>16 DEF SendEnd, TypeInv, TypeOK, InCall
    <2>2. QED
        BY <1>16, <2>1, GoTypes
        DEF SendEnd, TypeInv, TypeOK, busVars, sessionVars, regVars, historyVars
<1>17. QED
    BY <1>1, <1>2, <1>3, <1>4, <1>5, <1>6, <1>7, <1>8, <1>9, <1>10, <1>11,
       <1>12, <1>13, <1>14, <1>15, <1>16
    DEF Next, Begin, Continue

\* The bus keeps its types, and no call goes on with a nil router.
THEOREM TypeCorrect == Spec => []TypeOK
<1>1. TypeInv => TypeOK
    BY DEF TypeInv
<1>2. QED
    BY <1>1, TypeInvInit, TypeInvStep, PTL DEF Spec

-----------------------------------------------------------------------------
(***************************************************************************)
(* Errors()                                                                *)
(***************************************************************************)

\* A closed connection's router was cleared before, and what is registered on
\* a cleared router came late.
FaultInv ==
    /\ \A n \in Session : link[n] = "closed" => n \in cleared
    /\ \A c \in Callers : pc[c] \in {"wait", "conn"} => got[c] \in cleared
    /\ \A n \in cleared : regs[n] \subseteq late
    /\ faults \subseteq late

LEMMA FaultInvStep ==
    ASSUME TypeInv, FaultInv, [Next]_vars
    PROVE  FaultInv'
<1>0. /\ link \in [Session -> {"none", "up", "lost", "closed"}]
      /\ regs \in [Session -> SUBSET Reg]
      /\ pc \in [Callers -> CallPc]
      /\ got \in [Callers -> Session \cup {NoSession}]
      /\ cleared \in SUBSET Session
      /\ \A c \in Callers : InCall(c) => got[c] \in Session
    BY DEF TypeInv, TypeOK
\* Steps that enter neither wait nor conn and close nothing.
<1>1. ASSUME UNCHANGED <<regs, cleared, late, faults>>,
             \A n \in Session : link'[n] = "closed" => link[n] = "closed",
             \A c \in Callers : pc'[c] \in {"wait", "conn"} =>
                 pc[c] \in {"wait", "conn"} /\ got'[c] = got[c]
      PROVE  FaultInv'
    BY <1>1 DEF FaultInv
<1>2. ASSUME NEW c \in Callers, ConnectBegin(c) \/ ConnectFails(c)
      PROVE  FaultInv'
    BY <1>0, <1>1, <1>2 DEF ConnectBegin, ConnectFails, sessionVars, historyVars
<1>3. ASSUME NEW c \in Callers, ConnectOk(c) PROVE FaultInv'
    BY <1>0, <1>1, <1>3 DEF ConnectOk, historyVars
<1>4. ASSUME NEW c \in Callers, DisconnectBegin(c) PROVE FaultInv'
    BY <1>0, <1>1, <1>4, ThenIs DEF DisconnectBegin, sessionVars, historyVars
<1>5. ASSUME NEW c \in Callers, RouterClear(c) PROVE FaultInv'
    <2>1. got[c] \in Session
        BY <1>0, <1>5 DEF RouterClear, InCall
    <2>2. QED
        BY <1>0, <1>5, <2>1, ThenIs DEF RouterClear, Go, FaultInv
<1>6. ASSUME NEW c \in Callers, RouterWait(c) PROVE FaultInv'
    BY <1>0, <1>1, <1>6, ThenIs DEF RouterWait, Go, sessionVars, historyVars
<1>7. ASSUME NEW c \in Callers, ConnDisconnect(c) PROVE FaultInv'
    <2>1. got[c] \in cleared
        BY <1>7 DEF ConnDisconnect, FaultInv
    <2>2. QED
        BY <1>0, <1>7, <2>1, ThenIs DEF ConnDisconnect, Go, historyVars, FaultInv
<1>8. ASSUME NEW c \in Callers, NEW name \in Names, SubscribeBegin(c, name)
      PROVE  FaultInv'
    BY <1>0, <1>1, <1>8 DEF SubscribeBegin, sessionVars, historyVars
<1>9. ASSUME NEW c \in Callers, SubscribeOk(c) PROVE FaultInv'
    <2>1. got[c] \in Session
        BY <1>0, <1>9 DEF SubscribeOk, InCall
    <2>2. QED
        BY <1>0, <1>9, <2>1 DEF SubscribeOk, Go, FaultInv
<1>10. ASSUME NEW c \in Callers, SubscribeFails(c) PROVE FaultInv'
    BY <1>0, <1>1, <1>10 DEF SubscribeFails, Go, historyVars
<1>11. ASSUME NEW c \in Callers, NEW q \in Reg, UnsubscribeBegin(c, q)
       PROVE  FaultInv'
    BY <1>0, <1>1, <1>11 DEF UnsubscribeBegin, sessionVars, historyVars
<1>12. ASSUME NEW c \in Callers, UnsubscribeEnd(c) PROVE FaultInv'
    BY <1>0, <1>12 DEF UnsubscribeEnd, Go, FaultInv
<1>13. ASSUME NEW n \in Session, Lose(n) PROVE FaultInv'
    BY <1>0, <1>1, <1>13 DEF Lose, callVars, historyVars
<1>14. ASSUME NEW n \in Session, NEW d \in Dest, ReaderEnd(n, d)
       PROVE  FaultInv'
    BY <1>0, <1>14 DEF ReaderEnd, callVars, FaultInv
<1>15. CASE UNCHANGED vars
    BY <1>1, <1>15 DEF vars, sessionVars, callVars, historyVars
<1>16. ASSUME NEW c \in Callers, SendBegin(c) \/ SendEnd(c) PROVE FaultInv'
    BY <1>0, <1>1, <1>16 DEF SendBegin, SendEnd, Go, sessionVars, historyVars
<1>17. QED
    BY <1>2, <1>3, <1>4, <1>5, <1>6, <1>7, <1>8, <1>9, <1>10, <1>11, <1>12,
       <1>13, <1>14, <1>15, <1>16
    DEF Next, Begin, Continue

\* Disconnect's closing of the connection is reported as a fault only for a
\* Subscribe that registered after the router's Close had cleared it.
THEOREM OnlyLateIsReported == Spec => []OnlyLateReported
<1>1. Init => TypeInv /\ FaultInv
    BY TypeInvInit DEF Init, FaultInv
<1>2. TypeInv /\ FaultInv /\ [Next]_vars => (TypeInv /\ FaultInv)'
    BY TypeInvStep, FaultInvStep
<1>3. TypeInv /\ FaultInv => OnlyLateReported
    BY DEF FaultInv, OnlyLateReported
<1>4. QED
    BY <1>1, <1>2, <1>3, PTL DEF Spec

-----------------------------------------------------------------------------
(***************************************************************************)
(* Sessions                                                                *)
(***************************************************************************)

\* One session's part of SessionOwned.
Owned(n) ==
    \/ /\ n = session
       /\ link[n] # "closed"
       /\ \A c \in Callers : ~Closing(c, n)
    \/ /\ n # session
       /\ link[n] # "closed"
       /\ \E c \in Callers :
             /\ Closing(c, n)
             /\ \A b \in Callers : Closing(b, n) => b = c
    \/ /\ n # session
       /\ link[n] = "closed"
       /\ \A c \in Callers : ~Closing(c, n)

\* Who dials holds b.mu, on a bus that is not connected; and nobody has a
\* session that was not opened.
DialInv ==
    /\ \A c \in Callers : pc[c] = "dial" => mu = c /\ ~connected
    /\ connected <=> session # NoSession
    /\ session <= nses
    /\ \A c \in Callers : got[c] <= nses

LEMMA DialInvStep ==
    ASSUME TypeInv, DialInv, [Next]_vars
    PROVE  DialInv'
<1>0. /\ pc \in [Callers -> CallPc]
      /\ got \in [Callers -> Session \cup {NoSession}]
      /\ mu \in Callers \cup {None}
      /\ None \notin Callers
      /\ connected \in BOOLEAN
      /\ nses \in Nat /\ session \in Nat
      /\ \A n \in Session : n \in Nat /\ n # NoSession
    BY FieldbusAssumption DEF TypeInv, TypeOK, Session, NoSession
<1>1. ASSUME UNCHANGED <<busVars, nses>>,
             \A c \in Callers : pc'[c] = "dial" => pc[c] = "dial",
             \A c \in Callers : got'[c] \in {got[c], session, NoSession}
      PROVE  DialInv'
    BY <1>0, <1>1 DEF DialInv, busVars, NoSession
<1>2. ASSUME NEW c \in Callers, ConnectBegin(c) PROVE DialInv'
    BY <1>0, <1>2 DEF ConnectBegin, MayDial, DialInv, sessionVars
<1>3. ASSUME NEW c \in Callers, ConnectFails(c) PROVE DialInv'
    BY <1>0, <1>3 DEF ConnectFails, DialInv, sessionVars
<1>4. ASSUME NEW c \in Callers, ConnectOk(c) PROVE DialInv'
    <2>1. \A b \in Callers : pc'[b] # "dial"
        BY <1>0, <1>4 DEF ConnectOk, DialInv
    <2>2. \A b \in Callers : got'[b] <= nses'
        BY <1>0, <1>4 DEF ConnectOk, DialInv, NoSession
    <2>3. QED
        BY <1>0, <1>4, <2>1, <2>2 DEF ConnectOk, DialInv, NoSession
<1>5. ASSUME NEW c \in Callers, DisconnectBegin(c) PROVE DialInv'
    BY <1>0, <1>5, ThenIs DEF DisconnectBegin, DialInv, sessionVars, NoSession
<1>6. ASSUME NEW c \in Callers,
             RouterClear(c) \/ RouterWait(c) \/ ConnDisconnect(c)
      PROVE  DialInv'
    BY <1>0, <1>1, <1>6, ThenIs DEF RouterClear, RouterWait, ConnDisconnect, Go,
       sessionVars
<1>7. ASSUME NEW c \in Callers, NEW name \in Names, SubscribeBegin(c, name)
      PROVE  DialInv'
    BY <1>0, <1>1, <1>7 DEF SubscribeBegin, sessionVars
<1>8. ASSUME NEW c \in Callers,
             SubscribeOk(c) \/ SubscribeFails(c) \/ UnsubscribeEnd(c)
      PROVE  DialInv'
    BY <1>0, <1>1, <1>8 DEF SubscribeOk, SubscribeFails, UnsubscribeEnd, Go
<1>9. ASSUME NEW c \in Callers, NEW q \in Reg, UnsubscribeBegin(c, q)
      PROVE  DialInv'
    BY <1>0, <1>1, <1>9 DEF UnsubscribeBegin, sessionVars
<1>10. ASSUME NEW n \in Session, Lose(n) \/ \E d \in Dest : ReaderEnd(n, d)
       PROVE  DialInv'
    BY <1>1, <1>10 DEF Lose, ReaderEnd, callVars
<1>11. CASE UNCHANGED vars
    BY <1>1, <1>11 DEF vars, sessionVars, callVars
<1>12. ASSUME NEW c \in Callers, SendBegin(c) \/ SendEnd(c) PROVE DialInv'
    BY <1>0, <1>1, <1>12 DEF SendBegin, SendEnd, Go, sessionVars
<1>13. QED
    BY <1>2, <1>3, <1>4, <1>5, <1>6, <1>7, <1>8, <1>9, <1>10, <1>11, <1>12
    DEF Next, Begin, Continue

\* A session keeps its one owner, whatever step is taken.
LEMMA OwnedStep ==
    ASSUME TypeInv, DialInv, [Next]_vars, NEW n \in 1 .. nses, Owned(n)
    PROVE  Owned(n)'
<1>0. /\ pc \in [Callers -> CallPc]
      /\ got \in [Callers -> Session \cup {NoSession}]
      /\ link \in [Session -> {"none", "up", "lost", "closed"}]
      /\ n \in Session /\ n # NoSession /\ n # nses + 1
    BY FieldbusAssumption DEF TypeInv, TypeOK, Session, NoSession
\* Steps that leave the bus, the link and all teardowns alone.
<1>1. ASSUME session' = session \/ (n # session /\ n # session'),
             link'[n] = "closed" <=> link[n] = "closed",
             \A c \in Callers : Closing(c, n)' <=> Closing(c, n)
      PROVE  Owned(n)'
    BY <1>1 DEF Owned
<1>2. ASSUME NEW c \in Callers, ConnectBegin(c) \/ ConnectFails(c)
      PROVE  Owned(n)'
    BY <1>0, <1>1, <1>2 DEF ConnectBegin, ConnectFails, Closing, sessionVars
<1>3. ASSUME NEW c \in Callers, ConnectOk(c) PROVE Owned(n)'
    <2>1. n # session /\ n # session'
        BY <1>0, <1>3 DEF ConnectOk, DialInv
    <2>2. link'[n] = link[n]
        BY <1>0, <1>3 DEF ConnectOk
    <2>3. \A b \in Callers : Closing(b, n)' <=> Closing(b, n)
        BY <1>0, <1>3 DEF ConnectOk, Closing
    <2>4. QED
        BY <1>1, <2>1, <2>2, <2>3
<1>4. ASSUME NEW c \in Callers, DisconnectBegin(c) PROVE Owned(n)'
    <2>1. /\ link' = link /\ session' # n
          /\ pc'[c] = "clear" /\ got'[c] = session
          /\ \A b \in Callers \ {c} : Closing(b, n)' <=> Closing(b, n)
        BY <1>0, <1>4, ThenIs DEF DisconnectBegin, Closing, sessionVars
    <2>2. CASE n = session
        <3>1. Closing(c, n)' /\ \A b \in Callers : Closing(b, n)' => b = c
            BY <2>1, <2>2 DEF Owned, Closing
        <3>2. QED
            BY <2>1, <2>2, <3>1 DEF Owned
    <2>3. CASE n # session
        <3>1. ~Closing(c, n)' /\ ~Closing(c, n)
            BY <1>4, <2>1, <2>3 DEF DisconnectBegin, Closing
        <3>2. QED
            BY <1>1, <2>1, <2>3, <3>1
    <2>4. QED
        BY <2>2, <2>3
<1>5. ASSUME NEW c \in Callers, RouterClear(c) \/ RouterWait(c)
      PROVE  Owned(n)'
    <2>1. /\ pc[c] \in {"clear", "wait"} /\ pc'[c] \in {"wait", "conn"}
          /\ got' = got /\ link' = link /\ session' = session
          /\ \A b \in Callers \ {c} : pc'[b] = pc[b]
        BY <1>0, <1>5, ThenIs DEF RouterClear, RouterWait, Go, busVars,
           sessionVars
    <2>2. \A b \in Callers : Closing(b, n)' <=> Closing(b, n)
        BY <2>1 DEF Closing
    <2>3. QED
        BY <1>1, <2>1, <2>2
<1>6. ASSUME NEW c \in Callers, ConnDisconnect(c) PROVE Owned(n)'
    <2>1. /\ pc[c] = "conn" /\ pc'[c] = "idle" /\ session' = session
          /\ link' = [link EXCEPT ![got[c]] = "closed"]
          /\ \A b \in Callers \ {c} : Closing(b, n)' <=> Closing(b, n)
        BY <1>0, <1>6, ThenIs DEF ConnDisconnect, Go, Closing, busVars
    <2>2. CASE got[c] = n
        <3>1. n # session /\ \A b \in Callers : Closing(b, n) => b = c
            BY <2>1, <2>2 DEF Owned, Closing
        <3>2. link'[n] = "closed" /\ ~Closing(c, n)'
            BY <1>0, <2>1, <2>2 DEF Closing
        <3>3. QED
            BY <2>1, <3>1, <3>2 DEF Owned
    <2>3. CASE got[c] # n
        <3>1. link'[n] = link[n] /\ ~Closing(c, n) /\ ~Closing(c, n)'
            BY <1>0, <2>1, <2>3 DEF Closing
        <3>2. QED
            BY <1>1, <2>1, <3>1
    <2>4. QED
        BY <2>2, <2>3
<1>7. ASSUME NEW c \in Callers,
             \/ \E name \in Names : SubscribeBegin(c, name)
             \/ \E q \in Reg : UnsubscribeBegin(c, q)
             \/ SubscribeOk(c) \/ SubscribeFails(c) \/ UnsubscribeEnd(c)
             \/ SendBegin(c) \/ SendEnd(c)
      PROVE  Owned(n)'
    <2>1. /\ session' = session /\ link' = link
          /\ pc[c] \in {"idle", "subscribe", "unsubscribe", "send"}
          /\ pc'[c] \in {"idle", "subscribe", "unsubscribe", "send"}
          /\ \A b \in Callers \ {c} : pc'[b] = pc[b] /\ got'[b] = got[b]
        BY <1>0, <1>7 DEF SubscribeBegin, UnsubscribeBegin, SubscribeOk,
           SubscribeFails, UnsubscribeEnd, SendBegin, SendEnd, Go, busVars,
           sessionVars
    <2>2. \A b \in Callers : Closing(b, n)' <=> Closing(b, n)
        BY <2>1 DEF Closing
    <2>3. QED
        BY <1>1, <2>1, <2>2
<1>8. ASSUME NEW m \in Session, Lose(m) \/ \E d \in Dest : ReaderEnd(m, d)
      PROVE  Owned(n)'
    BY <1>0, <1>1, <1>8 DEF Lose, ReaderEnd, Closing, busVars, callVars
<1>9. CASE UNCHANGED vars
    BY <1>1, <1>9 DEF vars, busVars, sessionVars, callVars, Closing
<1>10. QED
    BY <1>2, <1>3, <1>4, <1>5, <1>6, <1>7, <1>8, <1>9 DEF Next, Begin, Continue

OwnedInv == TypeInv /\ DialInv /\ \A n \in 1 .. nses : Owned(n)

LEMMA OwnedInvStep == OwnedInv /\ [Next]_vars => OwnedInv'
<1> SUFFICES ASSUME OwnedInv, [Next]_vars PROVE OwnedInv'
    OBVIOUS
<1>1. TypeInv /\ DialInv
    BY DEF OwnedInv
<1>2. TypeInv' /\ DialInv'
    BY <1>1, TypeInvStep, DialInvStep
<1>3. ASSUME NEW n \in 1 .. nses PROVE Owned(n)'
    BY <1>1, <1>3, OwnedStep DEF OwnedInv
<1>4. nses \in Nat
    BY <1>1, FieldbusAssumption DEF TypeInv, TypeOK, Session
<1>5. CASE nses' = nses
    BY <1>2, <1>3, <1>5 DEF OwnedInv
<1>6. CASE nses' # nses
    <2>1. PICK c \in Callers : ConnectOk(c)
        BY <1>6 DEF Next, Begin, Continue, ConnectBegin, ConnectFails,
           DisconnectBegin, RouterClear, RouterWait, ConnDisconnect,
           SubscribeBegin, SubscribeOk, SubscribeFails, UnsubscribeBegin,
           UnsubscribeEnd, SendBegin, SendEnd, Lose, ReaderEnd, vars,
           sessionVars
    <2>2. PICK m \in Nat : m = nses + 1
        BY <1>4
    <2>3. nses' = m /\ session' = m
        BY <2>1, <2>2 DEF ConnectOk
    <2>4. m \in Session
        BY <1>4, <2>1, <2>2, FieldbusAssumption DEF ConnectOk, Session
    <2>5. link'[m] = "up"
        BY <1>1, <2>1, <2>2, <2>4 DEF ConnectOk, TypeInv, TypeOK
    <2>6. \A b \in Callers : got'[b] \in Nat /\ got'[b] <= nses
        BY <1>1, <2>1, FieldbusAssumption
        DEF ConnectOk, DialInv, TypeInv, TypeOK, Session, NoSession
    <2>7. \A b \in Callers : got'[b] # m
        BY <1>4, <2>2, <2>6
    <2>8. Owned(m)'
        BY <2>3, <2>5, <2>7 DEF Owned, Closing
    <2>9. \A n \in 1 .. nses' : n \in 1 .. nses \/ n = m
        BY <1>4, <2>2, <2>3
    <2>10. \A n \in 1 .. nses' : Owned(n)'
        BY <1>3, <2>8, <2>9
    <2>11. QED
        BY <1>2, <2>10 DEF OwnedInv
<1>7. QED
    BY <1>5, <1>6

\* A session is held by the bus or by the one Disconnect that will close it,
\* until it is closed.
THEOREM EverySessionOwned == Spec => []SessionOwned
<1>1. Init => OwnedInv
    <2> SUFFICES ASSUME Init PROVE OwnedInv
        OBVIOUS
    <2>1. DialInv
        BY DEF Init, DialInv, NoSession
    <2>2. \A n \in 1 .. nses : Owned(n)
        BY DEF Init
    <2>3. QED
        BY <2>1, <2>2, TypeInvInit DEF OwnedInv
<1>2. OwnedInv => SessionOwned
    BY DEF OwnedInv, DialInv, Owned, SessionOwned
<1>3. QED
    BY <1>1, <1>2, OwnedInvStep, PTL DEF Spec
=============================================================================

-------------------------- MODULE ErrorChanProofs ---------------------------
(***************************************************************************)
(* What ErrorChan promises, for any number of publishers and any buffer.   *)
(***************************************************************************)
EXTENDS ErrorChan, FiniteSetTheorems, TLAPS

(***************************************************************************)
(* Why a call that gives up was outpaced.  A send fails only on a full     *)
(* buffer, and the discard that follows leaves room, so between two failed *)
(* sends of one call somebody else has queued an error: after i retries    *)
(* at least i errors, or i - 1 and there is room now.                      *)
(***************************************************************************)
Outpaced(p) ==
    /\ sent >= born[p]
    /\ pc[p] = "idle" => i[p] = 0
    /\ pc[p] = "send" =>
          /\ sent + 1 >= born[p] + i[p]
          /\ sent >= born[p] + i[p] \/ Len(errs) < ErrorChanBuffer
    /\ pc[p] = "discard" => sent >= born[p] + i[p]
    /\ pc[p] = "gaveup" => sent >= born[p] + ErrorChanBuffer

OutpacedInv == TypeOK /\ \A p \in Publishers : Outpaced(p)

\* What the discard of publishErr leaves in the channel.
LEMMA DropOldestProperties ==
    ASSUME NEW q \in Seq(Nat)
    PROVE  /\ DropOldest(q) \in Seq(Nat)
           /\ Len(DropOldest(q)) = IF q = <<>> THEN 0 ELSE Len(q) - 1
           /\ \A k \in 1 .. Len(DropOldest(q)) : DropOldest(q)[k] = q[k + 1]
BY DEF DropOldest

\* A discard leaves room in the channel.
LEMMA DiscardLeavesRoom ==
    ASSUME TypeOK, NEW p \in Publishers, Discard(p)
    PROVE  /\ errs' \in Seq(Nat)
           /\ Len(errs') < ErrorChanBuffer
           /\ Len(errs') <= Len(errs)
<1>1. errs \in Seq(Nat) /\ Len(errs) <= ErrorChanBuffer
    BY DEF TypeOK
<1>2. errs' = DropOldest(errs)
    BY DEF Discard
<1>3. Len(errs') = IF errs = <<>> THEN 0 ELSE Len(errs) - 1
    BY <1>1, <1>2, DropOldestProperties
<1>4. QED
    BY <1>1, <1>2, <1>3, DropOldestProperties, ErrorChanAssumption

LEMMA TypeOKInit == Init => TypeOK
<1> SUFFICES ASSUME Init PROVE TypeOK
    OBVIOUS
<1> USE ErrorChanAssumption DEF Init
<1>1. errs \in Seq(Nat) /\ Len(errs) <= ErrorChanBuffer
    OBVIOUS
<1>2. pc \in [Publishers -> {"idle", "send", "discard", "sent", "gaveup"}]
    OBVIOUS
<1>3. i \in [Publishers -> 0 .. ErrorChanBuffer]
    OBVIOUS
<1>4. born \in [Publishers -> Nat]
    OBVIOUS
<1>5. sent \in Nat /\ received \in Nat /\ overflowed \in BOOLEAN
    OBVIOUS
<1>6. QED
    BY <1>1, <1>2, <1>3, <1>4, <1>5 DEF TypeOK

\* publishErr keeps the channel within its buffer and its loop within its bound.
LEMMA TypeOKStep == TypeOK /\ [Next]_vars => TypeOK'
<1> SUFFICES ASSUME TypeOK, [Next]_vars PROVE TypeOK'
    OBVIOUS
<1> USE ErrorChanAssumption DEF TypeOK
<1>1. ASSUME NEW p \in Publishers, Begin(p) PROVE TypeOK'
    BY <1>1 DEF Begin
<1>2. ASSUME NEW p \in Publishers, Send(p) PROVE TypeOK'
    BY <1>2 DEF Send, Full
<1>3. ASSUME NEW p \in Publishers, SendFull(p) PROVE TypeOK'
    BY <1>3 DEF SendFull
<1>4. ASSUME NEW p \in Publishers, Discard(p) PROVE TypeOK'
    <2>1. errs' \in Seq(Nat) /\ Len(errs') <= ErrorChanBuffer
        BY <1>4, DiscardLeavesRoom
    <2>2. pc' \in [Publishers -> {"idle", "send", "discard", "sent", "gaveup"}]
        BY <1>4 DEF Discard
    <2>3. i' \in [Publishers -> 0 .. ErrorChanBuffer]
        <3>1. CASE LastTry(p)
            BY <1>4, <3>1 DEF Discard
        <3>2. CASE ~LastTry(p)
            <4>1. i[p] + 1 \in 0 .. ErrorChanBuffer
                BY <3>2 DEF LastTry
            <4>2. QED
                BY <1>4, <3>2, <4>1 DEF Discard
        <3>3. QED
            BY <3>1, <3>2
    <2>4. UNCHANGED <<sent, born, received, overflowed>>
        BY <1>4 DEF Discard
    <2>5. QED
        BY <2>1, <2>2, <2>3, <2>4
<1>5. CASE Receive
    BY <1>5 DEF Receive
<1>6. CASE UNCHANGED vars
    BY <1>6 DEF vars
<1>7. QED
    BY <1>1, <1>2, <1>3, <1>4, <1>5, <1>6 DEF Next, PublishStep

\* TypeOK holds in every state.
THEOREM TypeCorrect == Spec => []TypeOK
<1> QED
    BY TypeOKInit, TypeOKStep, PTL DEF Spec

LEMMA OutpacedStep == OutpacedInv /\ [Next]_vars => OutpacedInv'
<1> SUFFICES ASSUME OutpacedInv, [Next]_vars PROVE OutpacedInv'
    OBVIOUS
<1>0. TypeOK'
    BY TypeOKStep DEF OutpacedInv
<1> SUFFICES ASSUME NEW q \in Publishers PROVE Outpaced(q)'
    BY <1>0 DEF OutpacedInv
<1> USE ErrorChanAssumption DEF OutpacedInv, Outpaced, TypeOK
<1>1. ASSUME NEW p \in Publishers, Begin(p) PROVE Outpaced(q)'
    <2>1. i[q] \in Nat /\ pc[q] = "idle" => i[q] = 0
        OBVIOUS
    <2>2. CASE q = p
        BY <1>1, <2>1, <2>2 DEF Begin
    <2>3. CASE q # p
        BY <1>1, <2>3 DEF Begin
    <2>4. QED
        BY <2>2, <2>3
<1>2. ASSUME NEW p \in Publishers, Send(p) PROVE Outpaced(q)'
    BY <1>2 DEF Send
<1>3. ASSUME NEW p \in Publishers, SendFull(p) PROVE Outpaced(q)'
    BY <1>3 DEF SendFull, Full
<1>4. ASSUME NEW p \in Publishers, Discard(p) PROVE Outpaced(q)'
    <2>1. Len(errs') \in Nat /\ Len(errs') < ErrorChanBuffer
        BY <1>4, DiscardLeavesRoom
    <2>2. UNCHANGED <<sent, born>>
        BY <1>4 DEF Discard
    <2>3. CASE q # p
        BY <1>4, <2>1, <2>2, <2>3 DEF Discard
    <2>4. CASE q = p /\ LastTry(p)
        BY <1>4, <2>2, <2>4 DEF Discard, LastTry
    <2>5. CASE q = p /\ ~LastTry(p)
        BY <1>4, <2>1, <2>2, <2>5 DEF Discard
    <2>6. QED
        BY <2>3, <2>4, <2>5
<1>5. CASE Receive
    BY <1>5 DEF Receive
<1>6. CASE UNCHANGED vars
    BY <1>6 DEF vars
<1>7. QED
    BY <1>1, <1>2, <1>3, <1>4, <1>5, <1>6 DEF Next, PublishStep

\* A call of publishErr gives up only when a whole buffer of errors was queued
\* after it began.
THEOREM GivesUpOnlyOutpaced == Spec => []GaveUpOutpaced
<1>1. Init => OutpacedInv
    BY TypeOKInit DEF Init, OutpacedInv, Outpaced
<1>2. OutpacedInv => GaveUpOutpaced
    BY DEF OutpacedInv, Outpaced, GaveUpOutpaced
<1>3. QED
    BY <1>1, <1>2, OutpacedStep, PTL DEF Spec

-----------------------------------------------------------------------------
(***************************************************************************)
(* The channel always holds the most recent errors, in order.              *)
(***************************************************************************)

LEMMA MostRecentStep ==
    TypeOK /\ MostRecentKept /\ [Next]_vars => MostRecentKept'
<1> SUFFICES ASSUME TypeOK, MostRecentKept, [Next]_vars PROVE MostRecentKept'
    OBVIOUS
<1>0. errs \in Seq(Nat) /\ sent \in Nat
    BY DEF TypeOK
<1>1. ASSUME NEW p \in Publishers, Send(p) PROVE MostRecentKept'
    BY <1>0, <1>1 DEF Send, MostRecentKept
<1>2. ASSUME errs' = DropOldest(errs), sent' = sent PROVE MostRecentKept'
    <2>1. SUFFICES ASSUME NEW k \in 1 .. Len(DropOldest(errs))
                   PROVE  DropOldest(errs)[k] + Len(DropOldest(errs)) = sent + k
        BY <1>2 DEF MostRecentKept
    <2>3. errs # <<>> /\ Len(DropOldest(errs)) = Len(errs) - 1
        BY <1>0, DropOldestProperties
    <2>4. k + 1 \in 1 .. Len(errs) /\ errs[k + 1] \in Nat
        BY <1>0, <2>3
    <2>5. errs[k + 1] + Len(errs) = sent + k + 1
        BY <1>0, <2>4 DEF MostRecentKept
    <2>6. DropOldest(errs)[k] = errs[k + 1]
        BY <1>0, DropOldestProperties
    <2>7. k \in Nat /\ Len(errs) \in Nat
        BY <1>0, <2>3
    <2> DEFINE a == errs[k + 1]
               b == Len(errs)
    <2>8. /\ a \in Nat /\ b \in Nat /\ sent \in Nat /\ k \in Nat
          /\ a + b = sent + k + 1
        BY <1>0, <2>4, <2>5, <2>7
    <2> HIDE DEF a, b
    <2>9. a + (b - 1) = sent + k
        BY <2>8
    <2>10. QED
        BY <2>3, <2>6, <2>9, Zenon DEF a, b
<1>3. ASSUME Receive \/ \E p \in Publishers : Discard(p)
      PROVE  errs' = DropOldest(errs) /\ sent' = sent
    BY <1>3 DEF Receive, Discard, DropOldest
<1>4. CASE UNCHANGED <<errs, sent>>
    BY <1>4 DEF MostRecentKept
<1>5. QED
    BY <1>1, <1>2, <1>3, <1>4 DEF Next, PublishStep, Begin, SendFull, vars

\* Discarding and sending, however they interleave, leave the most recent
\* errors in the channel in the order in which they were queued.
THEOREM KeepsMostRecent == Spec => []MostRecentKept
<1>1. Init => MostRecentKept
    BY DEF Init, MostRecentKept
<1>2. QED
    BY <1>1, TypeCorrect, MostRecentStep, PTL DEF Spec

-----------------------------------------------------------------------------
(***************************************************************************)
(* What is lost.  Nothing before the first send that finds the buffer      *)
(* full.  After it, a publisher that takes an error out is retrying, and   *)
(* so about to put one in, or has given up: the sum in BurstObservable     *)
(* loses with the one summand what it gains with the other.                *)
(***************************************************************************)

DiscardsAfterOverflow ==
    \A p \in Publishers : pc[p] = "discard" => overflowed

LossInv ==
    /\ OutpacedInv
    /\ DiscardsAfterOverflow
    /\ NothingDroppedBeforeOverflow
    /\ BurstObservable

\* Both groups of publishers are finite.
LEMMA GroupsFinite ==
    /\ IsFiniteSet(Retrying) /\ Cardinality(Retrying) \in Nat
    /\ IsFiniteSet(GaveUp) /\ Cardinality(GaveUp) \in Nat
<1>1. Retrying \subseteq Publishers /\ GaveUp \subseteq Publishers
    BY DEF Retrying, GaveUp
<1>2. IsFiniteSet(Retrying) /\ IsFiniteSet(GaveUp)
    BY <1>1, FS_Subset, ErrorChanAssumption
<1>3. QED
    BY <1>2, FS_CardinalityType

LEMMA DiscardsAfterOverflowStep ==
    TypeOK /\ DiscardsAfterOverflow /\ [Next]_vars => DiscardsAfterOverflow'
<1> SUFFICES ASSUME TypeOK, DiscardsAfterOverflow, [Next]_vars,
                    NEW q \in Publishers, pc'[q] = "discard"
             PROVE  overflowed'
    BY DEF DiscardsAfterOverflow
<1> USE DEF TypeOK, DiscardsAfterOverflow
<1>1. ASSUME NEW p \in Publishers, Begin(p) \/ Send(p) PROVE overflowed'
    BY <1>1 DEF Begin, Send
<1>2. ASSUME NEW p \in Publishers, SendFull(p) PROVE overflowed'
    BY <1>2 DEF SendFull
<1>3. ASSUME NEW p \in Publishers, Discard(p) PROVE overflowed'
    BY <1>3 DEF Discard
<1>4. CASE Receive \/ UNCHANGED vars
    BY <1>4 DEF Receive, vars
<1>5. QED
    BY <1>1, <1>2, <1>3, <1>4 DEF Next, PublishStep

LEMMA NothingDroppedStep ==
    /\ TypeOK
    /\ DiscardsAfterOverflow
    /\ NothingDroppedBeforeOverflow
    /\ [Next]_vars
    => NothingDroppedBeforeOverflow'
<1> SUFFICES ASSUME TypeOK, DiscardsAfterOverflow,
                    NothingDroppedBeforeOverflow, [Next]_vars
             PROVE  NothingDroppedBeforeOverflow'
    OBVIOUS
<1>0. errs \in Seq(Nat) /\ sent \in Nat /\ received \in Nat
    BY DEF TypeOK
<1> USE <1>0 DEF NothingDroppedBeforeOverflow
<1>1. ASSUME NEW p \in Publishers, Begin(p) PROVE NothingDroppedBeforeOverflow'
    BY <1>1 DEF Begin
<1>2. ASSUME NEW p \in Publishers, Send(p) PROVE NothingDroppedBeforeOverflow'
    BY <1>2 DEF Send
<1>3. ASSUME NEW p \in Publishers, SendFull(p)
      PROVE  NothingDroppedBeforeOverflow'
    BY <1>3 DEF SendFull
<1>4. ASSUME NEW p \in Publishers, Discard(p)
      PROVE  NothingDroppedBeforeOverflow'
    BY <1>4 DEF Discard, DiscardsAfterOverflow
<1>5. CASE Receive
    BY <1>5 DEF Receive
<1>6. CASE UNCHANGED vars
    BY <1>6 DEF vars
<1>7. QED
    BY <1>1, <1>2, <1>3, <1>4, <1>5, <1>6 DEF Next, PublishStep

LEMMA BurstStep ==
    OutpacedInv /\ DiscardsAfterOverflow /\ BurstObservable /\ [Next]_vars
    => BurstObservable'
<1> SUFFICES ASSUME OutpacedInv, DiscardsAfterOverflow, BurstObservable,
                    [Next]_vars
             PROVE  BurstObservable'
    OBVIOUS
<1>0. /\ errs \in Seq(Nat) /\ received \in Nat
      /\ pc \in [Publishers -> {"idle", "send", "discard", "sent", "gaveup"}]
      /\ i \in [Publishers -> 0 .. ErrorChanBuffer]
      /\ ErrorChanBuffer \in Nat
    BY ErrorChanAssumption DEF OutpacedInv, TypeOK
<1>1. ASSUME NEW p \in Publishers, Begin(p) PROVE BurstObservable'
    <2>1. i[p] = 0
        BY <1>1 DEF Begin, OutpacedInv, Outpaced
    <2>2. Retrying' = Retrying
        BY <1>0, <1>1, <2>1 DEF Begin, Retrying
    <2>3. GaveUp' = GaveUp
        BY <1>0, <1>1 DEF Begin, GaveUp
    <2>4. QED
        BY <1>1, <2>2, <2>3 DEF Begin, BurstObservable
<1>2. ASSUME NEW p \in Publishers, Send(p) PROVE BurstObservable'
    <2>1. Retrying' = Retrying \ {p}
        BY <1>0, <1>2 DEF Send, Retrying
    <2>2. GaveUp' = GaveUp
        BY <1>0, <1>2 DEF Send, GaveUp
    <2>3. Cardinality(Retrying') + 1 >= Cardinality(Retrying)
        <3>1. Cardinality(Retrying \ {p}) = IF p \in Retrying
                                            THEN Cardinality(Retrying) - 1
                                            ELSE Cardinality(Retrying)
            BY GroupsFinite, FS_RemoveElement
        <3>2. QED
            BY <2>1, <3>1, GroupsFinite
    <2>4. Len(errs') = Len(errs) + 1 /\ received' = received
          /\ overflowed' = overflowed
        BY <1>0, <1>2 DEF Send
    <2>5. Cardinality(Retrying') \in Nat
        BY <2>1, GroupsFinite, FS_RemoveElement, FS_CardinalityType
    <2>6. QED
        BY <1>0, <2>2, <2>3, <2>4, <2>5, GroupsFinite DEF BurstObservable
<1>3. ASSUME NEW p \in Publishers, SendFull(p) PROVE BurstObservable'
    <2>1. Retrying' \subseteq Publishers /\ GaveUp' \subseteq Publishers
        BY DEF Retrying, GaveUp
    <2>2. Cardinality(Retrying') \in Nat /\ Cardinality(GaveUp') \in Nat
        BY <2>1, FS_Subset, FS_CardinalityType, ErrorChanAssumption
    <2>3. Len(errs') >= ErrorChanBuffer /\ received' = received
        BY <1>3 DEF SendFull, Full
    <2>4. Len(errs') \in Nat
        BY <1>0, <1>3 DEF SendFull
    <2>5. QED
        BY <1>0, <2>2, <2>3, <2>4 DEF BurstObservable
<1>4. ASSUME NEW p \in Publishers, Discard(p) PROVE BurstObservable'
    <2>1. /\ overflowed /\ received' = received
          /\ Len(errs') \in Nat /\ Len(errs') + 1 >= Len(errs)
        BY <1>0, <1>4, DropOldestProperties DEF Discard, DiscardsAfterOverflow
    <2>2. CASE LastTry(p)
        <3>1. Retrying' = Retrying
            BY <1>0, <1>4, <2>2 DEF Discard, Retrying
        <3>2. GaveUp' = GaveUp \cup {p} /\ p \notin GaveUp
            BY <1>0, <1>4, <2>2 DEF Discard, GaveUp
        <3>3. Cardinality(GaveUp') = Cardinality(GaveUp) + 1
            BY <3>2, GroupsFinite, FS_AddElement
        <3>4. QED
            BY <1>0, <2>1, <3>1, <3>3, GroupsFinite DEF BurstObservable
    <2>3. CASE ~LastTry(p)
        <3>1. i' = [i EXCEPT ![p] = @ + 1] /\ i'[p] > 0
            BY <1>0, <1>4, <2>3 DEF Discard
        <3>2. Retrying' = Retrying \cup {p} /\ p \notin Retrying
            BY <1>0, <1>4, <2>3, <3>1 DEF Discard, Retrying
        <3>3. Cardinality(Retrying') = Cardinality(Retrying) + 1
            BY <3>2, GroupsFinite, FS_AddElement
        <3>4. GaveUp' = GaveUp
            BY <1>0, <1>4, <2>3 DEF Discard, GaveUp
        <3>5. QED
            BY <1>0, <2>1, <3>3, <3>4, GroupsFinite DEF BurstObservable
    <2>4. QED
        BY <2>2, <2>3
<1>5. CASE Receive
    <2>1. received' + Len(errs') = received + Len(errs)
        BY <1>0, <1>5 DEF Receive
    <2>2. UNCHANGED <<pc, i, overflowed>>
        BY <1>5 DEF Receive
    <2>3. Retrying' = Retrying /\ GaveUp' = GaveUp
        BY <2>2 DEF Retrying, GaveUp
    <2>4. QED
        BY <2>1, <2>2, <2>3 DEF BurstObservable
<1>6. CASE UNCHANGED vars
    BY <1>6 DEF vars, BurstObservable, Retrying, GaveUp
<1>7. QED
    BY <1>1, <1>2, <1>3, <1>4, <1>5, <1>6 DEF Next, PublishStep

LEMMA LossInvariant == Spec => []LossInv
<1>1. Init => LossInv
    BY TypeOKInit DEF Init, LossInv, OutpacedInv, Outpaced,
       DiscardsAfterOverflow, NothingDroppedBeforeOverflow, BurstObservable
<1>2. LossInv /\ [Next]_vars => LossInv'
    BY OutpacedStep, DiscardsAfterOverflowStep, NothingDroppedStep, BurstStep
    DEF LossInv, OutpacedInv
<1>3. QED
    BY <1>1, <1>2, PTL DEF Spec

\* Until a send has found the buffer full, every error that was queued has been
\* received or is still queued.
THEOREM DropsNothingBeforeOverflow == Spec => []NothingDroppedBeforeOverflow
BY LossInvariant, PTL DEF LossInv

\* Once the buffer has overflowed, a bufferful of errors has been received or
\* is queued, but for those that retrying publishers are about to queue and
\* one for each that gave up.
THEOREM BurstStaysObservable == Spec => []BurstObservable
BY LossInvariant, PTL DEF LossInv
=============================================================================

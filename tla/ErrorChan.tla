----------------------------- MODULE ErrorChan ------------------------------
(***************************************************************************)
(* The channel behind Router.Errors() and publishErr, its only sender.     *)
(* Every reader goroutine that stops on its own calls publishErr once,     *)
(* possibly at the same moment as all the others (a lost connection), and  *)
(* a health monitor may receive at any time, or never.                     *)
(*                                                                         *)
(* A send or receive on the channel is atomic; publishErr is a loop of     *)
(* such steps, so the buffer it found full may be empty when it discards,  *)
(* and the room it made may be gone when it sends.                         *)
(***************************************************************************)
EXTENDS Naturals, Sequences, FiniteSets

CONSTANTS
    Publishers,       \* calls of publishErr
    ErrorChanBuffer   \* capacity of the channel, and the retries of the loop

ASSUME ErrorChanAssumption ==
    /\ IsFiniteSet(Publishers)
    /\ ErrorChanBuffer \in Nat \ {0}

VARIABLES
    errs,       \* the channel: which errors it holds, by their rank in sent
    pc,         \* where a call of publishErr is
    i,          \* its loop counter
    \* history
    sent,       \* how many errors were ever queued
    born,       \* sent, as it was when the call began
    received,   \* how many errors the monitor has received
    overflowed  \* has a send ever found the buffer full?

vars == <<errs, pc, i, sent, born, received, overflowed>>

\* Faulty: one more than the buffer holds.
FullLate == Len(errs) > ErrorChanBuffer

Full == Len(errs) >= ErrorChanBuffer

Init ==
    /\ errs = <<>>
    /\ pc = [p \in Publishers |-> "idle"]
    /\ i = [p \in Publishers |-> 0]
    /\ sent = 0
    /\ born = [p \in Publishers |-> 0]
    /\ received = 0
    /\ overflowed = FALSE

\* A reader goroutine calls publishErr.
Begin(p) ==
    /\ pc[p] = "idle"
    /\ pc' = [pc EXCEPT ![p] = "send"]
    /\ born' = [born EXCEPT ![p] = sent]
    /\ UNCHANGED <<errs, i, sent, received, overflowed>>

\* case r.errs <- err: return
Send(p) ==
    /\ pc[p] = "send"
    /\ ~Full
    /\ errs' = Append(errs, sent + 1)
    /\ sent' = sent + 1
    /\ pc' = [pc EXCEPT ![p] = "sent"]
    /\ UNCHANGED <<i, born, received, overflowed>>

\* ... default
SendFull(p) ==
    /\ pc[p] = "send"
    /\ Full
    /\ overflowed' = TRUE
    /\ pc' = [pc EXCEPT ![p] = "discard"]
    /\ UNCHANGED <<errs, i, sent, born, received>>

\* Faulty: the whole buffer is emptied to make room.
DropAll(q) == <<>>

\* Faulty: the error queued last makes room.
DropNewest(q) == IF q = <<>> THEN <<>> ELSE SubSeq(q, 1, Len(q) - 1)

\* case <-r.errs, or its default when a receiver was quicker
DropOldest(q) == IF q = <<>> THEN <<>> ELSE Tail(q)

\* Faulty: one retry less.
LastTryEarly(p) == i[p] + 1 = ErrorChanBuffer

\* The loop runs for i = 0 .. ErrorChanBuffer.
LastTry(p) == i[p] = ErrorChanBuffer

\* Discard the oldest; then the next iteration, or the end of the loop.
Discard(p) ==
    /\ pc[p] = "discard"
    /\ errs' = DropOldest(errs)
    /\ \/ /\ LastTry(p)
          /\ pc' = [pc EXCEPT ![p] = "gaveup"]
          /\ UNCHANGED i
       \/ /\ ~LastTry(p)
          /\ pc' = [pc EXCEPT ![p] = "send"]
          /\ i' = [i EXCEPT ![p] = @ + 1]
    /\ UNCHANGED <<sent, born, received, overflowed>>

\* The health monitor receives from Errors().
Receive ==
    /\ errs # <<>>
    /\ received' = received + 1
    /\ errs' = Tail(errs)
    /\ UNCHANGED <<pc, i, sent, born, overflowed>>

PublishStep(p) == Send(p) \/ SendFull(p) \/ Discard(p)

Next ==
    \/ \E p \in Publishers : Begin(p) \/ PublishStep(p)
    \/ Receive

Spec == Init /\ [][Next]_vars

-----------------------------------------------------------------------------
\* Publishers in their second or a later try: each has made room that it has
\* not used.
Retrying == {p \in Publishers : pc[p] = "send" /\ i[p] > 0}

GaveUp == {p \in Publishers : pc[p] = "gaveup"}

\* The channel never holds more than its buffer, and the loop counter of
\* publishErr stays within its bound.
TypeOK ==
    /\ errs \in Seq(Nat)
    /\ Len(errs) <= ErrorChanBuffer
    /\ pc \in [Publishers -> {"idle", "send", "discard", "sent", "gaveup"}]
    /\ i \in [Publishers -> 0 .. ErrorChanBuffer]
    /\ sent \in Nat
    /\ born \in [Publishers -> Nat]
    /\ received \in Nat
    /\ overflowed \in BOOLEAN

\* publishErr drops its own, newest error only when it is no longer the newest:
\* by the time its bounded loop gives up, at least a whole buffer of errors was
\* queued after the call began.
GaveUpOutpaced ==
    \A p \in Publishers :
        pc[p] = "gaveup" => sent >= born[p] + ErrorChanBuffer

\* "A subscription failure is observable": the errors that were received or are
\* still queued are, once the buffer has overflowed, as many as it holds, but
\* for one for each publisher that is about to fill the room that it made or
\* that gave up after making it.
BurstObservable ==
    overflowed =>
        received + Len(errs)
            + Cardinality(Retrying) + Cardinality(GaveUp) >= ErrorChanBuffer

\* "... without dropping any" (ErrorChanBuffer): until a send finds the buffer
\* full, every error that was ever sent is received or still queued.
NothingDroppedBeforeOverflow ==
    ~overflowed => sent = received + Len(errs)

\* "the oldest queued error is discarded": whatever races, the channel holds
\* the most recent errors in the order in which they were queued.
MostRecentKept ==
    \A k \in 1 .. Len(errs) : errs[k] + Len(errs) = sent + k
=============================================================================

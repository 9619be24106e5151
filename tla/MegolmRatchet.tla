---------------------------- MODULE MegolmRatchet ----------------------------
(***************************************************************************)
(* Two copies of one Megolm ratchet: the sender's, which src/megolm.c      *)
(* advances by one with every message, and a receiver's, which falls       *)
(* behind and is advanced to the sender's counter in one call.  Their      *)
(* counters wrap; sent and known count the same steps without wrapping.    *)
(***************************************************************************)
EXTENDS Megolm

CONSTANT MaxSteps   \* bound: steps the sender takes

ASSUME MaxStepsAssumption == MaxSteps \in Nat

VARIABLES
    sender,     \* the Megolm of the sender
    receiver,   \* the Megolm of the receiver
    sent,       \* how often the sender has advanced
    known       \* sent, when the receiver last caught up

vars == <<sender, receiver, sent, known>>

Init ==
    /\ sender = MegolmInit(RandomData, 0)
    /\ receiver = MegolmInit(RandomData, 0)
    /\ sent = 0
    /\ known = 0

(* The counters tell the two apart for less than a full round.             *)
Advance ==
    /\ sent < MaxSteps
    /\ sent - known < CounterRange - 1
    /\ sender' = MegolmAdvance(sender)
    /\ sent' = sent + 1
    /\ UNCHANGED <<receiver, known>>

CatchUp ==
    /\ receiver' = MegolmAdvanceTo(receiver, sender.counter)
    /\ known' = sent
    /\ UNCHANGED <<sender, sent>>

Next == Advance \/ CatchUp

Spec == Init /\ [][Next]_vars

-----------------------------------------------------------------------------
(* Stepping one by one goes through the ratchet values the documentation   *)
(* defines, through every carry between the parts and past the wrap of the *)
(* counter.                                                                *)
SenderFollowsDocument == sender = DocumentedRatchet(sent)

(* Jumping gets to the same values as stepping, from every counter to      *)
(* every other, also to a smaller one when the counter wrapped: otherwise  *)
(* a receiver who missed messages would never decrypt again.               *)
ReceiverFollowsDocument == receiver = DocumentedRatchet(known)

(* Neither a step nor a jump can be undone: who holds the ratchet after it *)
(* cannot compute the one before it, hence none before that.  A copy of it *)
(* shares the messages from its index onwards only.                        *)
NoWayBack ==
    [][/\ sender' # sender =>
            ~RatchetComputable(Range(sender'.data), sender.data)
       /\ receiver' # receiver =>
            ~RatchetComputable(Range(receiver'.data), receiver.data)]_vars
=============================================================================

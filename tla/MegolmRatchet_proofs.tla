------------------------ MODULE MegolmRatchet_proofs ------------------------
(***************************************************************************)
(* Theorems about the Megolm ratchet of a sender and of a receiver, for    *)
(* every number of parts, every PartRange and every bound on the           *)
(* messages: see Megolm_proofs for what they rest on.                      *)
(***************************************************************************)
EXTENDS MegolmRatchet, Megolm_proofs

(* The inductive invariant: both ratchets are the documented ones of       *)
(* their indices, and the receiver is less than a full round behind.       *)
IInv ==
    /\ sent \in Nat
    /\ known \in Nat
    /\ known <= sent
    /\ sent - known < CounterRange
    /\ SenderFollowsDocument
    /\ ReceiverFollowsDocument

(* Before the first message both hold the random data.                     *)
LEMMA InitIInv == Init => IInv
<1>1. CounterRange \in Nat \ {0}
  BY WeightProperties
<1> QED BY <1>1, DocumentedStart DEF Init, IInv, SenderFollowsDocument, ReceiverFollowsDocument

(* A step brings the sender to the next documented ratchet, and the        *)
(* receiver by one call of megolm_advance_to to the sender's.              *)
LEMMA NextIInv == IInv /\ [Next]_vars => IInv'
<1> SUFFICES ASSUME IInv, [Next]_vars PROVE IInv'
  OBVIOUS
<1>1. CounterRange \in Nat \ {0}
  BY WeightProperties
<1> USE DEF IInv
<1>2. CASE Advance
  <2>1. sender' = DocumentedRatchet(sent + 1)
    BY <1>2, AdvanceFollowsDocument DEF Advance, SenderFollowsDocument
  <2>2. SenderFollowsDocument'
    BY <1>2, <2>1 DEF Advance, SenderFollowsDocument
  <2>3. ReceiverFollowsDocument'
    BY <1>2 DEF Advance, ReceiverFollowsDocument
  <2> QED BY <1>1, <1>2, <2>2, <2>3 DEF Advance
<1>3. CASE CatchUp
  <2>1. MegolmAdvanceTo(DocumentedRatchet(known), sent % CounterRange) = DocumentedRatchet(sent)
    <3>1. sent < known + CounterRange
      BY <1>1
    <3> QED BY <3>1, AdvanceToFollowsDocument
  <2>2. sender.counter = sent % CounterRange
    BY DEF SenderFollowsDocument, DocumentedRatchet
  <2>3. ReceiverFollowsDocument'
    BY <1>3, <2>1, <2>2 DEF CatchUp, ReceiverFollowsDocument
  <2>4. SenderFollowsDocument'
    BY <1>3 DEF CatchUp, SenderFollowsDocument
  <2> QED BY <1>1, <1>3, <2>3, <2>4 DEF CatchUp
<1>4. CASE UNCHANGED vars
  BY <1>4 DEF vars, SenderFollowsDocument, ReceiverFollowsDocument
<1> QED BY <1>2, <1>3, <1>4 DEF Next

(* The invariant holds in every state.                                     *)
LEMMA Invariant == Spec => []IInv
<1> QED BY InitIInv, NextIInv, PTL DEF Spec

(* However many messages were sent, megolm_advance has produced the        *)
(* ratchet docs/megolm.md defines for that index, past any number of       *)
(* wraps of the counter.                                                   *)
THEOREM SpecSenderFollowsDocument == Spec => []SenderFollowsDocument
<1>1. IInv => SenderFollowsDocument
  BY DEF IInv
<1> QED BY <1>1, Invariant, PTL

(* A receiver that jumps with megolm_advance_to arrives at the ratchets    *)
(* the sender passed through step by step.                                 *)
THEOREM SpecReceiverFollowsDocument == Spec => []ReceiverFollowsDocument
<1>1. IInv => ReceiverFollowsDocument
  BY DEF IInv
<1> QED BY <1>1, Invariant, PTL

(* From the values of a later ratchet an earlier one cannot be computed.   *)
LEMMA LaterForgets ==
    ASSUME NEW i \in Nat, NEW m \in Nat, i < m
    PROVE  ~RatchetComputable(Range(DocumentedRatchet(m).data), DocumentedRatchet(i).data)
<1>1. DocumentedRatchet(m).data = Documented[m] /\ DocumentedRatchet(i).data = Documented[i]
  BY DEF DocumentedRatchet
<1>2. DOMAIN Documented[m] = Part
  BY DocumentedType
<1>3. \A v \in Range(Documented[m]) : \E k \in Part : v = Documented[m][k]
  BY <1>2 DEF Range
<1>4. ~RatchetComputable(Range(Documented[m]), Documented[i])
  BY <1>3, NotComputable
<1> QED BY <1>1, <1>4

(* No step of the sender or the receiver leaves values from which the      *)
(* ratchet it left could be computed again.                                *)
THEOREM SpecNoWayBack == Spec => NoWayBack
<1> DEFINE A == /\ sender' # sender =>
                      ~RatchetComputable(Range(sender'.data), sender.data)
                /\ receiver' # receiver =>
                      ~RatchetComputable(Range(receiver'.data), receiver.data)
<1>1. IInv /\ [Next]_vars => [A]_vars
  <2> SUFFICES ASSUME IInv, IInv', Next PROVE A
    BY NextIInv DEF vars
  <2>1. /\ sender = DocumentedRatchet(sent) /\ sender' = DocumentedRatchet(sent')
        /\ receiver = DocumentedRatchet(known) /\ receiver' = DocumentedRatchet(known')
        /\ sent \in Nat /\ sent' \in Nat /\ known \in Nat /\ known' \in Nat
        /\ known <= sent
    BY DEF IInv, SenderFollowsDocument, ReceiverFollowsDocument
  <2>2. CASE Advance
    <3>1. sent < sent' /\ receiver' = receiver
      BY <2>1, <2>2 DEF Advance
    <3> QED BY <2>1, <3>1, LaterForgets
  <2>3. CASE CatchUp
    <3>1. sender' = sender /\ known' = sent
      BY <2>3 DEF CatchUp
    <3>2. receiver' # receiver => known < known'
      BY <2>1, <3>1
    <3> QED BY <2>1, <3>1, <3>2, LaterForgets
  <2> QED BY <2>2, <2>3 DEF Next
<1>2. IInv /\ [Next]_vars /\ IInv' => [A]_vars
  BY <1>1
<1> QED BY <1>2, Invariant, PTL DEF Spec, NoWayBack
=============================================================================

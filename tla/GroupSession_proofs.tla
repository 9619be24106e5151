------------------------ MODULE GroupSession_proofs -------------------------
(***************************************************************************)
(* Theorems about the sender and a recipient of a Megolm session, for every*)
(* number of parts and every PartRange.  Types and what the sender         *)
(* forgets hold for any number of messages.  What a recipient decrypts     *)
(* needs MaxMessages <= HalfRange: _get_megolm tells a later index from an *)
(* earlier one by the sign of their difference, which half the range of    *)
(* the counter allows and no more: the message half the range ahead of a   *)
(* session that has decrypted nothing is refused.                          *)
(***************************************************************************)
EXTENDS GroupSession, Megolm_proofs

-----------------------------------------------------------------------------
(* The invariant and the values it speaks of.                              *)

(* The sender's ratchet follows the document, and so do the keys of its    *)
(* messages.                                                               *)
SentInv ==
    /\ Len(messages) \in 0 .. MaxMessages
    /\ outbound = DocumentedRatchet(Len(messages))
    /\ \A i \in DOMAIN messages :
          messages[i] = [message_index |-> (i - 1) % CounterRange,
                         key           |-> Documented[i - 1]]

(* Values that do not come from the sender's random data.                  *)
ForeignValue == {v \in HashValue : Len(v) >= 1 /\ v[1] \notin Part}

(* A ratchet that has nothing of the sender's.                             *)
Foreign(ratchet) == ratchet \in RatchetOf(ForeignValue)

(* The sender's ratchet before it encrypts message n (counted from 0).     *)
Own(ratchet, n) == ratchet = DocumentedRatchet(n)

(* A session cleared, or created from a damaged key or a made-up export:   *)
(* never verified.                                                         *)
ForeignSession(session) ==
    /\ Foreign(session.initial_ratchet)
    /\ Foreign(session.latest_ratchet)
    /\ ~session.signing_key_verified

(* A session of the sender's, known from a, last used at b.                *)
OwnSession(session, a, b) ==
    /\ a <= b
    /\ Own(session.initial_ratchet, a)
    /\ Own(session.latest_ratchet, b)
    /\ session.signing_key = SenderKey

(* What every session is: the sender's, at two indices the sender has      *)
(* reached, or one without any value of the sender's and without the       *)
(* flag.                                                                   *)
SessionInv(session) ==
    \/ ForeignSession(session)
    \/ \E a, b \in 0 .. Len(messages) : OwnSession(session, a, b)

(* What was exported is a ratchet of the sender's or has nothing of it.    *)
ExportInv ==
    Foreign(exported) \/ \E e \in 0 .. Len(messages) : Own(exported, e)

(* What types need: the part of the invariant that holds however many      *)
(* messages are sent.                                                      *)
TypeInv == SentInv /\ TypeOK

(* The inductive invariant.                                                *)
IInv ==
    /\ TypeInv
    /\ SessionInv(inbound)
    /\ SessionInv(pickled)
    /\ ExportInv

-----------------------------------------------------------------------------
(* The numbers of the counter.                                             *)
LEMMA Ranges ==
    /\ CounterRange \in Nat \ {0, 1}
    /\ HalfRange \in Nat \ {0}
    /\ HalfRange < CounterRange
    /\ HalfRange + HalfRange <= CounterRange
    /\ \A n \in 0 .. HalfRange : n % CounterRange = n /\ n \in Counter
<1>1. CounterRange = PartRange * Weight(0) /\ Weight(0) \in Nat \ {0}
      /\ PartRange \in Nat \ {0, 1} /\ CounterRange \in Nat \ {0}
  BY WeightProperties, PartRangeAssumption
<1>2. CounterRange # 1
  <2> DEFINE w == Weight(0)
             c == CounterRange
  <2>1. c = PartRange * w /\ w \in Nat \ {0} /\ PartRange \in Nat \ {0, 1}
    BY <1>1
  <2> HIDE DEF c, w
  <2> QED BY <2>1 DEF c
<1> DEFINE c == CounterRange
<1>3. c \in Nat \ {0, 1} /\ HalfRange = c \div 2
  BY <1>1, <1>2 DEF HalfRange
<1> HIDE DEF c
<1>4. HalfRange \in Nat \ {0} /\ HalfRange < c /\ HalfRange + HalfRange <= c
  BY <1>3
<1>5. ASSUME NEW n \in 0 .. HalfRange PROVE n % c = n /\ n \in 0 .. c - 1
  BY <1>3, <1>4
<1> QED BY <1>3, <1>4, <1>5 DEF c, Counter

(* The distance tells a later index from an earlier one, as long as fewer  *)
(* messages than half the range are in flight.                             *)
LEMMA AheadIs ==
    ASSUME NEW m \in 0 .. HalfRange, NEW b \in 0 .. HalfRange
    PROVE  /\ m < b => ~(Ahead(m, b) < HalfRange)
           /\ b <= m => Ahead(m, b) = m - b
<1> DEFINE c == CounterRange
           h == HalfRange
<1>1. c \in Nat \ {0, 1} /\ h \in Nat \ {0} /\ h < c /\ h + h <= c
  BY Ranges
<1>2. m \in 0 .. h /\ b \in 0 .. h
  OBVIOUS
<1> HIDE DEF c, h
<1>3. ASSUME b <= m PROVE (m - b) % c = m - b
  BY <1>1, <1>2, <1>3
<1>4. ASSUME m < b PROVE ~((m - b) % c < h)
  <2> DEFINE r == (m - b) + c
  <2>1. r \in Nat /\ r < c /\ ~(r < h) /\ m - b = c * (-1) + r
    BY <1>1, <1>2, <1>4
  <2> HIDE DEF r
  <2>2. (c * (-1) + r) % c = r
    <3>1. -1 \in Int
      OBVIOUS
    <3> QED BY <1>1, <2>1, <3>1, DivisionIs
  <2> QED BY <2>1, <2>2
<1> QED BY <1>3, <1>4 DEF Ahead, c, h

(* The documented ratchets have the types of the model.                    *)
LEMMA PartsAreValues ==
    /\ \A n \in Nat : Documented[n] \in [Part -> HashValue]
    /\ \A n \in Nat : DocumentedRatchet(n) \in MegolmState
    /\ RandomData \in [Part -> HashValue]
    /\ Closed(0 .. 2 * MEGOLM_RATCHET_PARTS, HashValue)
    /\ MegolmState = RatchetOf(HashValue)
<1>1. MEGOLM_RATCHET_PARTS \in Nat \ {0} /\ CounterRange \in Nat \ {0}
  BY PartsAssumption, WeightProperties
<1>2. Part \subseteq 0 .. 2 * MEGOLM_RATCHET_PARTS
  BY <1>1 DEF Part
<1>3. Seq(Part) \subseteq HashValue
  <2> DEFINE S == 0 .. 2 * MEGOLM_RATCHET_PARTS
  <2>1. Part \subseteq S /\ HashValue = Seq(S)
    BY <1>2 DEF HashValue
  <2> HIDE DEF S
  <2> SUFFICES ASSUME NEW v \in Seq(Part) PROVE v \in Seq(S)
    BY <2>1
  <2>2. v \in [1 .. Len(v) -> S] /\ Len(v) \in Nat
    BY <2>1
  <2> QED BY <2>2
<1>4. \A n \in Nat : Documented[n] \in [Part -> HashValue]
  BY <1>3, DocumentedType
<1>5. \A n \in Nat : n % CounterRange \in Counter
  BY <1>1, DivisionOf DEF Counter
<1>6. Closed(0 .. 2 * MEGOLM_RATCHET_PARTS, HashValue)
  BY <1>2 DEF Closed, HashValue
<1>7. RandomData \in [Part -> HashValue]
  <2>1. \A j \in Part : <<j>> \in Seq(Part)
    OBVIOUS
  <2> QED BY <1>3, <2>1 DEF RandomData
<1> QED BY <1>4, <1>5, <1>6, <1>7 DEF DocumentedRatchet, MegolmState, RatchetOf

(* Foreign values hash to foreign values, and foreign ratchets are typed.  *)
LEMMA ForeignClosed ==
    /\ Closed(0 .. 2 * MEGOLM_RATCHET_PARTS, ForeignValue)
    /\ ForeignValue \subseteq HashValue
    /\ \A ratchet : Foreign(ratchet) => ratchet \in MegolmState
    /\ \A counter \in Counter : Foreign(MegolmInit(OtherData, counter))
<1> DEFINE S == 0 .. 2 * MEGOLM_RATCHET_PARTS
<1>1. Part \subseteq S /\ \A v \in HashValue : \A j \in Part : Append(v, j) \in HashValue
  BY PartsAreValues DEF Closed
<1>2. HashValue = Seq(S)
  BY DEF HashValue
<1>3. ASSUME NEW v \in ForeignValue, NEW j \in Part PROVE Append(v, j) \in ForeignValue
  <2>1. v \in Seq(S) /\ Len(v) >= 1 /\ v[1] \notin Part /\ j \in S
    BY <1>1, <1>2 DEF ForeignValue
  <2>2. /\ Append(v, j) \in Seq(S) /\ Len(Append(v, j)) = Len(v) + 1 /\ Len(v) \in Nat
        /\ Append(v, j)[1] = v[1]
    <3> HIDE DEF S
    <3> QED BY <2>1
  <2> DEFINE u == Append(v, j)
  <2>3. u \in HashValue /\ Len(u) >= 1 /\ u[1] \notin Part
    BY <1>2, <2>1, <2>2
  <2> HIDE DEF u
  <2>4. u \in ForeignValue
    BY <2>3 DEF ForeignValue
  <2> QED BY <2>4 DEF u
<1>4. ForeignValue \subseteq HashValue
  BY DEF ForeignValue
<1>5. Closed(S, ForeignValue)
  BY <1>1, <1>2, <1>3, <1>4 DEF Closed
<1>6. ASSUME NEW j \in Part PROVE <<MEGOLM_RATCHET_PARTS + j>> \in ForeignValue
  <2>1. MEGOLM_RATCHET_PARTS + j \in S /\ MEGOLM_RATCHET_PARTS + j \notin Part
    BY PartsAssumption DEF Part
  <2> DEFINE x == MEGOLM_RATCHET_PARTS + j
  <2> HIDE DEF x, S
  <2>2. x \in S /\ x \notin Part
    BY <2>1 DEF x
  <2>3. <<x>> \in Seq(S) /\ Len(<<x>>) = 1 /\ <<x>>[1] = x
    BY <2>2
  <2> QED BY <1>2, <2>2, <2>3 DEF ForeignValue, x
<1>7. OtherData \in [Part -> ForeignValue]
  BY <1>6 DEF OtherData
<1>8. \A counter \in Counter : MegolmInit(OtherData, counter) \in RatchetOf(ForeignValue)
  BY <1>7 DEF MegolmInit, RatchetOf
<1>9. RatchetOf(ForeignValue) \subseteq MegolmState
  BY <1>4 DEF RatchetOf, MegolmState
<1> HIDE DEF S
<1> QED BY <1>4, <1>5, <1>8, <1>9 DEF Foreign, S

(* No key of the sender's is foreign, nor can it be computed from what is. *)
LEMMA ForeignIsNot ==
    ASSUME NEW n \in Nat
    PROVE  /\ \A ratchet : Foreign(ratchet) => ratchet.data # Documented[n]
           /\ \A known : known \subseteq ForeignValue => ~RatchetComputable(known, Documented[n])
<1>1. 0 \in Part /\ Documented[n] \in [Part -> Seq(Part)]
  BY WeightProperties, DocumentedType
<1>2. Documented[n][0] \in Seq(Part) /\ Documented[n][0] \in HashValue
  BY <1>1, PartsAreValues
<1>3. ASSUME NEW v \in ForeignValue PROVE ~IsPrefix(v, Documented[n][0])
  <2> DEFINE d == Documented[n][0]
  <2>1. d \in Seq(Part) /\ d \in HashValue /\ v \in HashValue
    BY <1>2 DEF ForeignValue
  <2>2. Len(v) >= 1 /\ v[1] \notin Part
    BY DEF ForeignValue
  <2> HIDE DEF d
  <2> SUFFICES ASSUME IsPrefix(v, d) PROVE FALSE
    BY DEF d
  <2>3. Len(v) <= Len(d) /\ \A i \in 1 .. Len(v) : v[i] = d[i]
    BY <2>1, PrefixElements DEF HashValue
  <2>4. Len(v) \in Nat /\ Len(d) \in Nat
    BY <2>1 DEF HashValue
  <2>5. 1 \in 1 .. Len(v) /\ 1 \in 1 .. Len(d)
    BY <2>2, <2>3, <2>4
  <2>6. d[1] \in Part
    BY <2>1, <2>5
  <2> QED BY <2>2, <2>3, <2>5, <2>6
<1>4. \A known : known \subseteq ForeignValue => ~RatchetComputable(known, Documented[n])
  BY <1>1, <1>3, Zenon DEF RatchetComputable, HashableFrom
<1>5. ASSUME NEW ratchet, Foreign(ratchet), ratchet.data = Documented[n] PROVE FALSE
  <2>1. Documented[n][0] \in ForeignValue
    BY <1>1, <1>5 DEF Foreign, RatchetOf
  <2>2. IsPrefix(Documented[n][0], Documented[n][0])
    <3> DEFINE d == Documented[n][0]
    <3>1. d \in Seq(Part)
      BY <1>2
    <3> HIDE DEF d
    <3>2. IsPrefix(d, d)
      <4>1. Len(d) <= Len(d)
        BY <3>1
      <4> QED BY <3>1, <4>1, PrefixElements
    <3> QED BY <3>2 DEF d
  <2> QED BY <1>3, <2>1, <2>2
<1> QED BY <1>4, <1>5

-----------------------------------------------------------------------------
(* Keys and types.                                                         *)

(* The session keys the application may have got are ratchets of the       *)
(* document, up to the sender's own.                                       *)
LEMMA SharedKeysAre ==
    ASSUME TypeInv
    PROVE  SharedKeys = {[counter |-> n % CounterRange, data |-> Documented[n], signed |-> TRUE] :
                            n \in 0 .. Len(messages)}
<1> DEFINE Key(n) == [counter |-> n % CounterRange, data |-> Documented[n], signed |-> TRUE]
           L == Len(messages)
<1>1. L \in Nat /\ SessionKey(outbound) = Key(L)
  BY DEF TypeInv, SentInv, SessionKey, DocumentedRatchet
<1>2. DOMAIN messages = 1 .. L
  BY DEF TypeInv, TypeOK
<1>3. ASSUME NEW i \in 1 .. L
      PROVE  [counter |-> messages[i].message_index, data |-> messages[i].key,
              signed |-> TRUE] = Key(i - 1)
  <2>1. messages[i] = [message_index |-> (i - 1) % CounterRange,
                       key |-> Documented[i - 1]]
    BY <1>2 DEF TypeInv, SentInv
  <2> QED BY <2>1
<1> HIDE DEF Key, L
<1>4. SharedKeys = {Key(i - 1) : i \in 1 .. L} \cup {Key(L)}
  BY <1>1, <1>2, <1>3, Zenon DEF SharedKeys
<1>5. {Key(i - 1) : i \in 1 .. L} \cup {Key(L)} = {Key(n) : n \in 0 .. L}
  <2>1. ASSUME NEW n \in 0 .. L PROVE Key(n) \in {Key(i - 1) : i \in 1 .. L} \cup {Key(L)}
    <3>1. CASE n = L
      BY <3>1
    <3>2. CASE n # L
      <4>1. n + 1 \in 1 .. L /\ (n + 1) - 1 = n
        BY <1>1, <3>2
      <4> QED BY <4>1
    <3> QED BY <3>1, <3>2
  <2>2. \A i \in 1 .. L : i - 1 \in 0 .. L
    BY <1>1
  <2>3. L \in 0 .. L
    BY <1>1
  <2> QED BY <2>1, <2>2, <2>3
<1> QED BY <1>4, <1>5 DEF Key, L

(* What _get_megolm does to the types.                                     *)
LEMMA TypesOfGet ==
    ASSUME NEW session \in InboundGroupSession, NEW index \in Counter
    PROVE  /\ GetMegolm(session, index) \in MegolmState
           /\ AfterGetMegolm(session, index) \in InboundGroupSession
           /\ AfterGetMegolm(session, index).signing_key = session.signing_key
           /\ AfterGetMegolm(session, index).signing_key_verified
                = session.signing_key_verified
           /\ AfterGetMegolm(session, index).initial_ratchet = session.initial_ratchet
<1>1. session.latest_ratchet \in RatchetOf(HashValue)
      /\ session.initial_ratchet \in RatchetOf(HashValue)
  BY PartsAreValues DEF InboundGroupSession
<1>2. GetMegolm(session, index) \in MegolmState
  BY <1>1, PartsAreValues, AdvanceToStays DEF GetMegolm
<1> QED BY <1>2 DEF AfterGetMegolm, InboundGroupSession

(* What taking over a key does to them.                                    *)
LEMMA TypesOfKeys ==
    ASSUME NEW session \in InboundGroupSession, NEW key, MegolmInit(key.data, key.counter) \in MegolmState,
           NEW export_format \in BOOLEAN, key.signed \in BOOLEAN \/ export_format
    PROVE  /\ InitGroupSessionKeys(session, key, export_format) \in InboundGroupSession
           /\ InitGroupSessionKeys(session, key, export_format).signing_key = SenderKey
  BY DEF InitGroupSessionKeys, InboundGroupSession

(* What olm_group_decrypt does to them.                                    *)
LEMMA TypesOfDecrypt ==
    ASSUME NEW session \in InboundGroupSession, NEW message, message.message_index \in Counter
    PROVE  /\ AfterDecrypt(session, message) \in InboundGroupSession
           /\ AfterDecrypt(session, message).signing_key = session.signing_key
           /\ AfterDecrypt(session, message) # session => session.signing_key = SenderKey
<1> DEFINE after == AfterGetMegolm(session, message.message_index)
<1>1. /\ after \in InboundGroupSession
      /\ after.signing_key = session.signing_key
  BY TypesOfGet
<1>2. Verifies(session, message) \in BOOLEAN
  BY DEF Verifies
<1> HIDE DEF after
<1> QED BY <1>1, <1>2, Zenon DEF AfterDecrypt, InboundGroupSession, after

-----------------------------------------------------------------------------
(* Type correctness, and the sender.                                       *)

(* A cleared session and what was not made by the sender are foreign.      *)
LEMMA ClearedIs ==
    /\ Cleared \in InboundGroupSession
    /\ ForeignSession(Cleared)
    /\ Cleared.signing_key = NoKey
    /\ Foreign(MadeUpExport)
    /\ MadeUpExport = MegolmInit(OtherData, 0)
    /\ MegolmInit(DamagedKey.data, DamagedKey.counter) = MegolmInit(OtherData, 0)
<1>1. 0 \in Counter
  BY WeightProperties DEF Counter
<1>2. Foreign(MegolmInit(OtherData, 0)) /\ MegolmInit(OtherData, 0) \in MegolmState
  BY <1>1, ForeignClosed
<1>3. MadeUpExport = MegolmInit(OtherData, 0)
  BY DEF MadeUpExport, MegolmInit
<1> QED BY <1>2, <1>3 DEF Cleared, InboundGroupSession, ForeignSession, DamagedKey

(* The types at first.                                                     *)
LEMMA InitTypeInv == Init => TypeInv
<1> SUFFICES ASSUME Init PROVE TypeInv
  OBVIOUS
<1>1. messages = <<>> /\ Len(messages) = 0 /\ DOMAIN messages = {}
  BY DEF Init
<1>2. SentInv
  BY <1>1, DocumentedStart, MaxMessagesAssumption DEF Init, SentInv
<1>3. outbound \in MegolmState
  BY <1>1, <1>2, PartsAreValues DEF SentInv
<1>4. exported \in MegolmState
  BY ClearedIs, ForeignClosed DEF Init
<1>5. ~Cleared.signing_key_verified
  BY DEF Cleared
<1>6. messages \in Seq([message_index : Counter, key : [Part -> HashValue]])
  BY <1>1
<1> QED BY <1>2, <1>3, <1>4, <1>5, <1>6, ClearedIs DEF Init, TypeInv, TypeOK

(* Encrypting takes the sender's ratchet to the next one, and the message  *)
(* has the key of the one before.                                          *)
LEMMA EncryptTypeInv ==
    ASSUME TypeInv, GroupEncrypt
    PROVE  TypeInv'
<1> DEFINE L == Len(messages)
           message == EncryptedMessage(outbound)
<1>0. messages \in Seq([message_index : Counter, key : [Part -> HashValue]])
  BY DEF TypeInv, TypeOK
<1>1. L \in Nat /\ L < MaxMessages /\ DOMAIN messages = 1 .. L
  BY <1>0 DEF TypeInv, SentInv, GroupEncrypt
<1>2. outbound = DocumentedRatchet(L) /\ outbound' = DocumentedRatchet(L + 1)
  BY <1>1, AdvanceFollowsDocument DEF TypeInv, SentInv, GroupEncrypt
<1>3. message = [message_index |-> L % CounterRange, key |-> Documented[L]]
  BY <1>2 DEF EncryptedMessage, DocumentedRatchet
<1>4. message \in [message_index : Counter, key : [Part -> HashValue]]
  <2>1. DocumentedRatchet(L) \in MegolmState
    BY <1>1, PartsAreValues
  <2> QED BY <1>3, <2>1 DEF DocumentedRatchet, MegolmState
<1>5. messages' = Append(messages, message)
  BY DEF GroupEncrypt
<1> HIDE DEF message
<1>6. /\ messages' \in Seq([message_index : Counter, key : [Part -> HashValue]])
      /\ Len(messages') = L + 1
      /\ \A i \in 1 .. L : messages'[i] = messages[i]
      /\ messages'[L + 1] = message
  BY <1>0, <1>4, <1>5
<1>7. DOMAIN messages' = 1 .. L + 1
  BY <1>6
<1>8. ASSUME NEW i \in 1 .. L + 1
      PROVE  messages'[i] = [message_index |-> (i - 1) % CounterRange,
                             key           |-> Documented[i - 1]]
  <2>1. CASE i = L + 1
    <3>1. i - 1 = L
      BY <1>1, <2>1
    <3> QED BY <1>3, <1>6, <2>1, <3>1
  <2>2. CASE i # L + 1
    <3>1. i \in 1 .. L
      BY <1>1, <2>2
    <3> QED BY <1>1, <1>6, <3>1 DEF TypeInv, SentInv
  <2> QED BY <2>1, <2>2
<1>9. SentInv'
  <2>1. L + 1 \in 0 .. MaxMessages
    BY <1>1, MaxMessagesAssumption
  <2> HIDE DEF L
  <2> QED BY <1>2, <1>6, <1>7, <1>8, <2>1 DEF SentInv
<1>10. outbound' \in MegolmState
  <2>1. L + 1 \in Nat
    BY <1>1
  <2> QED BY <1>2, <2>1, PartsAreValues
<1> HIDE DEF L
<1> QED BY <1>6, <1>9, <1>10 DEF TypeInv, TypeOK, GroupEncrypt

(* What the recipient does keeps the sender's part.                        *)
LEMMA RecipientTypeInv ==
    ASSUME TypeInv, UNCHANGED <<outbound, messages>>,
           inbound' \in InboundGroupSession, pickled' \in InboundGroupSession,
           exported' \in MegolmState,
           inbound'.signing_key = NoKey => ~inbound'.signing_key_verified
    PROVE  TypeInv'
  BY DEF TypeInv, SentInv, TypeOK

(* The messages are numbered from 0 and have the documented keys.          *)
LEMMA MessageIndexes ==
    ASSUME TypeInv
    PROVE  /\ DOMAIN messages = 1 .. Len(messages) /\ Len(messages) \in Nat
           /\ \A i \in DOMAIN messages :
                 /\ i - 1 \in 0 .. Len(messages) - 1
                 /\ messages[i].message_index = (i - 1) % CounterRange
                 /\ messages[i].key = Documented[i - 1]
           /\ \A n \in Nat : n % CounterRange \in Counter
<1>1. messages \in Seq([message_index : Counter, key : [Part -> HashValue]])
  BY DEF TypeInv, TypeOK
<1>2. CounterRange \in Nat \ {0}
  BY WeightProperties
<1>3. \A n \in Nat : n % CounterRange \in Counter
  BY <1>2, DivisionOf DEF Counter
<1>4. DOMAIN messages = 1 .. Len(messages) /\ Len(messages) \in Nat
  BY <1>1
<1>5. ASSUME NEW i \in DOMAIN messages
      PROVE  /\ i - 1 \in 0 .. Len(messages) - 1
             /\ messages[i].message_index = (i - 1) % CounterRange
             /\ messages[i].key = Documented[i - 1]
  <2>1. messages[i] = [message_index |-> (i - 1) % CounterRange, key |-> Documented[i - 1]]
    BY DEF TypeInv, SentInv
  <2>2. i - 1 \in 0 .. Len(messages) - 1
    BY <1>4
  <2> QED BY <2>1, <2>2
<1> QED BY <1>3, <1>4, <1>5

(* Whatever key is taken over, it is a ratchet.                            *)
LEMMA KeysTaken ==
    ASSUME TypeInv
    PROVE  /\ \A key \in SharedKeys :
                 \E n \in 0 .. Len(messages) : MegolmInit(key.data, key.counter) = DocumentedRatchet(n)
           /\ \A key \in SharedKeys : key.signed = TRUE
           /\ \A key \in SharedKeys \cup {DamagedKey} :
                 MegolmInit(key.data, key.counter) \in MegolmState /\ key.signed \in BOOLEAN
           /\ \A key \in {exported, MadeUpExport} :
                 MegolmInit(key.data, key.counter) = key /\ key \in MegolmState
<1>1. Len(messages) \in Nat
  BY MessageIndexes
<1>2. ASSUME NEW key \in SharedKeys
      PROVE  /\ \E n \in 0 .. Len(messages) : MegolmInit(key.data, key.counter) = DocumentedRatchet(n)
             /\ key.signed = TRUE
             /\ MegolmInit(key.data, key.counter) \in MegolmState
  <2>1. PICK n \in 0 .. Len(messages) :
          key = [counter |-> n % CounterRange, data |-> Documented[n], signed |-> TRUE]
    BY SharedKeysAre
  <2>2. MegolmInit(key.data, key.counter) = DocumentedRatchet(n) /\ key.signed = TRUE
    BY <2>1 DEF MegolmInit, DocumentedRatchet
  <2>3. DocumentedRatchet(n) \in MegolmState
    <3>1. n \in Nat
      BY <1>1
    <3> QED BY <3>1, PartsAreValues
  <2> QED BY <2>2, <2>3
<1>3. /\ MegolmInit(DamagedKey.data, DamagedKey.counter) \in MegolmState
      /\ DamagedKey.signed = FALSE
  BY ClearedIs, ForeignClosed DEF DamagedKey
<1>4. exported \in MegolmState /\ MadeUpExport \in MegolmState
  BY ClearedIs, ForeignClosed DEF TypeInv, TypeOK
<1>5. \A key \in MegolmState : MegolmInit(key.data, key.counter) = key
  BY DEF MegolmInit, MegolmState
<1> QED BY <1>2, <1>3, <1>4, <1>5

(* Decrypting and exporting keep the types.                                *)
LEMMA UseTypeInv ==
    ASSUME TypeInv, Use
    PROVE  TypeInv'
<1>0. inbound \in InboundGroupSession /\ pickled \in InboundGroupSession
      /\ exported \in MegolmState
      /\ (inbound.signing_key = NoKey => ~inbound.signing_key_verified)
  BY DEF TypeInv, TypeOK
<1>1. ASSUME NEW i \in DOMAIN messages, GroupDecrypt(messages[i]) PROVE TypeInv'
  <2>1. messages[i].message_index \in Counter
    BY MessageIndexes
  <2>2. /\ inbound' \in InboundGroupSession
        /\ inbound'.signing_key = inbound.signing_key
        /\ inbound' # inbound => inbound.signing_key = SenderKey
    BY <1>0, <1>1, <2>1, TypesOfDecrypt DEF GroupDecrypt
  <2>3. inbound'.signing_key = NoKey => ~inbound'.signing_key_verified
    BY <1>0, <2>2, KeysAssumption
  <2> QED BY <1>0, <1>1, <2>2, <2>3, RecipientTypeInv DEF GroupDecrypt
<1>2. ASSUME NEW i \in 0 .. Len(messages), Export(i % CounterRange) PROVE TypeInv'
  <2>1. i % CounterRange \in Counter
    BY MessageIndexes
  <2> DEFINE index == i % CounterRange
  <2> HIDE DEF index
  <2>2. /\ inbound' = AfterGetMegolm(inbound, index)
        /\ exported' = [counter |-> index, data |-> GetMegolm(inbound, index).data]
        /\ inbound.signing_key = SenderKey
        /\ UNCHANGED <<outbound, messages, pickled>>
    BY <1>2 DEF Export, index
  <2>3. /\ inbound' \in InboundGroupSession
        /\ inbound'.signing_key = SenderKey
    BY <1>0, <2>1, <2>2, TypesOfGet DEF index
  <2>4. exported' \in MegolmState
    <3>1. GetMegolm(inbound, index) \in MegolmState
      BY <1>0, <2>1, TypesOfGet DEF index
    <3> QED BY <2>1, <2>2, <3>1 DEF MegolmState, index
  <2> QED BY <1>0, <2>2, <2>3, <2>4, KeysAssumption, RecipientTypeInv
<1> QED BY <1>1, <1>2 DEF Use

(* So does every step.                                                     *)
LEMMA NextTypeInv == TypeInv /\ [Next]_vars => TypeInv'
<1> SUFFICES ASSUME TypeInv, [Next]_vars PROVE TypeInv'
  OBVIOUS
<1>0. inbound \in InboundGroupSession /\ pickled \in InboundGroupSession
      /\ exported \in MegolmState
      /\ (inbound.signing_key = NoKey => ~inbound.signing_key_verified)
  BY DEF TypeInv, TypeOK
<1>1. CASE GroupEncrypt
  BY <1>1, EncryptTypeInv
<1>2. ASSUME NEW key \in SharedKeys \cup {DamagedKey}, InitInbound(key) PROVE TypeInv'
  <2>1. /\ inbound' = InitGroupSessionKeys(inbound, key, FALSE)
        /\ UNCHANGED <<outbound, messages, pickled, exported>>
    BY <1>2 DEF InitInbound
  <2>2. MegolmInit(key.data, key.counter) \in MegolmState /\ key.signed \in BOOLEAN
    BY KeysTaken
  <2>3. inbound' \in InboundGroupSession /\ inbound'.signing_key = SenderKey
    BY <1>0, <2>1, <2>2, TypesOfKeys
  <2> QED BY <1>0, <2>1, <2>3, KeysAssumption, RecipientTypeInv
<1>3. ASSUME NEW key \in {exported, MadeUpExport}, Import(key) PROVE TypeInv'
  <2>1. /\ inbound' = InitGroupSessionKeys(inbound, key, TRUE)
        /\ UNCHANGED <<outbound, messages, pickled, exported>>
    BY <1>3 DEF Import
  <2>2. MegolmInit(key.data, key.counter) \in MegolmState
    BY KeysTaken
  <2>3. inbound' \in InboundGroupSession /\ inbound'.signing_key = SenderKey
    BY <1>0, <2>1, <2>2, TypesOfKeys
  <2> QED BY <1>0, <2>1, <2>3, KeysAssumption, RecipientTypeInv
<1>4. CASE Use
  BY <1>4, UseTypeInv
<1>5. CASE Clear
  <2>1. inbound' = Cleared /\ UNCHANGED <<outbound, messages, pickled, exported>>
    BY <1>5 DEF Clear
  <2>2. inbound' \in InboundGroupSession /\ ~inbound'.signing_key_verified
    BY <2>1, ClearedIs DEF Cleared
  <2> QED BY <1>0, <2>1, <2>2, RecipientTypeInv
<1>6. CASE Pickle
  BY <1>0, <1>6, RecipientTypeInv DEF Pickle
<1>7. ASSUME NEW version \in 1 .. 2, Unpickle(version) PROVE TypeInv'
  <2>1. /\ inbound' = Unpickled(version, pickled) /\ pickled.signing_key = SenderKey
        /\ UNCHANGED <<outbound, messages, pickled, exported>>
    BY <1>7 DEF Unpickle
  <2>2. inbound' \in InboundGroupSession /\ inbound'.signing_key = SenderKey
    BY <1>0, <2>1 DEF Unpickled, InboundGroupSession
  <2> QED BY <1>0, <2>1, <2>2, KeysAssumption, RecipientTypeInv
<1>8. CASE UNCHANGED vars
  BY <1>0, <1>8, RecipientTypeInv DEF vars
<1> QED BY <1>1, <1>2, <1>3, <1>4, <1>5, <1>6, <1>7, <1>8 DEF Next

(* The sender's part and the types hold in every state.                    *)
LEMMA Typing == Spec => []TypeInv
<1> QED BY InitTypeInv, NextTypeInv, PTL DEF Spec

(* Type correctness: every session, ratchet and message is one the         *)
(* program can hold, and a session without its key was never verified.     *)
THEOREM TypeCorrect == Spec => []TypeOK
<1>1. TypeInv => TypeOK
  BY DEF TypeInv
<1> QED BY <1>1, Typing, PTL

(* The sender cannot compute the key of any message it has encrypted,      *)
(* however many that were.                                                 *)
THEOREM SpecSenderForgets == Spec => []SenderForgets
<1>1. ASSUME TypeInv PROVE SenderForgets
  <2>1. Len(messages) \in Nat /\ outbound.data = Documented[Len(messages)]
    BY <1>1, MessageIndexes DEF TypeInv, SentInv, DocumentedRatchet
  <2>2. DOMAIN Documented[Len(messages)] = Part
    BY <2>1, DocumentedType
  <2>3. \A v \in Range(outbound.data) : \E k \in Part : v = Documented[Len(messages)][k]
    BY <2>1, <2>2 DEF Range
  <2>4. ASSUME NEW i \in DOMAIN messages
        PROVE  ~RatchetComputable(Range(outbound.data), messages[i].key)
    <3>1. i - 1 \in Nat /\ i - 1 < Len(messages) /\ messages[i].key = Documented[i - 1]
      <4>1. i - 1 \in 0 .. Len(messages) - 1 /\ messages[i].key = Documented[i - 1]
        BY <1>1, MessageIndexes
      <4> QED BY <2>1, <4>1
    <3> DEFINE n == i - 1
               L == Len(messages)
    <3>2. n \in Nat /\ n < L /\ L \in Nat
      BY <2>1, <3>1
    <3> HIDE DEF n, L
    <3>3. ~RatchetComputable(Range(outbound.data), Documented[n])
      BY <2>3, <3>2, NotComputable DEF L
    <3> QED BY <3>1, <3>3 DEF n
  <2> QED BY <2>4 DEF SenderForgets
<1> QED BY <1>1, Typing, PTL

-----------------------------------------------------------------------------
(* What a session decrypts.                                                *)

(* A session of the sender's finds, from its latest or else its initial    *)
(* ratchet, the ratchet of every index from its first one on, and none of  *)
(* the ones before.                                                        *)
LEMMA OwnGet ==
    ASSUME NEW a \in 0 .. HalfRange, NEW b \in 0 .. HalfRange, NEW m \in 0 .. HalfRange,
           NEW session, OwnSession(session, a, b)
    PROVE  /\ AtLatest(session, m) => b <= m
           /\ KnowsIndex(session, m) => a <= m
           /\ a <= m /\ m < HalfRange => KnowsIndex(session, m)
           /\ KnowsIndex(session, m) => GetMegolm(session, m) = DocumentedRatchet(m)
<1>1. HalfRange \in Nat \ {0} /\ CounterRange \in Nat /\ HalfRange < CounterRange
      /\ m % CounterRange = m
  BY Ranges
<1>2. /\ session.initial_ratchet = DocumentedRatchet(a)
      /\ session.latest_ratchet = DocumentedRatchet(b)
      /\ a <= b
  BY DEF OwnSession, Own
<1>3. session.initial_ratchet.counter = a /\ session.latest_ratchet.counter = b
  BY <1>2, Ranges DEF DocumentedRatchet
<1>4. AtLatest(session, m) <=> Ahead(m, b) < HalfRange
  BY <1>3 DEF AtLatest
<1>5. KnowsIndex(session, m) <=> AtLatest(session, m) \/ Ahead(m, a) < HalfRange
  BY <1>3 DEF KnowsIndex
<1>6. /\ m < b => ~(Ahead(m, b) < HalfRange)
      /\ b <= m => Ahead(m, b) = m - b
      /\ m < a => ~(Ahead(m, a) < HalfRange)
      /\ a <= m => Ahead(m, a) = m - a
  BY AheadIs
<1>7. AtLatest(session, m) => b <= m
  BY <1>4, <1>6
<1>8. KnowsIndex(session, m) => a <= m
  BY <1>2, <1>5, <1>6, <1>7
<1>9. a <= m /\ m < HalfRange => KnowsIndex(session, m)
  <2>1. m - a <= m
    OBVIOUS
  <2>2. ASSUME a <= m, m < HalfRange PROVE Ahead(m, a) < HalfRange
    BY <1>1, <1>6, <2>1, <2>2
  <2> QED BY <1>5, <2>2
<1>10. ASSUME AtLatest(session, m) PROVE GetMegolm(session, m) = DocumentedRatchet(m)
  <2>1. GetMegolm(session, m) = MegolmAdvanceTo(DocumentedRatchet(b), m % CounterRange)
    BY <1>1, <1>2, <1>10 DEF GetMegolm
  <2>2. b <= m /\ m < b + CounterRange /\ b \in Nat /\ m \in Nat
    BY <1>1, <1>7, <1>10
  <2> QED BY <2>1, <2>2, AdvanceToFollowsDocument
<1>11. ASSUME ~AtLatest(session, m), KnowsIndex(session, m)
       PROVE  GetMegolm(session, m) = DocumentedRatchet(m)
  <2>1. GetMegolm(session, m) = MegolmAdvanceTo(DocumentedRatchet(a), m % CounterRange)
    BY <1>1, <1>2, <1>11 DEF GetMegolm
  <2>2. a <= m /\ m < a + CounterRange /\ a \in Nat /\ m \in Nat
    BY <1>1, <1>8, <1>11
  <2> QED BY <2>1, <2>2, AdvanceToFollowsDocument
<1> QED BY <1>7, <1>8, <1>9, <1>10, <1>11

(* A session of the sender's that used an index stays one, and its latest  *)
(* ratchet is at that index or where it was.                               *)
LEMMA OwnAfter ==
    ASSUME NEW a \in 0 .. HalfRange, NEW b \in 0 .. HalfRange, NEW m \in 0 .. HalfRange,
           NEW session \in InboundGroupSession, OwnSession(session, a, b), KnowsIndex(session, m)
    PROVE  \E c \in {b, m} : OwnSession(AfterGetMegolm(session, m), a, c)
<1>1. CASE AtLatest(session, m)
  <2>1. AfterGetMegolm(session, m) =
          [session EXCEPT !.latest_ratchet = DocumentedRatchet(m)]
    BY <1>1, OwnGet DEF AfterGetMegolm
  <2>2. b <= m
    BY <1>1, OwnGet
  <2>3. OwnSession(AfterGetMegolm(session, m), a, m)
    <3>1. a <= m
      BY <2>2 DEF OwnSession
    <3> QED BY <2>1, <3>1 DEF OwnSession, Own, InboundGroupSession
  <2> QED BY <2>3
<1>2. CASE ~AtLatest(session, m)
  BY <1>2 DEF AfterGetMegolm
<1> QED BY <1>1, <1>2

(* A foreign session stays foreign, and decrypts no message of the sender's.*)
LEMMA ForeignAfter ==
    ASSUME NEW session \in InboundGroupSession, ForeignSession(session), NEW index \in Counter
    PROVE  /\ Foreign(GetMegolm(session, index))
           /\ ForeignSession(AfterGetMegolm(session, index))
<1>1. Foreign(GetMegolm(session, index))
  <2> DEFINE ratchet == IF AtLatest(session, index) THEN session.latest_ratchet
                                                    ELSE session.initial_ratchet
  <2>1. ratchet \in RatchetOf(ForeignValue)
    BY DEF ForeignSession, Foreign
  <2>2. GetMegolm(session, index) = MegolmAdvanceTo(ratchet, index)
    BY Zenon DEF GetMegolm
  <2> HIDE DEF ratchet
  <2> QED BY <2>1, <2>2, ForeignClosed, AdvanceToStays DEF Foreign
<1>2. ForeignSession(AfterGetMegolm(session, index))
  <2>1. CASE AtLatest(session, index)
    <3>1. AfterGetMegolm(session, index) =
            [session EXCEPT !.latest_ratchet = GetMegolm(session, index)]
      BY <2>1 DEF AfterGetMegolm
    <3> QED BY <1>1, <3>1 DEF ForeignSession, InboundGroupSession
  <2>2. CASE ~AtLatest(session, index)
    BY <2>2 DEF AfterGetMegolm
  <2> QED BY <2>1, <2>2
<1> QED BY <1>1, <1>2

(* Decrypting message n (counted from 0).                                  *)
LEMMA DecryptsIs ==
    ASSUME NEW session \in InboundGroupSession, NEW n \in 0 .. HalfRange - 1,
           NEW message, message.message_index = n % CounterRange, message.key = Documented[n]
    PROVE  /\ ForeignSession(session) => ~Decrypts(session, message) /\ ~Verifies(session, message)
           /\ \A a, b \in 0 .. HalfRange :
                 OwnSession(session, a, b) => (Decrypts(session, message) <=> a <= n)
<1>1. HalfRange \in Nat \ {0} /\ n \in 0 .. HalfRange /\ n % CounterRange = n /\ n \in Counter
  <2>1. HalfRange \in Nat \ {0}
    BY Ranges
  <2>2. n \in 0 .. HalfRange
    BY <2>1
  <2> QED BY <2>1, <2>2, Ranges
<1>2. message.message_index = n /\ n \in Nat /\ n < HalfRange
  BY <1>1
<1>3. ASSUME ForeignSession(session) PROVE ~Verifies(session, message)
  <2>1. Foreign(GetMegolm(session, n))
    BY <1>1, <1>3, ForeignAfter
  <2> QED BY <1>2, <2>1, ForeignIsNot DEF Verifies
<1>4. ASSUME NEW a \in 0 .. HalfRange, NEW b \in 0 .. HalfRange, OwnSession(session, a, b)
      PROVE  Decrypts(session, message) <=> a <= n
  <2>1. session.signing_key = SenderKey
    BY <1>4 DEF OwnSession
  <2>2. KnowsIndex(session, n) <=> a <= n
    BY <1>1, <1>2, <1>4, OwnGet
  <2>3. KnowsIndex(session, n) => Verifies(session, message)
    <3>1. KnowsIndex(session, n) => GetMegolm(session, n) = DocumentedRatchet(n)
      BY <1>1, <1>4, OwnGet
    <3> QED BY <1>2, <3>1 DEF Verifies, DocumentedRatchet
  <2> QED BY <1>2, <2>1, <2>2, <2>3 DEF Decrypts
<1>5. ~Verifies(session, message) => ~Decrypts(session, message)
  BY DEF Decrypts
<1> QED BY <1>3, <1>4, <1>5

-----------------------------------------------------------------------------
(* The invariant holds at first.                                           *)
LEMMA InitIInv == Init => IInv
<1> SUFFICES ASSUME Init PROVE IInv
  OBVIOUS
<1>1. TypeInv
  BY InitTypeInv
<1> QED BY <1>1, ClearedIs DEF Init, IInv, SessionInv, ExportInv

(* Sessions that did not change, while the sender went on or not.          *)
LEMMA SessionStays ==
    ASSUME NEW session, SessionInv(session), Len(messages) \in Nat, Len(messages') \in Nat,
           Len(messages) <= Len(messages')
    PROVE  \/ ForeignSession(session)
           \/ \E a, b \in 0 .. Len(messages') : OwnSession(session, a, b)
<1>1. CASE ForeignSession(session)
  BY <1>1
<1>2. ASSUME NEW a \in 0 .. Len(messages), NEW b \in 0 .. Len(messages), OwnSession(session, a, b)
      PROVE  \E c, d \in 0 .. Len(messages') : OwnSession(session, c, d)
  <2>1. a \in 0 .. Len(messages') /\ b \in 0 .. Len(messages')
    OBVIOUS
  <2> QED BY <1>2, <2>1
<1> QED BY <1>1, <1>2 DEF SessionInv

(* So stays what was exported.                                             *)
LEMMA ExportStays ==
    ASSUME ExportInv, exported' = exported, Len(messages) \in Nat, Len(messages') \in Nat,
           Len(messages) <= Len(messages')
    PROVE  ExportInv'
<1>1. CASE Foreign(exported)
  BY <1>1 DEF ExportInv
<1>2. ASSUME NEW e \in 0 .. Len(messages), Own(exported, e) PROVE ExportInv'
  <2>1. e \in 0 .. Len(messages')
    OBVIOUS
  <2>2. Own(exported', e)
    BY <1>2
  <2> QED BY <2>1, <2>2 DEF ExportInv
<1> QED BY <1>1, <1>2 DEF ExportInv

-----------------------------------------------------------------------------
(* What each operation does to a session.                                  *)

(* The indices of all messages are in the half range in which a distance   *)
(* tells the order.                                                        *)
LEMMA Lengths ==
    ASSUME TypeInv, MaxMessages <= HalfRange
    PROVE  /\ Len(messages) \in Nat
           /\ 0 .. Len(messages) \subseteq 0 .. HalfRange
           /\ 0 .. Len(messages) - 1 \subseteq 0 .. HalfRange - 1
           /\ \A n \in 0 .. Len(messages) : n % CounterRange = n /\ n \in Counter
<1>1. Len(messages) \in 0 .. MaxMessages /\ MaxMessages \in Nat /\ HalfRange \in Nat
  BY MaxMessagesAssumption, Ranges DEF TypeInv, SentInv
<1>2. 0 .. Len(messages) \subseteq 0 .. HalfRange
  BY <1>1
<1>3. 0 .. Len(messages) - 1 \subseteq 0 .. HalfRange - 1
  BY <1>1
<1> QED BY <1>1, <1>2, <1>3, Ranges

(* Taking over keys makes a session the sender's or a foreign one.         *)
LEMMA KeysSession ==
    ASSUME NEW session \in InboundGroupSession, NEW key, NEW export_format \in BOOLEAN,
           Len(messages) \in Nat,
           \/ /\ Foreign(MegolmInit(key.data, key.counter))
              /\ ~session.signing_key_verified
              /\ export_format \/ key.signed = FALSE
           \/ \E n \in 0 .. Len(messages) : Own(MegolmInit(key.data, key.counter), n)
    PROVE  SessionInv(InitGroupSessionKeys(session, key, export_format))
<1> DEFINE ratchet == MegolmInit(key.data, key.counter)
           after == InitGroupSessionKeys(session, key, export_format)
<1>1. /\ after.initial_ratchet = ratchet /\ after.latest_ratchet = ratchet
      /\ after.signing_key = SenderKey
      /\ after.signing_key_verified =
           (session.signing_key_verified \/ (~export_format /\ key.signed))
  BY DEF InitGroupSessionKeys, InboundGroupSession
<1> HIDE DEF ratchet, after
<1>2. ASSUME Foreign(ratchet), ~session.signing_key_verified,
             export_format \/ key.signed = FALSE
      PROVE  ForeignSession(after)
  BY <1>1, <1>2 DEF ForeignSession
<1>3. ASSUME NEW n \in 0 .. Len(messages), Own(ratchet, n) PROVE OwnSession(after, n, n)
  <2>1. n <= n
    OBVIOUS
  <2> QED BY <1>1, <1>3, <2>1 DEF OwnSession, Own
<1>4. CASE Foreign(ratchet) /\ ~session.signing_key_verified
           /\ (export_format \/ key.signed = FALSE)
  BY <1>2, <1>4 DEF SessionInv, after
<1>5. CASE \E n \in 0 .. Len(messages) : Own(ratchet, n)
  BY <1>3, <1>5 DEF SessionInv, after
<1> QED BY <1>4, <1>5 DEF ratchet

(* The initial ratchet and the key stay, whatever the session is used for. *)
LEMMA UseKeeps ==
    ASSUME TypeInv, Use
    PROVE  inbound'.initial_ratchet = inbound.initial_ratchet
<1>0. inbound \in InboundGroupSession
  BY DEF TypeInv, TypeOK
<1>1. ASSUME NEW i \in DOMAIN messages, GroupDecrypt(messages[i])
      PROVE  inbound'.initial_ratchet = inbound.initial_ratchet
  <2> DEFINE after == AfterGetMegolm(inbound, messages[i].message_index)
  <2>1. messages[i].message_index \in Counter
    BY MessageIndexes
  <2>2. after \in InboundGroupSession /\ after.initial_ratchet = inbound.initial_ratchet
    BY <1>0, <2>1, TypesOfGet
  <2>3. inbound' = AfterDecrypt(inbound, messages[i])
    BY <1>1 DEF GroupDecrypt
  <2> HIDE DEF after
  <2> QED BY <2>2, <2>3 DEF AfterDecrypt, after, InboundGroupSession
<1>2. ASSUME NEW i \in 0 .. Len(messages), Export(i % CounterRange)
      PROVE  inbound'.initial_ratchet = inbound.initial_ratchet
  <2>1. i % CounterRange \in Counter
    BY MessageIndexes
  <2> QED BY <1>0, <1>2, <2>1, TypesOfGet DEF Export
<1> QED BY <1>1, <1>2 DEF Use

(* olm_group_decrypt leaves a session of the same kind, whether the        *)
(* message is accepted or refused.                                         *)
LEMMA DecryptSession ==
    ASSUME IInv, MaxMessages <= HalfRange, NEW i \in DOMAIN messages
    PROVE  SessionInv(AfterDecrypt(inbound, messages[i]))
<1> DEFINE n == i - 1
           message == messages[i]
           L == Len(messages)
<1>1. /\ inbound \in InboundGroupSession /\ TypeInv
      /\ n \in 0 .. L - 1 /\ L \in Nat
      /\ message.message_index = n % CounterRange /\ message.key = Documented[n]
  BY MessageIndexes DEF IInv, TypeInv, TypeOK
<1>2. /\ n \in 0 .. HalfRange - 1 /\ n \in 0 .. L /\ n \in 0 .. HalfRange
      /\ message.message_index = n /\ n \in Counter
  <2>1. n \in 0 .. L
    BY <1>1
  <2> QED BY <1>1, <2>1, Lengths
<1> DEFINE after == AfterGetMegolm(inbound, n)
<1> HIDE DEF n, message, L
<1>3. CASE ~(inbound.signing_key = SenderKey /\ KnowsIndex(inbound, n))
  BY <1>2, <1>3 DEF AfterDecrypt, IInv, message
<1>4. CASE inbound.signing_key = SenderKey /\ KnowsIndex(inbound, n)
  <2> DEFINE final == [after EXCEPT !.signing_key_verified = @ \/ Verifies(inbound, message)]
  <2>1. AfterDecrypt(inbound, message) = final
    BY <1>2, <1>4 DEF AfterDecrypt
  <2>2. after \in InboundGroupSession
        /\ after.signing_key_verified = inbound.signing_key_verified
    BY <1>1, <1>2, TypesOfGet
  <2> HIDE DEF after
  <2>3. /\ final.initial_ratchet = after.initial_ratchet
        /\ final.latest_ratchet = after.latest_ratchet
        /\ final.signing_key = after.signing_key
        /\ final.signing_key_verified = (after.signing_key_verified \/ Verifies(inbound, message))
    BY <2>2 DEF InboundGroupSession
  <2> HIDE DEF final
  <2>4. CASE ForeignSession(inbound)
    <3>1. ForeignSession(after)
      BY <1>1, <1>2, <2>4, ForeignAfter DEF after
    <3>2. ~Verifies(inbound, message)
      BY <1>1, <1>2, <2>4, DecryptsIs
    <3>3. ForeignSession(final)
      BY <2>3, <3>1, <3>2 DEF ForeignSession
    <3> QED BY <2>1, <3>3 DEF SessionInv, message
  <2>5. ASSUME NEW a \in 0 .. L, NEW b \in 0 .. L, OwnSession(inbound, a, b)
        PROVE  SessionInv(final)
    <3>1. a \in 0 .. HalfRange /\ b \in 0 .. HalfRange
      BY <1>1, Lengths DEF L
    <3>2. PICK c \in {b, n} : OwnSession(after, a, c)
      BY <1>1, <1>2, <1>4, <2>5, <3>1, OwnAfter DEF after
    <3>3. OwnSession(final, a, c)
      BY <2>3, <3>2 DEF OwnSession
    <3> QED BY <1>2, <3>2, <3>3 DEF SessionInv, L
  <2> QED BY <2>1, <2>4, <2>5 DEF IInv, SessionInv, L, message
<1> QED BY <1>3, <1>4

(* So does an export, and what it returns is the ratchet of its index.     *)
LEMMA ExportSession ==
    ASSUME IInv, MaxMessages <= HalfRange, NEW m \in 0 .. Len(messages),
           KnowsIndex(inbound, m)
    PROVE  /\ SessionInv(AfterGetMegolm(inbound, m))
           /\ \/ Foreign([counter |-> m, data |-> GetMegolm(inbound, m).data])
              \/ Own([counter |-> m, data |-> GetMegolm(inbound, m).data], m)
<1>1. /\ inbound \in InboundGroupSession /\ TypeInv
      /\ m \in 0 .. HalfRange /\ m \in Counter /\ m % CounterRange = m
  BY Lengths DEF IInv, TypeInv, TypeOK
<1>2. CASE ForeignSession(inbound)
  <2>1. Foreign(GetMegolm(inbound, m)) /\ ForeignSession(AfterGetMegolm(inbound, m))
    BY <1>1, <1>2, ForeignAfter
  <2>2. Foreign([counter |-> m, data |-> GetMegolm(inbound, m).data])
    BY <1>1, <2>1 DEF Foreign, RatchetOf
  <2> QED BY <2>1, <2>2 DEF SessionInv
<1>3. ASSUME NEW a \in 0 .. Len(messages), NEW b \in 0 .. Len(messages), OwnSession(inbound, a, b)
      PROVE  /\ SessionInv(AfterGetMegolm(inbound, m))
             /\ Own([counter |-> m, data |-> GetMegolm(inbound, m).data], m)
  <2>1. a \in 0 .. HalfRange /\ b \in 0 .. HalfRange
    BY <1>1, Lengths
  <2>2. PICK c \in {b, m} : OwnSession(AfterGetMegolm(inbound, m), a, c)
    BY <1>1, <1>3, <2>1, OwnAfter
  <2>3. GetMegolm(inbound, m) = DocumentedRatchet(m)
    BY <1>1, <1>3, <2>1, OwnGet
  <2>4. [counter |-> m, data |-> GetMegolm(inbound, m).data] = DocumentedRatchet(m)
    BY <1>1, <2>3 DEF DocumentedRatchet
  <2> QED BY <2>2, <2>4 DEF SessionInv, Own
<1> QED BY <1>2, <1>3 DEF IInv, SessionInv

-----------------------------------------------------------------------------
(* The invariant and the theorems.                                         *)

(* What the recipient does keeps the invariant when it does so for what    *)
(* changed.                                                                *)
LEMMA RecipientIInv ==
    ASSUME TypeInv', UNCHANGED messages,
           SessionInv(inbound'), SessionInv(pickled'),
           \/ Foreign(exported')
           \/ \E e \in 0 .. Len(messages) : Own(exported', e)
    PROVE  IInv'
<1>1. messages' = messages
  OBVIOUS
<1> QED BY <1>1 DEF IInv, SessionInv, ExportInv

(* Every step keeps the invariant.                                         *)
LEMMA NextIInv == MaxMessages <= HalfRange /\ IInv /\ [Next]_vars => IInv'
<1> SUFFICES ASSUME MaxMessages <= HalfRange, IInv, [Next]_vars PROVE IInv'
  OBVIOUS
<1>0. /\ TypeInv /\ TypeInv'
      /\ SessionInv(inbound) /\ SessionInv(pickled)
      /\ Foreign(exported) \/ \E e \in 0 .. Len(messages) : Own(exported, e)
      /\ inbound \in InboundGroupSession /\ pickled \in InboundGroupSession
      /\ Len(messages) \in Nat
  BY NextTypeInv, MessageIndexes DEF IInv, ExportInv, TypeInv, TypeOK
<1>1. CASE GroupEncrypt
  <2>1. UNCHANGED <<inbound, pickled, exported>>
    BY <1>1 DEF GroupEncrypt
  <2>2. Len(messages') \in Nat /\ Len(messages) <= Len(messages')
    <3>1. messages' = Append(messages, EncryptedMessage(outbound))
      BY <1>1 DEF GroupEncrypt
    <3>2. messages \in Seq([message_index : Counter, key : [Part -> HashValue]])
          /\ messages' \in Seq([message_index : Counter, key : [Part -> HashValue]])
      BY <1>0 DEF TypeInv, TypeOK
    <3> DEFINE message == EncryptedMessage(outbound)
    <3> HIDE DEF message
    <3>3. Len(messages') = Len(messages) + 1
      BY <3>1, <3>2 DEF message
    <3> QED BY <1>0, <3>3
  <2>3. ExportInv'
    BY <1>0, <2>1, <2>2, ExportStays DEF IInv
  <2>4. SessionInv(inbound)'
    <3>1. \/ ForeignSession(inbound)
          \/ \E a, b \in 0 .. Len(messages') : OwnSession(inbound, a, b)
      BY <1>0, <2>2, SessionStays
    <3> QED BY <2>1, <3>1 DEF SessionInv
  <2>5. SessionInv(pickled)'
    <3>1. \/ ForeignSession(pickled)
          \/ \E a, b \in 0 .. Len(messages') : OwnSession(pickled, a, b)
      BY <1>0, <2>2, SessionStays
    <3> QED BY <2>1, <3>1 DEF SessionInv
  <2> QED BY <1>0, <2>3, <2>4, <2>5 DEF IInv
<1>2. ASSUME ~inbound.signing_key_verified,
             NEW key \in SharedKeys \cup {DamagedKey}, InitInbound(key)
      PROVE  IInv'
  <2>1. /\ inbound' = InitGroupSessionKeys(inbound, key, FALSE)
        /\ UNCHANGED <<outbound, messages, pickled, exported>>
    BY <1>2 DEF InitInbound
  <2>2. CASE key \in SharedKeys
    <3>1. \E n \in 0 .. Len(messages) : Own(MegolmInit(key.data, key.counter), n)
      BY <1>0, <2>2, KeysTaken DEF Own
    <3>2. SessionInv(inbound')
      BY <1>0, <2>1, <3>1, KeysSession
    <3> QED BY <1>0, <2>1, <3>2, RecipientIInv
  <2>3. CASE key = DamagedKey
    <3>1. Foreign(MegolmInit(key.data, key.counter)) /\ key.signed = FALSE
      BY <2>3, ClearedIs DEF DamagedKey
    <3>2. SessionInv(inbound')
      BY <1>0, <1>2, <2>1, <3>1, KeysSession
    <3> QED BY <1>0, <2>1, <3>2, RecipientIInv
  <2> QED BY <1>2, <2>2, <2>3
<1>3. ASSUME ~inbound.signing_key_verified,
             NEW key \in {exported, MadeUpExport}, Import(key)
      PROVE  IInv'
  <2>1. /\ inbound' = InitGroupSessionKeys(inbound, key, TRUE)
        /\ UNCHANGED <<outbound, messages, pickled, exported>>
    BY <1>3 DEF Import
  <2>2. MegolmInit(key.data, key.counter) = key
    BY <1>0, KeysTaken
  <2>3. Foreign(key) \/ \E e \in 0 .. Len(messages) : Own(key, e)
    BY <1>0, ClearedIs
  <2>4. SessionInv(inbound')
    BY <1>0, <1>3, <2>1, <2>2, <2>3, KeysSession
  <2> QED BY <1>0, <2>1, <2>4, RecipientIInv
<1>4. CASE Use
  <2>1. ASSUME NEW i \in DOMAIN messages, GroupDecrypt(messages[i]) PROVE IInv'
    <3>1. SessionInv(inbound')
      BY <2>1, DecryptSession DEF GroupDecrypt
    <3> QED BY <1>0, <2>1, <3>1, RecipientIInv DEF GroupDecrypt
  <2>2. ASSUME NEW i \in 0 .. Len(messages), Export(i % CounterRange) PROVE IInv'
    <3>1. i % CounterRange = i
      BY <1>0, Lengths
    <3>2. /\ KnowsIndex(inbound, i)
          /\ exported' = [counter |-> i, data |-> GetMegolm(inbound, i).data]
          /\ inbound' = AfterGetMegolm(inbound, i)
          /\ UNCHANGED <<outbound, messages, pickled>>
      BY <2>2, <3>1 DEF Export
    <3>3. /\ SessionInv(inbound')
          /\ Foreign(exported') \/ Own(exported', i)
      BY <3>2, ExportSession
    <3> QED BY <1>0, <3>2, <3>3, RecipientIInv
  <2> QED BY <1>4, <2>1, <2>2 DEF Use
<1>5. CASE Clear
  BY <1>0, <1>5, ClearedIs, RecipientIInv DEF Clear, SessionInv
<1>6. CASE Pickle
  BY <1>0, <1>6, RecipientIInv DEF Pickle
<1>7. ASSUME NEW version \in 1 .. 2, Unpickle(version) PROVE IInv'
  <2>1. /\ inbound' = Unpickled(version, pickled)
        /\ version = 1 => pickled.signing_key_verified
        /\ UNCHANGED <<outbound, messages, pickled, exported>>
    BY <1>7 DEF Unpickle
  <2>2. /\ inbound'.initial_ratchet = pickled.initial_ratchet
        /\ inbound'.latest_ratchet = pickled.latest_ratchet
        /\ inbound'.signing_key = pickled.signing_key
        /\ ~pickled.signing_key_verified => ~inbound'.signing_key_verified
    BY <1>0, <2>1 DEF Unpickled, InboundGroupSession
  <2>3. SessionInv(inbound')
    <3>1. ForeignSession(pickled) => ForeignSession(inbound')
      BY <2>2 DEF ForeignSession
    <3>2. \A a, b : OwnSession(pickled, a, b) => OwnSession(inbound', a, b)
      BY <2>2 DEF OwnSession
    <3> QED BY <1>0, <3>1, <3>2 DEF SessionInv
  <2> QED BY <1>0, <2>1, <2>3, RecipientIInv
<1>8. CASE UNCHANGED vars
  BY <1>0, <1>8, RecipientIInv DEF vars
<1> QED BY <1>1, <1>2, <1>3, <1>4, <1>5, <1>6, <1>7, <1>8 DEF Next

(* The invariant holds in every state, as long as no more messages than    *)
(* half the range of the counter are sent.                                 *)
THEOREM Invariance == ASSUME MaxMessages <= HalfRange PROVE Spec => []IInv
<1>1. IInv /\ [Next]_vars => IInv'
  BY NextIInv
<1> QED BY <1>1, InitIInv, PTL DEF Spec

(* A session that holds a ratchet of the sender's is not foreign.          *)
LEMMA GenuineIsOwn ==
    ASSUME IInv, MaxMessages <= HalfRange
    PROVE  Genuine(inbound) =>
             \E a, b \in 0 .. Len(messages) : OwnSession(inbound, a, b)
<1> SUFFICES ASSUME Genuine(inbound), ForeignSession(inbound) PROVE FALSE
  BY DEF IInv, SessionInv
<1>1. TypeInv /\ Len(messages) \in Nat
  BY MessageIndexes DEF IInv
<1>2. PICK key \in SharedKeys : inbound.initial_ratchet = MegolmInit(key.data, key.counter)
  BY DEF Genuine
<1>3. PICK n \in 0 .. Len(messages) : MegolmInit(key.data, key.counter) = DocumentedRatchet(n)
  BY <1>1, KeysTaken
<1>4. n \in Nat /\ inbound.initial_ratchet.data = Documented[n]
  BY <1>1, <1>2, <1>3 DEF DocumentedRatchet
<1>5. Foreign(inbound.initial_ratchet)
  BY DEF ForeignSession
<1> QED BY <1>4, <1>5, ForeignIsNot

(* The flag signing_key_verified is only set on a session that holds a     *)
(* ratchet of the sender's, whatever keys, exports and pickles came        *)
(* before.                                                                 *)
THEOREM SpecVerifiedIsGenuine ==
    ASSUME MaxMessages <= HalfRange PROVE Spec => []VerifiedIsGenuine
<1>1. ASSUME IInv PROVE VerifiedIsGenuine
  <2> SUFFICES ASSUME inbound.signing_key_verified PROVE Genuine(inbound)
    BY DEF VerifiedIsGenuine
  <2>1. PICK a \in 0 .. Len(messages) : inbound.initial_ratchet = DocumentedRatchet(a)
    BY <1>1 DEF IInv, SessionInv, ForeignSession, OwnSession, Own
  <2> DEFINE key == [counter |-> a % CounterRange, data |-> Documented[a], signed |-> TRUE]
  <2>2. key \in SharedKeys
    BY <1>1, SharedKeysAre DEF IInv
  <2>3. MegolmInit(key.data, key.counter) = DocumentedRatchet(a)
    BY DEF MegolmInit, DocumentedRatchet
  <2> HIDE DEF key
  <2> QED BY <2>1, <2>2, <2>3 DEF Genuine
<1> QED BY <1>1, Invariance, PTL

(* Which messages a session decrypts: none that is foreign, and the ones   *)
(* from its first index on if it is the sender's.                          *)
LEMMA DecryptsMessage ==
    ASSUME IInv, MaxMessages <= HalfRange, NEW i \in DOMAIN messages,
           NEW session \in InboundGroupSession
    PROVE  /\ ForeignSession(session) => ~Decrypts(session, messages[i])
           /\ \A a, b \in 0 .. Len(messages) :
                OwnSession(session, a, b) => (Decrypts(session, messages[i]) <=> a <= i - 1)
<1> DEFINE n == i - 1
           message == messages[i]
<1>1. TypeInv /\ n \in 0 .. Len(messages) - 1
      /\ message.message_index = n % CounterRange /\ message.key = Documented[n]
  BY MessageIndexes DEF IInv
<1>2. n \in 0 .. HalfRange - 1 /\ 0 .. Len(messages) \subseteq 0 .. HalfRange
  BY <1>1, Lengths
<1> HIDE DEF n, message
<1>3. /\ ForeignSession(session) => ~Decrypts(session, message)
      /\ \A a, b \in 0 .. HalfRange :
            OwnSession(session, a, b) => (Decrypts(session, message) <=> a <= n)
  BY <1>1, <1>2, DecryptsIs
<1> QED BY <1>2, <1>3 DEF n, message

(* A session decrypts every message from its first index on, in any order  *)
(* and any number of times.                                                *)
THEOREM SpecHistoryDecrypts ==
    ASSUME MaxMessages <= HalfRange PROVE Spec => []HistoryDecrypts
<1>1. ASSUME IInv PROVE HistoryDecrypts
  <2> SUFFICES ASSUME Genuine(inbound), NEW i \in DOMAIN messages,
                      i - 1 >= inbound.initial_ratchet.counter
               PROVE  Decrypts(inbound, messages[i])
    BY DEF HistoryDecrypts
  <2>1. PICK a \in 0 .. Len(messages), b \in 0 .. Len(messages) : OwnSession(inbound, a, b)
    BY <1>1, GenuineIsOwn
  <2>2. inbound.initial_ratchet.counter = a
    <3>1. a % CounterRange = a
      BY <1>1, Lengths DEF IInv
    <3> QED BY <2>1, <3>1 DEF OwnSession, Own, DocumentedRatchet
  <2>3. inbound \in InboundGroupSession
    BY <1>1 DEF IInv, TypeInv, TypeOK
  <2>4. a <= i - 1
    BY <2>2
  <2> QED BY <1>1, <2>1, <2>3, <2>4, DecryptsMessage
<1> QED BY <1>1, Invariance, PTL

(* It decrypts nothing from before, and its two ratchets together do not   *)
(* allow the key of an earlier message to be computed.                     *)
THEOREM SpecNothingBefore ==
    ASSUME MaxMessages <= HalfRange PROVE Spec => []NothingBefore
<1>1. ASSUME IInv PROVE NothingBefore
  <2> SUFFICES ASSUME NEW i \in DOMAIN messages, i - 1 < inbound.initial_ratchet.counter
               PROVE  /\ ~Decrypts(inbound, messages[i])
                      /\ ~RatchetComputable(Range(inbound.initial_ratchet.data) \cup
                                            Range(inbound.latest_ratchet.data),
                                            messages[i].key)
    BY DEF NothingBefore
  <2> DEFINE known == Range(inbound.initial_ratchet.data) \cup Range(inbound.latest_ratchet.data)
             n == i - 1
  <2>1. inbound \in InboundGroupSession
    BY <1>1 DEF IInv, TypeInv, TypeOK
  <2>2. n \in Nat /\ messages[i].key = Documented[n] /\ Len(messages) \in Nat
    <3>1. i - 1 \in 0 .. Len(messages) - 1 /\ messages[i].key = Documented[i - 1]
          /\ Len(messages) \in Nat
      BY <1>1, MessageIndexes DEF IInv
    <3> QED BY <3>1
  <2> HIDE DEF n
  <2>3. CASE ForeignSession(inbound)
    <3>1. known \subseteq ForeignValue
      BY <2>3 DEF ForeignSession, Foreign, RatchetOf, Range
    <3> HIDE DEF known
    <3>2. ~RatchetComputable(known, Documented[n])
      BY <2>2, <3>1, ForeignIsNot
    <3>3. ~Decrypts(inbound, messages[i])
      BY <1>1, <2>1, <2>3, DecryptsMessage
    <3> QED BY <2>2, <3>2, <3>3 DEF known
  <2>4. ASSUME NEW a \in 0 .. Len(messages), NEW b \in 0 .. Len(messages), OwnSession(inbound, a, b)
        PROVE  ~Decrypts(inbound, messages[i]) /\ ~RatchetComputable(known, messages[i].key)
    <3>1. a \in Nat /\ b \in Nat /\ a <= b
      BY <2>2, <2>4 DEF OwnSession
    <3>2. /\ inbound.initial_ratchet.data = Documented[a]
          /\ inbound.latest_ratchet.data = Documented[b]
          /\ inbound.initial_ratchet.counter = a
      <4>1. a % CounterRange = a
        BY <1>1, Lengths DEF IInv
      <4> QED BY <2>4, <4>1 DEF OwnSession, Own, DocumentedRatchet
    <3>3. n < a /\ n < b /\ ~(a <= i - 1)
      BY <2>2, <3>1, <3>2 DEF n
    <3>4. ~Decrypts(inbound, messages[i])
      BY <1>1, <2>1, <2>4, <3>3, DecryptsMessage
    <3>5. DOMAIN Documented[a] = Part /\ DOMAIN Documented[b] = Part
      BY <3>1, DocumentedType
    <3>6. ASSUME NEW v \in known
          PROVE  \E m \in Nat, k \in Part : n < m /\ v = Documented[m][k]
      <4>1. CASE v \in Range(Documented[a])
        BY <3>1, <3>3, <3>5, <4>1 DEF Range
      <4>2. CASE v \in Range(Documented[b])
        BY <3>1, <3>3, <3>5, <4>2 DEF Range
      <4> QED BY <3>2, <3>6, <4>1, <4>2
    <3> HIDE DEF known
    <3>7. ~RatchetComputable(known, Documented[n])
      BY <2>2, <3>6, NotComputable
    <3> QED BY <2>2, <3>4, <3>7
  <2> QED BY <1>1, <2>3, <2>4 DEF IInv, SessionInv
<1> QED BY <1>1, Invariance, PTL

(* Decrypting and exporting never lose a message that could be decrypted.  *)
THEOREM SpecUseKeepsHistory ==
    ASSUME MaxMessages <= HalfRange PROVE Spec => UseKeepsHistory
<1> DEFINE A == Use => \A i \in DOMAIN messages :
                          Decrypts(inbound, messages[i]) => Decrypts(inbound', messages[i])
<1>1. ASSUME IInv, IInv' PROVE A
  <2> SUFFICES ASSUME Use, NEW i \in DOMAIN messages, Decrypts(inbound, messages[i])
               PROVE  Decrypts(inbound', messages[i])
    OBVIOUS
  <2>1. /\ inbound \in InboundGroupSession /\ inbound' \in InboundGroupSession
        /\ TypeInv
    BY <1>1 DEF IInv, TypeInv, TypeOK
  <2>2. messages' = messages /\ inbound'.initial_ratchet = inbound.initial_ratchet
    BY <2>1, UseKeeps DEF Use, GroupDecrypt, Export
  <2>3. PICK a \in 0 .. Len(messages), b \in 0 .. Len(messages) : OwnSession(inbound, a, b)
    BY <1>1, <2>1, DecryptsMessage DEF IInv, SessionInv
  <2>4. a <= i - 1
    BY <1>1, <2>1, <2>3, DecryptsMessage
  <2>5. ~ForeignSession(inbound')
    <3>1. inbound'.initial_ratchet.data = Documented[a] /\ a \in Nat
      BY <2>2, <2>3 DEF OwnSession, Own, DocumentedRatchet
    <3> QED BY <3>1, ForeignIsNot DEF ForeignSession
  <2>6. PICK c \in 0 .. Len(messages), d \in 0 .. Len(messages) : OwnSession(inbound', c, d)
    BY <1>1, <2>2, <2>5 DEF IInv, SessionInv
  <2>7. c = a
    <3>1. a % CounterRange = a /\ c % CounterRange = c
      BY <2>1, Lengths
    <3>2. DocumentedRatchet(a) = DocumentedRatchet(c)
      BY <2>2, <2>3, <2>6 DEF OwnSession, Own
    <3> QED BY <3>1, <3>2 DEF DocumentedRatchet
  <2> QED BY <1>1, <2>1, <2>4, <2>6, <2>7, DecryptsMessage
<1>2. IInv /\ IInv' => [A]_vars
  BY <1>1
<1> QED BY <1>2, Invariance, PTL DEF UseKeepsHistory
=============================================================================

--------------------------- MODULE Sessions_proofs ---------------------------
(***************************************************************************)
(* Two devices and all their sessions, for every number of session         *)
(* objects, keys, openings, messages, restarts and deletions, and for      *)
(* every size of the lists.                                                *)
(*                                                                         *)
(* No opening ever gives a device two sessions (OneSessionPerId).  The     *)
(* property is not inductive: a restart replaces all live sessions by      *)
(* pickles, and the pre-key message of an opening may arrive at any later  *)
(* time.  IInv adds that a pickle has the id of the live session in the    *)
(* same object, and that no base key is in use, in a session or in a       *)
(* message, before its owner has generated it.                             *)
(*                                                                         *)
(* No two messages have the same key (MessageKeysUnique).  KeysInv adds    *)
(* to IInv, of the live sessions and of the pickles alike, that what was   *)
(* sent on a chain is behind the position of each session that sends on    *)
(* it, that no two objects of a device send on the same chain, and that a  *)
(* chain of one device is never one of the other: the devices take turns   *)
(* in a session, and the root key shows by its length whose turn it is.    *)
(* The type invariant of the model follows from it as well.                *)
(*                                                                         *)
(* No message is read twice (ReadOnce).  ReadInv adds to KeysInv, for each *)
(* message that a device counts as read, with the live sessions or with    *)
(* those a restart would bring back, that either the session that read it  *)
(* is there, is past the message's key and has not stored it, or that one  *)
(* was deleted: then no session with the same shared secret is there but   *)
(* one that began anew from the pre-key message, and that one never comes  *)
(* to the chain of the message, since its second root key has a ratchet    *)
(* key in it that did not exist before.                                    *)
(*                                                                         *)
(* The next message of a session can always be read (AlwaysReachable).     *)
(* ReachInv says of the sessions of one id, live and pickled, of the two   *)
(* devices, as long as neither has deleted the session: their ratchets are *)
(* in step, one of them receiving on the chain the other sends on, where no *)
(* message lies ahead of either; a device that has heard of the session    *)
(* from its peer can rely on the peer's pickle; and until the peer has the *)
(* session it has the one-time key the session was opened with, since only *)
(* the session that claimed a key uses it.                                 *)
(***************************************************************************)
EXTENDS Sessions, Common_proofs, TLAPS

SessionFields == {"created", "received_message", "alice_identity_key",
                  "alice_base_key", "bob_one_time_key", "ratchet"}

Shape ==
    /\ DOMAIN session = Device /\ DOMAIN stored = Device
    /\ DOMAIN opened = Device /\ DOMAIN sent = Device
    /\ \A p \in Device :
         /\ DOMAIN session[p] = Slot
         /\ DOMAIN stored[p] = {"one_time_keys", "session", "read"}
         /\ DOMAIN stored[p].session = Slot
         /\ opened[p] \in Nat
         /\ sent[p] \in Seq(Range(sent[p]))
         /\ \A s \in Slot : DOMAIN session[p][s] = SessionFields

PicklesFollow ==
    \A p \in Device, s \in Slot :
        stored[p].session[s] # NoPickle
          => /\ session[p][s].created
             /\ SessionId(stored[p].session[s]) = SessionId(session[p][s])

BaseKeysAreOld ==
    \A q \in Device : \A n \in Nat :
        n >= opened[q]
          => /\ \A p \in Device, s \in Slot :
                  session[p][s].created => session[p][s].alice_base_key # <<q, "base", n>>
             /\ \A p \in Device : \A m \in Range(sent[p]) :
                  m.type = "PRE_KEY" => m.base_key # <<q, "base", n>>

IInv == Shape /\ PicklesFollow /\ BaseKeysAreOld /\ OneSessionPerId

-----------------------------------------------------------------------------
(* What the operations of a session leave of its fields.                   *)

(* An operation on a session keeps its fields, and its id but for the one  *)
(* that opens it.                                                          *)
LEMMA FieldsKept ==
    ASSUME NEW s, DOMAIN s = SessionFields
    PROVE  /\ \A id, theirs, key, base, ratchet_key :
                LET e == NewOutboundSession(s, id, theirs, key, base, ratchet_key)
                IN  /\ DOMAIN e = SessionFields
                    /\ e.created
                    /\ SessionId(e) = <<id, base, key>>
           /\ \A fresh_key :
                LET e == SessionAfterEncrypt(s, fresh_key)
                IN  /\ DOMAIN e = SessionFields
                    /\ e.created = s.created
                    /\ SessionId(e) = SessionId(s)
           /\ \A m :
                LET e == SessionAfterDecrypt(s, m)
                IN  /\ DOMAIN e = SessionFields
                    /\ e.created = s.created
                    /\ SessionId(e) = SessionId(s)
  BY DEF SessionFields, NewOutboundSession, SessionAfterEncrypt, SessionAfterDecrypt, SessionId

(* A creation from a message succeeds, and then the session has the ids of *)
(* the message, or leaves an object that is no session.                    *)
LEMMA InboundFields ==
    ASSUME NEW s, DOMAIN s = SessionFields, ~s.created,
           NEW id, NEW keys, NEW theirs, NEW m
    PROVE  LET e == NewInboundSession(s, id, keys, theirs, m)
           IN  /\ DOMAIN e = SessionFields
               /\ e.created => /\ CheckMessageFields(m) /\ SameIdentity(theirs, m)
                               /\ SessionId(e) = <<m.identity_key, m.base_key, m.one_time_key>>
<1>1. LET k == WithKeysOf(s, m)
      IN  /\ DOMAIN k = SessionFields
          /\ ~k.created
          /\ SessionId(k) = <<m.identity_key, m.base_key, m.one_time_key>>
  BY DEF WithKeysOf, SessionFields, SessionId
<1>2. \A secret, ratchet_key :
        LET k == WithKeysOf(s, m)
            e == [k EXCEPT !.created = TRUE, !.ratchet = InitialiseAsBob(secret, ratchet_key)]
        IN  DOMAIN e = SessionFields /\ SessionId(e) = SessionId(k)
  BY <1>1 DEF SessionFields, SessionId
<1> QED BY <1>1, <1>2 DEF NewInboundSession

(* A pickle has the id of its session; a cleared object is none.           *)
LEMMA UnpickledFields ==
    ASSUME NEW pickle
    PROVE  /\ DOMAIN UnpickledSession(pickle) = SessionFields
           /\ SessionId(UnpickledSession(pickle)) = SessionId(pickle)
           /\ DOMAIN SessionInit = SessionFields
           /\ ~SessionInit.created
           /\ \A s : SessionId(PickledSession(s)) = SessionId(s)
  BY DEF UnpickledSession, SessionInit, SessionFields, SessionId, PickledSession

(* A sequence one longer has one more element.                             *)
LEMMA AppendRange ==
    ASSUME NEW q, q \in Seq(Range(q)), NEW x
    PROVE  /\ Range(Append(q, x)) = Range(q) \cup {x}
           /\ Append(q, x) \in Seq(Range(Append(q, x)))
<1>1. Len(Append(q, x)) = Len(q) + 1 /\ Len(q) \in Nat
  OBVIOUS
<1>2. /\ DOMAIN Append(q, x) = 1 .. Len(q) + 1
      /\ DOMAIN q = 1 .. Len(q)
      /\ \A i \in 1 .. Len(q) : Append(q, x)[i] = q[i]
      /\ Append(q, x)[Len(q) + 1] = x
  BY <1>1
<1>3. Range(Append(q, x)) = Range(q) \cup {x}
  BY <1>1, <1>2 DEF Range
<1>4. Append(q, x) \in Seq(Range(q) \cup {x})
  OBVIOUS
<1> QED BY <1>3, <1>4

-----------------------------------------------------------------------------

(* Initially there is no session and no base key.                          *)
LEMMA InitIInv == Init => IInv
<1> SUFFICES ASSUME Init PROVE IInv
  OBVIOUS
<1>1. \A p \in Device : \A s \in Slot :
        session[p][s] = SessionInit /\ stored[p].session[s] = NoPickle
  BY DEF Init
<1>2. \A p \in Device : sent[p] = <<>> /\ Range(sent[p]) = {}
  BY DEF Init, Range
<1>3. Shape
  <2>1. /\ DOMAIN session = Device /\ DOMAIN stored = Device
        /\ DOMAIN opened = Device /\ DOMAIN sent = Device
    BY DEF Init
  <2>2. ASSUME NEW q \in Device
        PROVE  /\ DOMAIN session[q] = Slot
               /\ DOMAIN stored[q] = {"one_time_keys", "session", "read"}
               /\ DOMAIN stored[q].session = Slot
               /\ opened[q] \in Nat
    BY DEF Init
  <2>3. ASSUME NEW q \in Device PROVE sent[q] \in Seq(Range(sent[q]))
    <3>1. <<>> \in Seq({})
      OBVIOUS
    <3> QED BY <1>2, <3>1
  <2>4. ASSUME NEW q \in Device, NEW t \in Slot PROVE DOMAIN session[q][t] = SessionFields
    BY <1>1, UnpickledFields
  <2> QED BY <2>1, <2>2, <2>3, <2>4 DEF Shape
<1>4. PicklesFollow /\ OneSessionPerId
  BY <1>1, UnpickledFields DEF PicklesFollow, OneSessionPerId
<1>5. BaseKeysAreOld
  BY <1>1, <1>2, UnpickledFields DEF BaseKeysAreOld
<1> QED BY <1>3, <1>4, <1>5 DEF IInv

(* One object changes, the ids of the sessions stay what they are.         *)
LEMMA ObjectStep ==
    ASSUME IInv, NEW p \in Device, NEW s \in Slot, NEW e,
           DOMAIN e = SessionFields,
           e.created, session[p][s].created,
           SessionId(e) = SessionId(session[p][s]),
           session' = [session EXCEPT ![p][s] = e],
           UNCHANGED opened,
           Shape', PicklesFollow',
           \A q \in Device : \A m \in Range(sent'[q]) :
               \/ m \in Range(sent[q])
               \/ m.type = "PRE_KEY" => m.base_key = session[p][s].alice_base_key
    PROVE  IInv'
<1>1. \A q \in Device, t \in Slot :
        session'[q][t] = IF q = p /\ t = s THEN e ELSE session[q][t]
  BY DEF IInv, Shape
<1>2. \A q \in Device, t \in Slot :
        /\ session'[q][t].created <=> session[q][t].created
        /\ SessionId(session'[q][t]) = SessionId(session[q][t])
  BY <1>1
<1>3. \A q \in Device, t \in Slot :
        session'[q][t].alice_base_key = session[q][t].alice_base_key
  BY <1>2 DEF SessionId
<1>4. OneSessionPerId'
  BY <1>2 DEF IInv, OneSessionPerId
<1>5. BaseKeysAreOld'
  BY <1>2, <1>3 DEF IInv, BaseKeysAreOld
<1> QED BY <1>4, <1>5 DEF IInv

-----------------------------------------------------------------------------

(* _olm_session_create_outbound: the base key is new, so is the id.        *)
LEMMA CreateOutboundStep ==
    ASSUME IInv, NEW p \in Device, NEW s \in Slot, CreateOutboundSession(p, s)
    PROVE  IInv'
<1> DEFINE base == <<p, "base", opened[p]>>
<1>1. PICK key : session' = [session EXCEPT ![p][s] =
                    NewOutboundSession(@, Identity(p), Identity(Peer(p)), key, base,
                                       <<p, "initial", opened[p]>>)]
  BY DEF CreateOutboundSession
<1> DEFINE e == NewOutboundSession(session[p][s], Identity(p), Identity(Peer(p)), key,
                                   base, <<p, "initial", opened[p]>>)
<1>2. /\ ~session[p][s].created
      /\ opened' = [opened EXCEPT ![p] = @ + 1]
      /\ UNCHANGED <<stored, sent>>
  BY DEF CreateOutboundSession
<1>3. DOMAIN session[p][s] = SessionFields
  BY DEF IInv, Shape
<1>4. /\ DOMAIN e = SessionFields /\ e.created
      /\ SessionId(e) = <<Identity(p), base, key>>
  BY <1>3, FieldsKept
<1>5. e.alice_base_key = base
  BY <1>4 DEF SessionId
<1> HIDE DEF e
<1>6. /\ DOMAIN session' = Device
      /\ \A q \in Device : DOMAIN session'[q] = Slot
      /\ \A q \in Device, t \in Slot :
           session'[q][t] = IF q = p /\ t = s THEN e ELSE session[q][t]
  BY <1>1 DEF IInv, Shape, e
<1>7. /\ DOMAIN opened' = Device
      /\ \A q \in Device :
           /\ opened'[q] \in Nat /\ opened'[q] >= opened[q]
           /\ q = p => opened'[q] = opened[q] + 1
  BY <1>2 DEF IInv, Shape
<1>8. Shape'
  BY <1>2, <1>4, <1>6, <1>7 DEF IInv, Shape
<1>9. PicklesFollow'
  <2>1. stored[p].session[s] = NoPickle
    BY <1>2 DEF IInv, PicklesFollow
  <2> QED BY <1>2, <1>6, <2>1 DEF IInv, PicklesFollow
<1>10. \A t \in Slot : session[p][t].created => session[p][t].alice_base_key # base
  BY DEF IInv, BaseKeysAreOld, Shape
<1>11. OneSessionPerId'
  <2> SUFFICES ASSUME NEW q \in Device, NEW t \in Slot, NEW u \in Slot,
                      session'[q][t].created, session'[q][u].created,
                      SessionId(session'[q][t]) = SessionId(session'[q][u]),
                      t # u
               PROVE  FALSE
    BY DEF OneSessionPerId
  <2>1. session'[q][t].alice_base_key = session'[q][u].alice_base_key
    BY DEF SessionId
  <2>2. CASE q = p /\ t = s
    BY <1>5, <1>6, <1>10, <2>1, <2>2
  <2>3. CASE q = p /\ u = s
    BY <1>5, <1>6, <1>10, <2>1, <2>3
  <2>4. CASE ~(q = p /\ t = s) /\ ~(q = p /\ u = s)
    BY <1>6, <2>4 DEF IInv, OneSessionPerId
  <2> QED BY <2>2, <2>3, <2>4
<1>12. BaseKeysAreOld'
  <2> SUFFICES ASSUME NEW q \in Device, NEW n \in Nat, n >= opened'[q]
               PROVE  /\ \A r \in Device, t \in Slot :
                           session'[r][t].created
                             => session'[r][t].alice_base_key # <<q, "base", n>>
                      /\ \A r \in Device : \A m \in Range(sent'[r]) :
                           m.type = "PRE_KEY" => m.base_key # <<q, "base", n>>
    BY DEF BaseKeysAreOld
  <2>1. n >= opened[q] /\ (q = p => n # opened[p])
    <3>1. opened[q] \in Nat /\ opened[p] \in Nat
      BY DEF IInv, Shape
    <3>2. /\ opened'[q] \in Nat /\ opened'[q] >= opened[q]
          /\ q = p => opened'[q] = opened[q] + 1
      BY <1>7
    <3> QED BY <3>1, <3>2
  <2>2. base # <<q, "base", n>>
    BY <2>1
  <2> QED BY <1>2, <1>5, <1>6, <2>1, <2>2 DEF IInv, BaseKeysAreOld
<1> QED BY <1>8, <1>9, <1>11, <1>12 DEF IInv

(* _olm_session_create_inbound: no session of the device matched.          *)
LEMMA CreateInboundStep ==
    ASSUME IInv, NEW p \in Device, NEW s \in Slot, NEW theirs,
           NEW m \in Range(sent[Peer(p)]),
           CreateInboundSession(p, s, theirs, m)
    PROVE  IInv'
<1> DEFINE e == NewInboundSession(session[p][s], Identity(p), LookupKeys(p), theirs, m)
<1>1. /\ ~session[p][s].created
      /\ session' = [session EXCEPT ![p][s] = e]
      /\ UNCHANGED <<stored, opened, sent>>
      /\ MatchingSlots(p, theirs, m) = {}
  BY DEF CreateInboundSession
<1>2. DOMAIN session[p][s] = SessionFields
  BY DEF IInv, Shape
<1>3. /\ DOMAIN e = SessionFields
      /\ e.created => /\ CheckMessageFields(m) /\ SameIdentity(theirs, m)
                      /\ SessionId(e) = <<m.identity_key, m.base_key, m.one_time_key>>
  BY <1>1, <1>2, InboundFields
<1> HIDE DEF e
<1>4. /\ DOMAIN session' = Device
      /\ \A q \in Device : DOMAIN session'[q] = Slot
      /\ \A q \in Device, t \in Slot :
           session'[q][t] = IF q = p /\ t = s THEN e ELSE session[q][t]
  BY <1>1 DEF IInv, Shape
<1>5. Shape'
  BY <1>1, <1>3, <1>4 DEF IInv, Shape
<1>6. PicklesFollow'
  <2>1. stored[p].session[s] = NoPickle
    BY <1>1 DEF IInv, PicklesFollow
  <2> QED BY <1>1, <1>4, <2>1 DEF IInv, PicklesFollow
<1>7. ASSUME e.created, NEW t \in Slot, session[p][t].created,
             SessionId(session[p][t]) = SessionId(e)
      PROVE  FALSE
  <2>1. MatchesInboundSession(session[p][t], theirs, m)
    BY <1>3, <1>7 DEF MatchesInboundSession, SessionId, SameIdentity
  <2> QED BY <1>1, <1>7, <2>1 DEF MatchingSlots
<1>8. OneSessionPerId'
  <2> SUFFICES ASSUME NEW q \in Device, NEW t \in Slot, NEW u \in Slot,
                      session'[q][t].created, session'[q][u].created,
                      SessionId(session'[q][t]) = SessionId(session'[q][u]),
                      t # u
               PROVE  FALSE
    BY DEF OneSessionPerId
  <2>1. CASE q = p /\ t = s
    BY <1>4, <1>7, <2>1
  <2>2. CASE q = p /\ u = s
    BY <1>4, <1>7, <2>2
  <2>3. CASE ~(q = p /\ t = s) /\ ~(q = p /\ u = s)
    BY <1>4, <2>3 DEF IInv, OneSessionPerId
  <2> QED BY <2>1, <2>2, <2>3
<1>9. BaseKeysAreOld'
  <2>1. e.created => e.alice_base_key = m.base_key /\ m.type = "PRE_KEY"
    BY <1>3 DEF SessionId, CheckMessageFields
  <2>2. Peer(p) \in Device
    BY DEF Peer, Device
  <2> QED BY <1>1, <1>4, <2>1, <2>2 DEF IInv, BaseKeysAreOld
<1> QED BY <1>5, <1>6, <1>8, <1>9 DEF IInv

(* Encryption keeps the id, and the message names no other base key.       *)
LEMMA EncryptStep ==
    ASSUME IInv, NEW p \in Device, NEW s \in Slot, Encrypt(p, s)
    PROVE  IInv'
<1> DEFINE e == SessionAfterEncrypt(session[p][s], FreshKey(p))
           m == NextMessage(p, s)
<1>1. /\ session[p][s].created
      /\ sent' = [sent EXCEPT ![p] = Append(@, m)]
      /\ session' = [session EXCEPT ![p][s] = e]
      /\ stored' = [stored EXCEPT ![p].session[s] = PickledSession(session'[p][s]),
                                  ![p].read[s]    = read[p][s]]
      /\ UNCHANGED opened
  BY DEF Encrypt
<1>2. m.type = "PRE_KEY" => m.base_key = session[p][s].alice_base_key
  BY DEF NextMessage, SessionMessage, EncryptMessageType
<1>3. /\ DOMAIN e = SessionFields
      /\ e.created
      /\ SessionId(e) = SessionId(session[p][s])
  <2>1. DOMAIN session[p][s] = SessionFields
    BY DEF IInv, Shape
  <2> QED BY <1>1, <2>1, FieldsKept
<1> HIDE DEF e, m
<1>4. /\ DOMAIN sent' = Device
      /\ \A q \in Device :
           /\ sent'[q] \in Seq(Range(sent'[q]))
           /\ Range(sent'[q]) \subseteq Range(sent[q]) \cup {m}
  <2>1. /\ DOMAIN sent = Device
        /\ \A q \in Device : sent[q] \in Seq(Range(sent[q]))
    BY DEF IInv, Shape
  <2>2. ASSUME NEW q \in Device
        PROVE  sent'[q] = IF q = p THEN Append(sent[q], m) ELSE sent[q]
    BY <1>1, <2>1
  <2> QED BY <1>1, <2>1, <2>2, AppendRange
<1>5. /\ DOMAIN session' = Device
      /\ \A q \in Device : DOMAIN session'[q] = Slot
      /\ \A q \in Device, t \in Slot :
           session'[q][t] = IF q = p /\ t = s THEN e ELSE session[q][t]
  BY <1>1 DEF IInv, Shape
<1>6. /\ DOMAIN stored' = Device
      /\ \A q \in Device :
           /\ DOMAIN stored'[q] = {"one_time_keys", "session", "read"}
           /\ DOMAIN stored'[q].session = Slot
      /\ \A q \in Device, t \in Slot :
           stored'[q].session[t] = IF q = p /\ t = s THEN PickledSession(e)
                                   ELSE stored[q].session[t]
  BY <1>1, <1>5 DEF IInv, Shape
<1>7. Shape'
  BY <1>1, <1>3, <1>4, <1>5, <1>6 DEF IInv, Shape
<1>8. PicklesFollow'
  <2> SUFFICES ASSUME NEW q \in Device, NEW t \in Slot, stored'[q].session[t] # NoPickle
               PROVE  /\ session'[q][t].created
                      /\ SessionId(stored'[q].session[t]) = SessionId(session'[q][t])
    BY DEF PicklesFollow
  <2>1. CASE q = p /\ t = s
    <3>1. stored'[q].session[t] = PickledSession(e) /\ session'[q][t] = e
      BY <1>5, <1>6, <2>1
    <3>2. SessionId(PickledSession(e)) = SessionId(e)
      BY UnpickledFields
    <3> QED BY <1>3, <3>1, <3>2
  <2>2. CASE ~(q = p /\ t = s)
    <3>1. stored'[q].session[t] = stored[q].session[t] /\ session'[q][t] = session[q][t]
      BY <1>5, <1>6, <2>2
    <3> QED BY <3>1 DEF IInv, PicklesFollow
  <2> QED BY <2>1, <2>2
<1>9. \A q \in Device : \A n \in Range(sent'[q]) :
        \/ n \in Range(sent[q])
        \/ n.type = "PRE_KEY" => n.base_key = session[p][s].alice_base_key
  BY <1>2, <1>4
<1> QED BY <1>1, <1>3, <1>7, <1>8, <1>9, ObjectStep

(* Decryption keeps the id,                                                *)
LEMMA DecryptStep ==
    ASSUME IInv, NEW p \in Device, NEW s \in Slot, NEW m, Decrypt(p, s, m)
    PROVE  IInv'
<1> DEFINE e == SessionAfterDecrypt(session[p][s], m)
<1>1. /\ session[p][s].created
      /\ session' = [session EXCEPT ![p][s] = e]
      /\ UNCHANGED <<opened, stored, sent>>
  BY DEF Decrypt
<1>2. /\ DOMAIN e = SessionFields
      /\ e.created
      /\ SessionId(e) = SessionId(session[p][s])
  <2>1. DOMAIN session[p][s] = SessionFields
    BY DEF IInv, Shape
  <2> QED BY <1>1, <2>1, FieldsKept
<1> HIDE DEF e
<1>3. /\ DOMAIN session' = Device
      /\ \A q \in Device : DOMAIN session'[q] = Slot
      /\ \A q \in Device, t \in Slot :
           session'[q][t] = IF q = p /\ t = s THEN e ELSE session[q][t]
  BY <1>1 DEF IInv, Shape
<1>4. Shape'
  BY <1>1, <1>2, <1>3 DEF IInv, Shape
<1>5. PicklesFollow'
  BY <1>1, <1>2, <1>3 DEF IInv, PicklesFollow
<1>6. \A q \in Device : \A n \in Range(sent'[q]) : n \in Range(sent[q])
  BY <1>1
<1> QED BY <1>1, <1>2, <1>4, <1>5, <1>6, ObjectStep

(* and so does pickling.                                                   *)
LEMMA PickleStep ==
    ASSUME IInv, NEW p \in Device,
           \/ \E s \in Slot : PickleSession(p, s)
           \/ PickleAccount(p)
    PROVE  IInv'
<1>1. UNCHANGED <<session, opened, sent>>
  BY DEF PickleSession, PickleAccount
<1>2. OneSessionPerId' /\ BaseKeysAreOld'
  BY <1>1 DEF IInv, OneSessionPerId, BaseKeysAreOld
<1>3. ASSUME NEW s \in Slot, PickleSession(p, s)
      PROVE  Shape' /\ PicklesFollow'
  <2>1. /\ session[p][s].created
        /\ stored' = [stored EXCEPT ![p].session[s] = PickledSession(session[p][s]),
                                    ![p].read[s]    = read[p][s]]
    BY <1>3 DEF PickleSession
  <2>2. /\ DOMAIN stored' = Device
        /\ \A q \in Device :
             /\ DOMAIN stored'[q] = {"one_time_keys", "session", "read"}
             /\ DOMAIN stored'[q].session = Slot
        /\ \A q \in Device, t \in Slot :
             stored'[q].session[t] = IF q = p /\ t = s THEN PickledSession(session[p][s])
                                     ELSE stored[q].session[t]
    BY <2>1 DEF IInv, Shape
  <2>3. Shape'
    BY <1>1, <2>2 DEF IInv, Shape
  <2>4. SessionId(PickledSession(session[p][s])) = SessionId(session[p][s])
    BY UnpickledFields
  <2>5. PicklesFollow'
    BY <1>1, <2>1, <2>2, <2>4 DEF IInv, PicklesFollow
  <2> QED BY <2>3, <2>5
<1>4. ASSUME PickleAccount(p)
      PROVE  Shape' /\ PicklesFollow'
  <2>1. stored' = [stored EXCEPT ![p].one_time_keys = one_time_keys[p]]
    BY <1>4 DEF PickleAccount
  <2>2. /\ DOMAIN stored' = Device
        /\ \A q \in Device :
             /\ DOMAIN stored'[q] = {"one_time_keys", "session", "read"}
             /\ stored'[q].session = stored[q].session
    BY <2>1 DEF IInv, Shape
  <2> QED BY <1>1, <2>2 DEF IInv, Shape, PicklesFollow
<1> QED BY <1>2, <1>3, <1>4 DEF IInv

(* After a restart the sessions are the pickles.                           *)
LEMMA RestartStep ==
    ASSUME IInv, NEW p \in Device, Restart(p)
    PROVE  IInv'
<1>1. /\ session' = [session EXCEPT ![p] = [s \in Slot |->
                        IF stored[p].session[s] = NoPickle
                          THEN SessionInit
                          ELSE UnpickledSession(stored[p].session[s])]]
      /\ UNCHANGED <<stored, opened, sent>>
  BY DEF Restart
<1>2. /\ DOMAIN session' = Device
      /\ \A q \in Device : DOMAIN session'[q] = Slot
      /\ \A t \in Slot :
           session'[p][t] = IF stored[p].session[t] = NoPickle
                              THEN SessionInit
                              ELSE UnpickledSession(stored[p].session[t])
      /\ \A q \in Device \ {p} : session'[q] = session[q]
  BY <1>1 DEF IInv, Shape
<1>3. \A t \in Slot :
        /\ DOMAIN session'[p][t] = SessionFields
        /\ stored[p].session[t] = NoPickle => ~session'[p][t].created
        /\ stored[p].session[t] # NoPickle
             => SessionId(session'[p][t]) = SessionId(stored[p].session[t])
  BY <1>2, UnpickledFields
(* What is a session after the restart was one before, with the same id.   *)
<1>4. \A q \in Device, t \in Slot :
        session'[q][t].created
          => session[q][t].created /\ SessionId(session'[q][t]) = SessionId(session[q][t])
  BY <1>2, <1>3 DEF IInv, PicklesFollow
<1>5. \A q \in Device, t \in Slot :
        session'[q][t].created
          => session'[q][t].alice_base_key = session[q][t].alice_base_key
  BY <1>4 DEF SessionId
<1>6. Shape'
  BY <1>1, <1>2, <1>3 DEF IInv, Shape
<1>7. PicklesFollow'
  <2>1. \A t \in Slot : stored[p].session[t] # NoPickle => session'[p][t].created
    BY <1>2 DEF UnpickledSession, SessionInit
  <2> QED BY <1>1, <1>2, <1>3, <2>1 DEF IInv, PicklesFollow
<1>8. OneSessionPerId'
  BY <1>4 DEF IInv, OneSessionPerId
<1>9. BaseKeysAreOld'
  BY <1>1, <1>4, <1>5 DEF IInv, BaseKeysAreOld
<1> QED BY <1>6, <1>7, <1>8, <1>9 DEF IInv

(* A deletion clears the object and its pickle.                            *)
LEMMA ForgetStep ==
    ASSUME IInv, NEW p \in Device, NEW s \in Slot, Forget(p, s)
    PROVE  IInv'
<1>1. /\ session' = [session EXCEPT ![p][s] = SessionInit]
      /\ stored' = [stored EXCEPT ![p].session[s] = NoPickle,
                                  ![p].read[s]    = read[p][s]]
      /\ UNCHANGED <<opened, sent>>
  BY DEF Forget
<1>2. /\ DOMAIN session' = Device
      /\ \A q \in Device : DOMAIN session'[q] = Slot
      /\ \A q \in Device, t \in Slot :
           session'[q][t] = IF q = p /\ t = s THEN SessionInit ELSE session[q][t]
  BY <1>1 DEF IInv, Shape
<1>3. /\ DOMAIN stored' = Device
      /\ \A q \in Device :
           /\ DOMAIN stored'[q] = {"one_time_keys", "session", "read"}
           /\ DOMAIN stored'[q].session = Slot
      /\ \A q \in Device, t \in Slot :
           stored'[q].session[t] = IF q = p /\ t = s THEN NoPickle
                                   ELSE stored[q].session[t]
  BY <1>1 DEF IInv, Shape
<1>4. DOMAIN SessionInit = SessionFields /\ ~SessionInit.created
  BY UnpickledFields
<1>5. Shape'
  BY <1>1, <1>2, <1>3, <1>4 DEF IInv, Shape
<1>6. PicklesFollow'
  BY <1>2, <1>3 DEF IInv, PicklesFollow
<1>7. OneSessionPerId'
  BY <1>2, <1>4 DEF IInv, OneSessionPerId
<1>8. BaseKeysAreOld'
  BY <1>1, <1>2, <1>4 DEF IInv, BaseKeysAreOld
<1> QED BY <1>5, <1>6, <1>7, <1>8 DEF IInv

(* One-time keys are removed, or nothing happens.                          *)
LEMMA OtherStep ==
    ASSUME IInv,
           \/ \E p \in Device, s \in Slot : RemoveOneTimeKeys(p, s)
           \/ UNCHANGED vars
    PROVE  IInv'
<1>1. UNCHANGED <<session, stored, opened, sent>>
  BY DEF RemoveOneTimeKeys, vars
<1> QED BY <1>1 DEF IInv, Shape, PicklesFollow, BaseKeysAreOld, OneSessionPerId

(* IInv is inductive.                                                      *)
LEMMA NextIInv == IInv /\ [Next]_vars => IInv'
<1> SUFFICES ASSUME IInv, [Next]_vars PROVE IInv'
  OBVIOUS
<1>1. ASSUME NEW p \in Device, NEW s \in Slot, CreateOutboundSession(p, s) PROVE IInv'
  BY <1>1, CreateOutboundStep
<1>2. ASSUME NEW p \in Device, NEW s \in Slot, Encrypt(p, s) PROVE IInv'
  BY <1>2, EncryptStep
<1>3. ASSUME NEW p \in Device, NEW s \in Slot, NEW m, Decrypt(p, s, m) PROVE IInv'
  BY <1>3, DecryptStep
<1>4. ASSUME NEW p \in Device, NEW s \in Slot, NEW theirs,
             NEW m \in Range(sent[Peer(p)]), CreateInboundSession(p, s, theirs, m)
      PROVE  IInv'
  BY <1>4, CreateInboundStep
<1>5. ASSUME NEW p \in Device, NEW s \in Slot, Forget(p, s) PROVE IInv'
  BY <1>5, ForgetStep
<1>6. ASSUME NEW p \in Device, Restart(p) PROVE IInv'
  BY <1>6, RestartStep
<1>7. ASSUME NEW p \in Device,
             \/ \E s \in Slot : PickleSession(p, s)
             \/ PickleAccount(p)
      PROVE  IInv'
  BY <1>7, PickleStep
<1>8. CASE \/ \E p \in Device, s \in Slot : RemoveOneTimeKeys(p, s)
           \/ UNCHANGED vars
  BY <1>8, OtherStep
<1> QED BY <1>1, <1>2, <1>3, <1>4, <1>5, <1>6, <1>7, <1>8 DEF Next

(* However often the pre-key messages of an opening arrive, in whatever    *)
(* order with whatever restarts and deletions in between, a device has at  *)
(* most one session for it.                                                *)
THEOREM OneSession == Spec => []OneSessionPerId
<1>1. IInv => OneSessionPerId
  BY DEF IInv
<1> QED BY <1>1, InitIInv, NextIInv, PTL DEF Spec

-----------------------------------------------------------------------------
Counts == [Device -> Nat]

(* The one-time keys of a device and its fallback key.                     *)
KeysOf(p) == PublishedKeys(p) \cup {FallbackKey(p)}

IsSequence(q) == q \in Seq(Range(q))

(* The opening a session or a pre-key message belongs to: one of o's.      *)
OpeningOf(identity_key, base_key, one_time_key, o, opens) ==
    \E n \in 0 .. opens[o] - 1 :
        /\ identity_key = Identity(o)
        /\ base_key = <<o, "base", n>>
        /\ one_time_key \in KeysOf(Peer(o))

(* A root key that began with an opening of o's.                           *)
BegunBy(path, o, opens) ==
    \E n \in 0 .. opens[o] - 1, key \in KeysOf(Peer(o)) :
        path[1] = TripleDH(Identity(o), <<o, "base", n>>, Identity(Peer(o)), key)

(* The devices take turns: from root keys of odd length the one that       *)
(* opened the session sends, from even ones the other.                     *)
TurnOf(path, p, opens) ==
    /\ IsSequence(path)
    /\ Len(path) >= 1
    /\ \E o \in Device : BegunBy(path, o, opens) /\ (Len(path) % 2 = 1 <=> o = p)

(* No ratchet key that is still to be generated.                           *)
Old(key, keys) ==
    \A d \in Device : key[1] = d /\ key[2] = "ratchet" => key[3] \in 0 .. keys[d] - 1

LastOld(path, keys) == Len(path) > 1 => \A key \in path[Len(path)] : Old(key, keys)

RatchetFields == {"root_key", "sender_chain", "receiver_chains", "skipped_message_keys"}

GoodReceiver(chains, keys) ==
    /\ IsSequence(chains)
    /\ Len(chains) <= OLM_MAX_RECEIVER_CHAINS
    /\ \A i \in DOMAIN chains :
          DOMAIN chains[i] = {"ratchet_key", "chain_key"} /\ Old(chains[i].ratchet_key, keys)

GoodSender(r, p, keys, opens) ==
    LET chain == r.sender_chain[1]
    IN  /\ r.sender_chain = <<[ratchet_key |-> chain.ratchet_key,
                               chain_key   |-> [chain |-> r.root_key,
                                                index |-> chain.chain_key.index]]>>
        /\ chain.chain_key.index \in Nat
        /\ Old(chain.ratchet_key, keys)
        /\ TurnOf(r.root_key, p, opens)
        /\ LastOld(r.root_key, keys)

(* What the ratchet of a session of p is at any time.                      *)
GoodRatchet(r, p, keys, opens) ==
    /\ DOMAIN r = RatchetFields
    /\ GoodReceiver(r.receiver_chains, keys)
    /\ r.sender_chain # <<>> => GoodSender(r, p, keys, opens)
    /\ r.sender_chain = <<>> =>
          r.receiver_chains # <<>> /\ TurnOf(r.root_key, Peer(p), opens)

GoodMessage(m, p, keys, opens) ==
    /\ m.body.mac_key = [chain |-> m.body.mac_key.chain, index |-> m.body.mac_key.index]
    /\ m.body.mac_key.index \in Nat
    /\ TurnOf(m.body.mac_key.chain, p, opens)
    /\ LastOld(m.body.mac_key.chain, keys)
    /\ Old(m.body.ratchet_key, keys)
    /\ m.type = "PRE_KEY" =>
          \E o \in Device : OpeningOf(m.identity_key, m.base_key, m.one_time_key, o, opens)

GoodId(s, opens) ==
    \E o \in Device :
        OpeningOf(s.alice_identity_key, s.alice_base_key, s.bob_one_time_key, o, opens)

(* What has been sent on the chain r sends on is behind it.                *)
BehindSender(r, messages) ==
    r.sender_chain # <<>> =>
        \A i \in DOMAIN messages :
            messages[i].body.mac_key.chain = r.root_key
              => messages[i].body.mac_key.index < r.sender_chain[1].chain_key.index

(* The live session in an object and the pickled one.                      *)
SessionsOf(p, s) ==
    {x \in {session[p][s]} : x.created} \cup ({stored[p].session[s]} \ {NoPickle})

Types ==
    /\ opened \in Counts /\ generated \in Counts
    /\ DOMAIN one_time_keys = Device
    /\ claimed \subseteq UNION {KeysOf(p) : p \in Device}
    /\ \A p \in Device :
         /\ one_time_keys[p] \subseteq PublishedKeys(p)
         /\ stored[p].one_time_keys \subseteq PublishedKeys(p)
         /\ \A s \in Slot :
              ~session[p][s].created =>
                 session[p][s].ratchet = EmptyRatchet /\ ~session[p][s].received_message

GoodObject(x, p, keys, opens, messages) ==
    /\ GoodId(x, opens)
    /\ GoodRatchet(x.ratchet, p, keys, opens)
    /\ BehindSender(x.ratchet, messages)

SessionsGood ==
    \A p \in Device, s \in Slot : \A x \in SessionsOf(p, s) :
        GoodObject(x, p, generated, opened, sent[p])

MessagesGood ==
    \A p \in Device : \A i \in DOMAIN sent[p] :
        /\ GoodMessage(sent[p][i], p, generated, opened)
        /\ \A j \in DOMAIN sent[p] :
              sent[p][i].body.mac_key = sent[p][j].body.mac_key => i = j

(* No two objects of a device send on the same chain.                      *)
SendersApart ==
    \A p \in Device : \A s, t \in Slot : s # t =>
        \A x \in SessionsOf(p, s), y \in SessionsOf(p, t) :
            x.ratchet.sender_chain # <<>> /\ y.ratchet.sender_chain # <<>>
              => x.ratchet.root_key # y.ratchet.root_key

KeysInv == IInv /\ Types /\ SessionsGood /\ MessagesGood /\ SendersApart

(* There are two devices, each the other's peer.                            *)
LEMMA Devices ==
    /\ Alice \in Device /\ Bob \in Device
    /\ \A p \in Device : /\ Peer(p) \in Device /\ Peer(p) # p /\ Peer(Peer(p)) = p
                         /\ \A q \in Device : q = p \/ q = Peer(p)
  BY DevicesAssumption DEF Device, Peer

(* What is old, begun, someone's turn or good stays so while the counters   *)
(* of generated keys and openings grow.                                     *)
LEMMA OldStays ==
    ASSUME NEW keys \in Counts, NEW keys2 \in Counts, \A d \in Device : keys[d] <= keys2[d],
           NEW key, Old(key, keys)
    PROVE  Old(key, keys2)
<1> SUFFICES ASSUME NEW d \in Device, key[1] = d, key[2] = "ratchet"
             PROVE  key[3] \in 0 .. keys2[d] - 1
  BY DEF Old
<1>1. key[3] \in 0 .. keys[d] - 1
  BY DEF Old
<1>2. keys[d] \in Nat /\ keys2[d] \in Nat /\ keys[d] <= keys2[d]
  BY DEF Counts
<1> QED BY <1>1, <1>2

(* The same for openings,                                                   *)
LEMMA BegunStays ==
    ASSUME NEW opens \in Counts, NEW opens2 \in Counts, \A d \in Device : opens[d] <= opens2[d],
           NEW o \in Device
    PROVE  /\ \A path : BegunBy(path, o, opens) => BegunBy(path, o, opens2)
           /\ \A id, base, key : OpeningOf(id, base, key, o, opens)
                                   => OpeningOf(id, base, key, o, opens2)
<1>1. 0 .. opens[o] - 1 \subseteq 0 .. opens2[o] - 1
  <2>1. opens[o] \in Nat /\ opens2[o] \in Nat /\ opens[o] <= opens2[o]
    BY DEF Counts
  <2> QED BY <2>1
<1> QED BY <1>1, Zenon DEF BegunBy, OpeningOf

(* for the turn of a device,                                                *)
LEMMA TurnStays ==
    ASSUME NEW opens \in Counts, NEW opens2 \in Counts, \A d \in Device : opens[d] <= opens2[d],
           NEW p \in Device, NEW path, TurnOf(path, p, opens)
    PROVE  TurnOf(path, p, opens2)
  BY BegunStays, Zenon DEF TurnOf

(* for the ratchet of a session,                                            *)
LEMMA RatchetStays ==
    ASSUME NEW keys \in Counts, NEW keys2 \in Counts, \A d \in Device : keys[d] <= keys2[d],
           NEW opens \in Counts, NEW opens2 \in Counts, \A d \in Device : opens[d] <= opens2[d],
           NEW p \in Device, NEW r, GoodRatchet(r, p, keys, opens)
    PROVE  GoodRatchet(r, p, keys2, opens2)
<1>1. \A key : Old(key, keys) => Old(key, keys2)
  BY OldStays, Zenon
<1>2. \A q \in Device : \A path : TurnOf(path, q, opens) => TurnOf(path, q, opens2)
  BY TurnStays, Zenon
<1>3. \A path : LastOld(path, keys) => LastOld(path, keys2)
  BY <1>1, Zenon DEF LastOld
<1>4. GoodReceiver(r.receiver_chains, keys2)
  BY <1>1, Zenon DEF GoodRatchet, GoodReceiver
<1>5. r.sender_chain # <<>> => GoodSender(r, p, keys2, opens2)
  BY <1>1, <1>2, <1>3, Zenon DEF GoodRatchet, GoodSender
<1> QED BY <1>2, <1>4, <1>5, Devices, Zenon DEF GoodRatchet

(* for a message,                                                           *)
LEMMA MessageStays ==
    ASSUME NEW keys \in Counts, NEW keys2 \in Counts, \A d \in Device : keys[d] <= keys2[d],
           NEW opens \in Counts, NEW opens2 \in Counts, \A d \in Device : opens[d] <= opens2[d],
           NEW p \in Device, NEW m, GoodMessage(m, p, keys, opens)
    PROVE  GoodMessage(m, p, keys2, opens2)
<1>1. \A key : Old(key, keys) => Old(key, keys2)
  BY OldStays, Zenon
<1>2. \A path : TurnOf(path, p, opens) => TurnOf(path, p, opens2)
  BY TurnStays, Zenon
<1>3. \A path : LastOld(path, keys) => LastOld(path, keys2)
  BY <1>1, Zenon DEF LastOld
<1>4. \A o \in Device : \A id, base, key :
         OpeningOf(id, base, key, o, opens) => OpeningOf(id, base, key, o, opens2)
  BY BegunStays, Zenon
<1> QED BY <1>1, <1>2, <1>3, <1>4, Zenon DEF GoodMessage

(* and for the id of a session.                                             *)
LEMMA IdStays ==
    ASSUME NEW opens \in Counts, NEW opens2 \in Counts, \A d \in Device : opens[d] <= opens2[d],
           NEW s, GoodId(s, opens)
    PROVE  GoodId(s, opens2)
  BY BegunStays, Zenon DEF GoodId

(* A root key shows by which base key it began.                             *)
LEMMA Begun ==
    ASSUME NEW opens \in Counts, NEW path, NEW o \in Device, BegunBy(path, o, opens)
    PROVE  /\ \E n \in 0 .. opens[o] - 1 : <<o, "base", n>> \in path[1][2]
           /\ \A q \in Device : \A n : <<q, "base", n>> \in path[1][2] =>
                 q = o /\ n \in 0 .. opens[o] - 1
<1>1. PICK n \in 0 .. opens[o] - 1, key \in KeysOf(Peer(o)) :
         path[1] = TripleDH(Identity(o), <<o, "base", n>>, Identity(Peer(o)), key)
  BY DEF BegunBy
<1>2. path[1][2] = {<<o, "base", n>>, <<Peer(o), "identity", 0>>}
  BY <1>1 DEF TripleDH, SharedSecret, Identity
<1>3. \A q, k : <<q, "base", k>> = <<o, "base", n>> => q = o /\ k = n
  OBVIOUS
<1>4. \A q, k : <<q, "base", k>> # <<Peer(o), "identity", 0>>
  OBVIOUS
<1> QED BY <1>2, <1>3, <1>4

(* It is never the turn of both.                                           *)
LEMMA TurnOfOne ==
    ASSUME NEW opens \in Counts, NEW p \in Device, NEW path
    PROVE  ~(TurnOf(path, p, opens) /\ TurnOf(path, Peer(p), opens))
<1> SUFFICES ASSUME TurnOf(path, p, opens), TurnOf(path, Peer(p), opens) PROVE FALSE
  OBVIOUS
<1>1. PICK o \in Device : BegunBy(path, o, opens) /\ (Len(path) % 2 = 1 <=> o = p)
  BY DEF TurnOf
<1>2. PICK q \in Device : BegunBy(path, q, opens) /\ (Len(path) % 2 = 1 <=> q = Peer(p))
  BY DEF TurnOf
<1>3. o = q
  BY <1>1, <1>2, Begun
<1> QED BY <1>1, <1>2, <1>3, Devices

(* Append, for a sequence of whatever elements.                             *)
LEMMA SequenceAppend ==
    ASSUME NEW q, IsSequence(q), NEW x
    PROVE  /\ IsSequence(Append(q, x))
           /\ Len(q) \in Nat /\ Len(Append(q, x)) = Len(q) + 1
           /\ Append(q, x)[Len(q) + 1] = x
           /\ \A i \in 1 .. Len(q) : Append(q, x)[i] = q[i]
           /\ DOMAIN q = 1 .. Len(q)
<1>1. q \in Seq(Range(q))
  BY DEF IsSequence
<1> QED BY <1>1, AppendRange DEF IsSequence

(* Each ratchet step passes the turn on.                                   *)
LEMMA TurnPasses ==
    ASSUME NEW opens \in Counts, NEW p \in Device, NEW path, TurnOf(path, p, opens), NEW x
    PROVE  /\ TurnOf(Append(path, x), Peer(p), opens)
           /\ Len(Append(path, x)) > 1
           /\ Append(path, x)[Len(Append(path, x))] = x
<1>1. IsSequence(path) /\ Len(path) >= 1
  BY DEF TurnOf
<1>2. /\ IsSequence(Append(path, x)) /\ Len(path) \in Nat
      /\ Len(Append(path, x)) = Len(path) + 1
      /\ Append(path, x)[Len(path) + 1] = x
      /\ Append(path, x)[1] = path[1]
  BY <1>1, SequenceAppend
<1>3. PICK o \in Device : BegunBy(path, o, opens) /\ (Len(path) % 2 = 1 <=> o = p)
  BY DEF TurnOf
<1>4. BegunBy(Append(path, x), o, opens)
  BY <1>2, <1>3 DEF BegunBy
<1>5. (Len(path) + 1) % 2 = 1 <=> ~(Len(path) % 2 = 1)
  BY <1>2
<1>6. o = Peer(p) <=> o # p
  BY Devices
<1> QED BY <1>1, <1>2, <1>3, <1>4, <1>5, <1>6 DEF TurnOf

(* A function with the positions 1 to n is a sequence.                     *)
LEMMA SequenceOf ==
    ASSUME NEW q, NEW n \in Nat, q = [j \in 1 .. n |-> q[j]]
    PROVE  IsSequence(q) /\ Len(q) = n /\ DOMAIN q = 1 .. n
<1>1. DOMAIN q = 1 .. n
  OBVIOUS
<1>2. \A j \in 1 .. n : q[j] \in Range(q)
  BY <1>1 DEF Range
<1> DEFINE S == Range(q)
<1> HIDE DEF S
<1>3. [j \in 1 .. n |-> q[j]] \in Seq(S) /\ Len([j \in 1 .. n |-> q[j]]) = n
  BY <1>2 DEF S
<1> QED BY <1>1, <1>3 DEF S, IsSequence

(* Encryption on the chain there is.                                       *)
LEMMA EncryptOnSender ==
    ASSUME NEW keys \in Counts, NEW opens \in Counts, NEW p \in Device,
           NEW r, GoodRatchet(r, p, keys, opens), r.sender_chain # <<>>,
           NEW fresh_key, NEW plaintext
    PROVE  LET e == AfterEncrypt(r, fresh_key)
               b == EncryptedMessage(r, fresh_key, plaintext)
               n == r.sender_chain[1].chain_key.index
           IN  /\ GoodRatchet(e, p, keys, opens)
               /\ e.sender_chain # <<>>
               /\ e.root_key = r.root_key
               /\ n \in Nat /\ e.sender_chain[1].chain_key.index = n + 1
               /\ b.mac_key = [chain |-> r.root_key, index |-> n]
               /\ b.ratchet_key = r.sender_chain[1].ratchet_key
<1> DEFINE e == AfterEncrypt(r, fresh_key)
           b == EncryptedMessage(r, fresh_key, plaintext)
           k == r.sender_chain[1].ratchet_key
           n == r.sender_chain[1].chain_key.index
<1>1. /\ GoodSender(r, p, keys, opens)
      /\ DOMAIN r = RatchetFields
      /\ GoodReceiver(r.receiver_chains, keys)
  BY DEF GoodRatchet
<1>2. /\ n \in Nat
      /\ r.sender_chain = <<[ratchet_key |-> k, chain_key |-> [chain |-> r.root_key, index |-> n]]>>
  BY <1>1, Zenon DEF GoodSender
<1>3. WithSenderChain(r, fresh_key) = r
  BY DEF WithSenderChain
<1>4. e = [r EXCEPT !.sender_chain[1].chain_key = AdvanceChainKey(@)]
  BY <1>3, Zenon DEF AfterEncrypt
<1>5. /\ DOMAIN e = RatchetFields
      /\ e.root_key = r.root_key
      /\ e.receiver_chains = r.receiver_chains
      /\ e.sender_chain = [r.sender_chain EXCEPT ![1].chain_key = AdvanceChainKey(@)]
  BY <1>1, <1>4 DEF RatchetFields
<1>6. r.sender_chain[1].chain_key = [chain |-> r.root_key, index |-> n]
  BY <1>2
<1>7. AdvanceChainKey(r.sender_chain[1].chain_key) = [chain |-> r.root_key, index |-> n + 1]
  BY <1>6, <1>2 DEF AdvanceChainKey
<1>8. e.sender_chain = <<[ratchet_key |-> k, chain_key |-> [chain |-> r.root_key, index |-> n + 1]]>>
  BY <1>2, <1>5, <1>7
<1>9. /\ b.mac_key = [chain |-> r.root_key, index |-> n]
      /\ b.ratchet_key = k
  BY <1>3, <1>6 DEF EncryptedMessage
<1>10. e.sender_chain # <<>> /\ e.sender_chain[1].ratchet_key = k
       /\ e.sender_chain[1].chain_key.index = n + 1 /\ n + 1 \in Nat
  BY <1>2, <1>8
<1>11. /\ Old(k, keys) /\ TurnOf(r.root_key, p, opens) /\ LastOld(r.root_key, keys)
  BY <1>1, Zenon DEF GoodSender
<1> HIDE DEF e, b, k, n
<1>12. GoodSender(e, p, keys, opens)
  BY <1>5, <1>8, <1>10, <1>11, Zenon DEF GoodSender
<1>13. GoodRatchet(e, p, keys, opens)
  BY <1>1, <1>5, <1>10, <1>12, Zenon DEF GoodRatchet
<1> QED BY <1>2, <1>5, <1>9, <1>10, <1>13 DEF e, b, k, n

(* A new chain is started with a new key, which its root key ends with.    *)
LEMMA NewSender ==
    ASSUME NEW keys \in Counts, NEW opens \in Counts, NEW p \in Device,
           NEW r, GoodRatchet(r, p, keys, opens), r.sender_chain = <<>>,
           NEW keys2 \in Counts, \A d \in Device : keys[d] <= keys2[d],
           keys2[p] = keys[p] + 1,
           NEW fresh, fresh = <<p, "ratchet", keys[p]>>, NEW plaintext
    PROVE  \E w :
               /\ GoodRatchet(w, p, keys2, opens)
               /\ w.sender_chain # <<>>
               /\ Len(w.root_key) > 1
               /\ fresh \in w.root_key[Len(w.root_key)]
               /\ AfterEncrypt(w, fresh) = AfterEncrypt(r, fresh)
               /\ EncryptedMessage(w, fresh, plaintext) = EncryptedMessage(r, fresh, plaintext)
<1> DEFINE w      == WithSenderChain(r, fresh)
           theirs == r.receiver_chains[1].ratchet_key
           root   == Append(r.root_key, {fresh, theirs})
           link   == [ratchet_key |-> fresh, chain_key |-> [chain |-> root, index |-> 0]]
<1>1. /\ DOMAIN r = RatchetFields
      /\ GoodReceiver(r.receiver_chains, keys)
      /\ r.receiver_chains # <<>> /\ TurnOf(r.root_key, Peer(p), opens)
  BY Zenon DEF GoodRatchet
<1>2. keys[p] \in Nat
  BY DEF Counts
<1>3. /\ w = [r EXCEPT !.root_key = root, !.sender_chain = ListInsertFront(@, link, 1)]
  BY DEF WithSenderChain, CreateRootKey, SharedSecret, NewChainKey
<1>4. ListInsertFront(r.sender_chain, link, 1) = <<link>>
  <2> DEFINE l == ListInsertFront(<<>>, link, 1)
  <2>1. l \in Seq({link}) /\ Len(l) = 1 /\ l[1] = link
    BY ListInsertFrontEmpty
  <2> HIDE DEF l, link
  <2>2. l = <<link>>
    BY <2>1
  <2> QED BY <2>2 DEF l
<1>5. /\ DOMAIN w = RatchetFields
      /\ w.root_key = root
      /\ w.sender_chain = <<link>>
      /\ w.receiver_chains = r.receiver_chains
  BY <1>1, <1>3, <1>4 DEF RatchetFields
<1>6. Old(theirs, keys)
  <2>1. 1 \in DOMAIN r.receiver_chains
    BY <1>1 DEF GoodReceiver, IsSequence
  <2> QED BY <1>1, <2>1, Zenon DEF GoodReceiver
<1>7. Old(theirs, keys2)
  BY <1>6, OldStays
<1>8. Old(fresh, keys2)
  BY <1>2 DEF Old
<1>9. /\ TurnOf(root, Peer(Peer(p)), opens)
      /\ Len(root) > 1
      /\ root[Len(root)] = {fresh, theirs}
  BY <1>1, Devices, TurnPasses
<1>10. Peer(Peer(p)) = p
  BY Devices
<1>11. LastOld(root, keys2)
  BY <1>7, <1>8, <1>9 DEF LastOld
<1>12. GoodReceiver(w.receiver_chains, keys2)
  <2>1. \A key : Old(key, keys) => Old(key, keys2)
    BY OldStays
  <2> QED BY <1>1, <1>5, <2>1, Zenon DEF GoodReceiver
<1>13. /\ w.sender_chain # <<>>
       /\ w.sender_chain[1] = link
       /\ link.ratchet_key = fresh
       /\ link.chain_key.index = 0
       /\ fresh \in {fresh, theirs}
  <2>1. link.ratchet_key = fresh /\ link.chain_key.index = 0 /\ fresh \in {fresh, theirs}
    OBVIOUS
  <2> HIDE DEF w, link, root
  <2>2. w.sender_chain # <<>> /\ w.sender_chain[1] = link
    BY <1>5
  <2> QED BY <2>1, <2>2
<1>14. w.sender_chain = <<[ratchet_key |-> link.ratchet_key,
                           chain_key   |-> [chain |-> w.root_key, index |-> link.chain_key.index]]>>
  BY <1>5
<1>15. WithSenderChain(w, fresh) = w
  BY <1>13, Zenon DEF WithSenderChain
<1>16. AfterEncrypt(w, fresh) = AfterEncrypt(r, fresh)
  BY <1>15, Zenon DEF AfterEncrypt
<1>17. EncryptedMessage(w, fresh, plaintext) = EncryptedMessage(r, fresh, plaintext)
  BY <1>15, Zenon DEF EncryptedMessage
<1> HIDE DEF w, root, link, theirs
<1>18. GoodSender(w, p, keys2, opens)
  <2>1. link.chain_key.index \in Nat
    BY <1>13
  <2> QED BY <1>5, <1>8, <1>9, <1>10, <1>11, <1>13, <1>14, <2>1, Zenon DEF GoodSender
<1>19. GoodRatchet(w, p, keys2, opens)
  BY <1>5, <1>12, <1>13, <1>18, Zenon DEF GoodRatchet
<1> QED BY <1>5, <1>9, <1>13, <1>16, <1>17, <1>19 DEF w

(* What encryption makes of the ratchet r of p: e, with message body b.    *)
EncryptedTo(r, e, b, p, keys, keys2, opens) ==
    LET n == b.mac_key.index
    IN  /\ GoodRatchet(e, p, keys2, opens)
        /\ e.sender_chain # <<>>
        /\ b.mac_key = [chain |-> e.root_key, index |-> n]
        /\ n \in Nat /\ e.sender_chain[1].chain_key.index = n + 1
        /\ TurnOf(e.root_key, p, opens) /\ LastOld(e.root_key, keys2)
        /\ Old(b.ratchet_key, keys2)
        /\ \/ /\ r.sender_chain # <<>>
              /\ e.root_key = r.root_key
              /\ n = r.sender_chain[1].chain_key.index
           \/ /\ Len(e.root_key) > 1
              /\ <<p, "ratchet", keys[p]>> \in e.root_key[Len(e.root_key)]

(* What encryption makes of a ratchet, and the key of the message.         *)
LEMMA Encrypted ==
    ASSUME NEW keys \in Counts, NEW opens \in Counts, NEW p \in Device,
           NEW r, GoodRatchet(r, p, keys, opens), NEW plaintext,
           NEW keys2 \in Counts, \A d \in Device : keys[d] <= keys2[d],
           r.sender_chain = <<>> => keys2[p] = keys[p] + 1,
           r.sender_chain # <<>> => keys2 = keys,
           NEW fresh, fresh = <<p, "ratchet", keys[p]>>,
           NEW e, e = AfterEncrypt(r, fresh),
           NEW b, b = EncryptedMessage(r, fresh, plaintext)
    PROVE  EncryptedTo(r, e, b, p, keys, keys2, opens)
<1>2. PICK w :
        /\ GoodRatchet(w, p, keys2, opens)
        /\ w.sender_chain # <<>>
        /\ e = AfterEncrypt(w, fresh) /\ b = EncryptedMessage(w, fresh, plaintext)
        /\ \/ /\ r.sender_chain # <<>> /\ w = r
           \/ /\ Len(w.root_key) > 1
              /\ fresh \in w.root_key[Len(w.root_key)]
  <2>1. CASE r.sender_chain = <<>>
    <3>1. keys2[p] = keys[p] + 1
      BY <2>1
    <3>2. \E w :
               /\ GoodRatchet(w, p, keys2, opens)
               /\ w.sender_chain # <<>>
               /\ Len(w.root_key) > 1
               /\ fresh \in w.root_key[Len(w.root_key)]
               /\ AfterEncrypt(w, fresh) = AfterEncrypt(r, fresh)
               /\ EncryptedMessage(w, fresh, plaintext) = EncryptedMessage(r, fresh, plaintext)
      BY <2>1, <3>1, NewSender
    <3> QED BY <3>2, Zenon
  <2>2. CASE r.sender_chain # <<>>
    BY <2>2
  <2> QED BY <2>1, <2>2
<1>3. LET n == w.sender_chain[1].chain_key.index
      IN  /\ GoodRatchet(e, p, keys2, opens)
          /\ e.sender_chain # <<>>
          /\ e.root_key = w.root_key
          /\ n \in Nat /\ e.sender_chain[1].chain_key.index = n + 1
          /\ b.mac_key = [chain |-> w.root_key, index |-> n]
          /\ b.ratchet_key = w.sender_chain[1].ratchet_key
  BY <1>2, EncryptOnSender
<1>4. b.mac_key.index = w.sender_chain[1].chain_key.index
  BY <1>3
<1>5. /\ TurnOf(w.root_key, p, opens) /\ LastOld(w.root_key, keys2)
      /\ Old(w.sender_chain[1].ratchet_key, keys2)
  BY <1>2, Zenon DEF GoodRatchet, GoodSender
<1> QED BY <1>2, <1>3, <1>4, <1>5 DEF EncryptedTo

(* The first matching chain is one that matches.                           *)
LEMMA ReceiverChainThere ==
    ASSUME NEW r, IsSequence(r.receiver_chains), NEW ratchet_key,
           HasReceiverChain(r, ratchet_key)
    PROVE  /\ ReceiverChain(r, ratchet_key) \in DOMAIN r.receiver_chains
           /\ r.receiver_chains[ReceiverChain(r, ratchet_key)].ratchet_key = ratchet_key
<1> DEFINE T == {i \in DOMAIN r.receiver_chains : r.receiver_chains[i].ratchet_key = ratchet_key}
<1>1. DOMAIN r.receiver_chains = 1 .. Len(r.receiver_chains) /\ Len(r.receiver_chains) \in Nat
  BY DEF IsSequence
<1>2. T \subseteq Nat /\ T # {}
  BY <1>1 DEF HasReceiverChain
<1>3. PICK i \in T : \A j \in T : i <= j
  <2> HIDE DEF T
  <2> QED BY <1>2, LeastElement
<1>4. \A j \in 1 .. i - 1 : r.receiver_chains[j].ratchet_key # ratchet_key
  <2> SUFFICES ASSUME NEW j \in 1 .. i - 1, r.receiver_chains[j].ratchet_key = ratchet_key
               PROVE  FALSE
    OBVIOUS
  <2>1. i \in 1 .. Len(r.receiver_chains)
    BY <1>1
  <2>2. j \in T
    BY <1>1, <2>1
  <2>3. i <= j
    BY <1>3, <2>2
  <2> QED BY <2>1, <2>3
<1>5. \E i2 \in DOMAIN r.receiver_chains :
        /\ r.receiver_chains[i2].ratchet_key = ratchet_key
        /\ \A j \in 1 .. i2 - 1 : r.receiver_chains[j].ratchet_key # ratchet_key
  BY <1>3, <1>4
<1> QED BY <1>5, Zenon DEF ReceiverChain

(* What the search and the skipping change of a ratchet is for the keys to *)
(* come of no account.                                                     *)
LEMMA Recorded ==
    ASSUME NEW keys \in Counts, NEW opens \in Counts, NEW p \in Device,
           NEW r, GoodRatchet(r, p, keys, opens),
           NEW i \in DOMAIN r.receiver_chains, NEW key, NEW e,
           DOMAIN e = RatchetFields, e.root_key = r.root_key, e.sender_chain = r.sender_chain,
           e.receiver_chains = [r.receiver_chains EXCEPT ![i].chain_key = key]
    PROVE  GoodRatchet(e, p, keys, opens)
<1> DEFINE chains == r.receiver_chains
<1>1. /\ DOMAIN r = RatchetFields
      /\ GoodReceiver(chains, keys)
  BY Zenon DEF GoodRatchet
<1>2. /\ DOMAIN e = RatchetFields
      /\ e.root_key = r.root_key
      /\ e.sender_chain = r.sender_chain
      /\ e.receiver_chains = [chains EXCEPT ![i].chain_key = key]
  OBVIOUS
<1>3. /\ chains \in Seq(Range(chains)) /\ DOMAIN chains = 1 .. Len(chains)
      /\ Len(chains) \in Nat /\ Len(chains) <= OLM_MAX_RECEIVER_CHAINS
      /\ \A j \in DOMAIN chains :
            DOMAIN chains[j] = {"ratchet_key", "chain_key"} /\ Old(chains[j].ratchet_key, keys)
  BY <1>1 DEF GoodReceiver, IsSequence
<1> DEFINE list == [chains EXCEPT ![i].chain_key = key]
<1>4. /\ DOMAIN list = DOMAIN chains
      /\ \A j \in DOMAIN chains :
            list[j] = IF j = i THEN [chains[i] EXCEPT !.chain_key = key] ELSE chains[j]
  BY <1>3
<1>5. \A j \in DOMAIN chains :
        /\ DOMAIN list[j] = {"ratchet_key", "chain_key"}
        /\ list[j].ratchet_key = chains[j].ratchet_key
  BY <1>3, <1>4
<1>6. IsSequence(list) /\ Len(list) = Len(chains)
  <2>1. list = [j \in 1 .. Len(chains) |-> list[j]]
    BY <1>3
  <2> HIDE DEF list
  <2> QED BY <1>3, <2>1, SequenceOf
<1> HIDE DEF list
<1>7. GoodReceiver(list, keys)
  BY <1>3, <1>4, <1>5, <1>6 DEF GoodReceiver
<1>8. list # <<>>
  <2>1. Len(<<>>) = 0 /\ Len(chains) >= 1
    BY <1>3
  <2> QED BY <1>6, <2>1
<1>9. GoodSender(r, p, keys, opens) => GoodSender(e, p, keys, opens)
  BY <1>2, Zenon DEF GoodSender
<1>10. GoodRatchet(e, p, keys, opens)
  <2>1. e.receiver_chains = list
    BY <1>2 DEF list
  <2> QED BY <1>2, <1>7, <1>8, <1>9, <2>1, Zenon DEF GoodRatchet
<1> QED BY <1>10

(* A new receiver chain: the root key moves on, the chain comes first in   *)
(* the list, where the oldest may fall off, and the chain we sent on is    *)
(* dropped.                                                                *)
NewReceiverTo(r, ratchet_key, w) ==
    /\ DOMAIN w = RatchetFields
    /\ w.root_key = Append(r.root_key, {r.sender_chain[1].ratchet_key, ratchet_key})
    /\ w.sender_chain = <<>>
    /\ w.skipped_message_keys = r.skipped_message_keys
    /\ IsSequence(w.receiver_chains)
    /\ DOMAIN w.receiver_chains = 1 .. Len(w.receiver_chains)
    /\ Len(w.receiver_chains) \in 1 .. OLM_MAX_RECEIVER_CHAINS
    /\ w.receiver_chains[1] = [ratchet_key |-> ratchet_key,
                               chain_key   |-> [chain |-> w.root_key, index |-> 0]]
    /\ \A i \in 2 .. Len(w.receiver_chains) :
          /\ i - 1 \in DOMAIN r.receiver_chains
          /\ w.receiver_chains[i] = r.receiver_chains[i - 1]

(* What _olm_ratchet_decrypt does to a ratchet for an unknown ratchet key. *)
LEMMA NewReceiverParts ==
    ASSUME NEW keys \in Counts, NEW opens \in Counts, NEW p \in Device,
           NEW r, GoodRatchet(r, p, keys, opens), r.sender_chain # <<>>,
           NEW ratchet_key, ~HasReceiverChain(r, ratchet_key),
           NEW w, w = WithReceiverChain(r, ratchet_key)
    PROVE  NewReceiverTo(r, ratchet_key, w)
<1> DEFINE root   == NextRootKey(r, ratchet_key)
           link   == [ratchet_key |-> ratchet_key, chain_key |-> NewChainKey(root)]
           chains == r.receiver_chains
           list   == ListInsertFront(chains, link, OLM_MAX_RECEIVER_CHAINS)
<1>1. /\ DOMAIN r = RatchetFields
      /\ GoodReceiver(chains, keys)
      /\ GoodSender(r, p, keys, opens)
  BY Zenon DEF GoodRatchet
<1>2. w = [r EXCEPT !.root_key = root, !.receiver_chains = list, !.sender_chain = ListErase(@, 1)]
  BY Zenon DEF WithReceiverChain
<1>3. ListErase(r.sender_chain, 1) = <<>>
  <2>1. \A x : ListErase(<<x>>, 1) = <<>>
    <3> SUFFICES ASSUME NEW x PROVE ListErase(<<x>>, 1) = <<>>
      OBVIOUS
    <3>1. <<x>> \in Seq({x}) /\ 1 \in 1 .. Len(<<x>>) /\ Len(<<x>>) = 1
      OBVIOUS
    <3> DEFINE q == <<x>>
    <3>2. q \in Seq({x}) /\ 1 \in 1 .. Len(q) /\ Len(q) = 1
      BY <3>1
    <3> HIDE DEF q
    <3>3. ListErase(q, 1) \in Seq({x}) /\ Len(ListErase(q, 1)) = Len(q) - 1
      BY <3>2, ListEraseProperties
    <3>4. ListErase(q, 1) = <<>>
      BY <3>2, <3>3
    <3> QED BY <3>4 DEF q
  <2> QED BY <1>1, <2>1, Zenon DEF GoodSender
<1>4. /\ DOMAIN w = RatchetFields
      /\ w.root_key = root
      /\ w.receiver_chains = list
      /\ w.sender_chain = <<>>
      /\ w.skipped_message_keys = r.skipped_message_keys
  BY <1>1, <1>2, <1>3 DEF RatchetFields
<1>5. root = Append(r.root_key, {r.sender_chain[1].ratchet_key, ratchet_key})
  BY Zenon DEF NextRootKey, CreateRootKey, SharedSecret
<1> HIDE DEF root
<1>6. link = [ratchet_key |-> ratchet_key, chain_key |-> [chain |-> w.root_key, index |-> 0]]
  BY <1>4 DEF NewChainKey
<1>7. /\ chains \in Seq(Range(chains)) /\ DOMAIN chains = 1 .. Len(chains)
      /\ Len(chains) \in Nat /\ Len(chains) <= OLM_MAX_RECEIVER_CHAINS
  BY <1>1 DEF GoodReceiver, IsSequence
<1> HIDE DEF link, list, chains
<1>8. LET S == Range(chains) \cup {link}
      IN  /\ list \in Seq(S)
          /\ Len(list) = IF Len(chains) < OLM_MAX_RECEIVER_CHAINS
                           THEN Len(chains) + 1 ELSE Len(chains)
          /\ list[1] = link
          /\ \A i \in 2 .. Len(list) : list[i] = chains[i - 1]
  <2> DEFINE S == Range(chains) \cup {link}
  <2>1. chains \in Seq(S) /\ link \in S
    BY <1>7
  <2>2. OLM_MAX_RECEIVER_CHAINS \in Nat \ {0}
    BY ReceiverChainsAssumption
  <2> HIDE DEF S
  <2>3. /\ list \in Seq(S)
        /\ Len(list) = IF Len(chains) < OLM_MAX_RECEIVER_CHAINS
                         THEN Len(chains) + 1 ELSE Len(chains)
        /\ list[1] = link
        /\ \A i \in 2 .. Len(list) : list[i] = chains[i - 1]
    BY <1>7, <2>1, <2>2, ListInsertFrontProperties DEF list
  <2> QED BY <2>3 DEF S
<1>9. /\ DOMAIN list = 1 .. Len(list)
      /\ Len(list) \in 1 .. OLM_MAX_RECEIVER_CHAINS
      /\ IsSequence(list)
      /\ \A i \in 2 .. Len(list) : i - 1 \in DOMAIN chains
  <2>1. OLM_MAX_RECEIVER_CHAINS \in Nat \ {0}
    BY ReceiverChainsAssumption
  <2>2. DOMAIN list = 1 .. Len(list) /\ Len(list) \in Nat
    BY <1>8
  <2>3. list = [j \in 1 .. Len(list) |-> list[j]]
    BY <1>8
  <2>4. IsSequence(list)
    BY <2>2, <2>3, SequenceOf
  <2>5. Len(list) \in 1 .. OLM_MAX_RECEIVER_CHAINS /\ Len(list) <= Len(chains) + 1
    BY <1>7, <1>8, <2>1, <2>2
  <2> QED BY <1>7, <2>2, <2>4, <2>5
<1> QED BY <1>4, <1>5, <1>6, <1>8, <1>9 DEF chains, NewReceiverTo

(* A new receiver chain keeps a ratchet good.                              *)
LEMMA NewReceiver ==
    ASSUME NEW keys \in Counts, NEW opens \in Counts, NEW p \in Device,
           NEW r, GoodRatchet(r, p, keys, opens), r.sender_chain # <<>>,
           NEW ratchet_key, Old(ratchet_key, keys), ~HasReceiverChain(r, ratchet_key)
    PROVE  LET w == WithReceiverChain(r, ratchet_key)
           IN  /\ GoodRatchet(w, p, keys, opens)
               /\ w.sender_chain = <<>>
               /\ HasReceiverChain(w, ratchet_key)
<1> DEFINE w     == WithReceiverChain(r, ratchet_key)
           ours  == r.sender_chain[1].ratchet_key
           list  == w.receiver_chains
<1>1. /\ DOMAIN w = RatchetFields
      /\ w.root_key = Append(r.root_key, {ours, ratchet_key})
      /\ w.sender_chain = <<>>
      /\ IsSequence(list)
      /\ DOMAIN list = 1 .. Len(list)
      /\ Len(list) \in 1 .. OLM_MAX_RECEIVER_CHAINS
      /\ list[1] = [ratchet_key |-> ratchet_key,
                    chain_key   |-> [chain |-> w.root_key, index |-> 0]]
      /\ \A i \in 2 .. Len(list) :
            i - 1 \in DOMAIN r.receiver_chains /\ list[i] = r.receiver_chains[i - 1]
  <2> HIDE DEF w
  <2>1. w = WithReceiverChain(r, ratchet_key)
    BY DEF w
  <2>2. NewReceiverTo(r, ratchet_key, w)
    BY <2>1, NewReceiverParts
  <2> QED BY <2>2 DEF NewReceiverTo
<1> HIDE DEF w, ours
<1>2. TurnOf(r.root_key, p, opens)
  BY Zenon DEF GoodRatchet, GoodSender
<1>3. TurnOf(w.root_key, Peer(p), opens)
  BY <1>1, <1>2, TurnPasses
<1>4. DOMAIN list[1] = {"ratchet_key", "chain_key"} /\ list[1].ratchet_key = ratchet_key
  BY <1>1
<1>5. \A j \in DOMAIN r.receiver_chains :
         /\ DOMAIN r.receiver_chains[j] = {"ratchet_key", "chain_key"}
         /\ Old(r.receiver_chains[j].ratchet_key, keys)
  BY Zenon DEF GoodRatchet, GoodReceiver
<1> HIDE DEF list
<1>6. OLM_MAX_RECEIVER_CHAINS \in Nat
  BY ReceiverChainsAssumption
<1>7. GoodReceiver(list, keys)
  <2>1. ASSUME NEW j \in DOMAIN list
        PROVE  DOMAIN list[j] = {"ratchet_key", "chain_key"} /\ Old(list[j].ratchet_key, keys)
    <3>1. CASE j = 1
      BY <1>4, <3>1
    <3>2. CASE j # 1
      <4>1. j \in 2 .. Len(list)
        BY <1>1, <3>2
      <4> QED BY <1>1, <1>5, <4>1
    <3> QED BY <3>1, <3>2
  <2>2. Len(list) <= OLM_MAX_RECEIVER_CHAINS
    BY <1>1, <1>6
  <2> QED BY <1>1, <2>1, <2>2, Zenon DEF GoodReceiver
<1>8. list # <<>> /\ 1 \in DOMAIN list
  BY <1>1, <1>6
<1>9. HasReceiverChain(w, ratchet_key)
  BY <1>4, <1>8 DEF HasReceiverChain, list
<1>10. GoodRatchet(w, p, keys, opens)
  <2>1. w.receiver_chains = list
    BY DEF list
  <2> QED BY <1>1, <1>3, <1>7, <1>8, <2>1, Zenon DEF GoodRatchet
<1> QED BY <1>1, <1>9, <1>10 DEF w

(* Decryption leaves the sending side alone or drops it.                   *)
LEMMA Decrypted ==
    ASSUME NEW keys \in Counts, NEW opens \in Counts, NEW p \in Device,
           NEW r, GoodRatchet(r, p, keys, opens),
           NEW b, Old(b.ratchet_key, keys), Decrypts(r, b)
    PROVE  LET e == AfterDecrypt(r, b)
           IN  /\ GoodRatchet(e, p, keys, opens)
               /\ e.sender_chain # <<>> =>
                     r.sender_chain # <<>> /\ e.sender_chain = r.sender_chain
                     /\ e.root_key = r.root_key
<1> DEFINE e == AfterDecrypt(r, b)
           w == WithReceiverChain(r, b.ratchet_key)
<1>1. CASE AlreadyAdvanced(r, b)
  <2> DEFINE list == ListErase(r.skipped_message_keys, FirstOf(SkippedKeysFor(r, b)))
  <2>1. e = [r EXCEPT !.skipped_message_keys = list]
    BY <1>1, Zenon DEF AfterDecrypt, AfterDecryptSkipped
  <2>2. DOMAIN r = RatchetFields
    BY Zenon DEF GoodRatchet
  <2> HIDE DEF list, e
  <2>3. /\ DOMAIN e = RatchetFields
        /\ e.root_key = r.root_key
        /\ e.receiver_chains = r.receiver_chains
        /\ e.sender_chain = r.sender_chain
    BY <2>1, <2>2 DEF RatchetFields
  <2>4. GoodSender(r, p, keys, opens) => GoodSender(e, p, keys, opens)
    BY <2>3, Zenon DEF GoodSender
  <2>5. GoodRatchet(e, p, keys, opens)
    BY <2>3, <2>4, Zenon DEF GoodRatchet
  <2> QED BY <2>3, <2>5 DEF e
<1>2. CASE ~AlreadyAdvanced(r, b)
  <2>1. /\ GoodRatchet(w, p, keys, opens)
        /\ HasReceiverChain(w, b.ratchet_key)
        /\ w.sender_chain # <<>> =>
              r.sender_chain # <<>> /\ w.sender_chain = r.sender_chain
              /\ w.root_key = r.root_key
    <3>1. CASE HasReceiverChain(r, b.ratchet_key)
      <4>1. w = r
        BY <3>1, Zenon DEF WithReceiverChain
      <4> QED BY <3>1, <4>1
    <3>2. CASE ~HasReceiverChain(r, b.ratchet_key)
      <4>1. r.sender_chain # <<>>
        BY <3>2, Zenon DEF Decrypts, VerifiesOnNewChain
      <4>2. /\ GoodRatchet(w, p, keys, opens)
            /\ w.sender_chain = <<>>
            /\ HasReceiverChain(w, b.ratchet_key)
        <5> HIDE DEF e
        <5> QED BY <3>2, <4>1, NewReceiver
      <4> QED BY <4>2
    <3> QED BY <3>1, <3>2
  <2> DEFINE i       == ReceiverChain(w, b.ratchet_key)
             chain   == w.receiver_chains[i]
             skipped == AfterSkipping(w.skipped_message_keys, chain, b.counter)
             key     == AdvanceChainKey([chain.chain_key EXCEPT !.index = b.counter])
  <2>2. DOMAIN w = RatchetFields /\ IsSequence(w.receiver_chains)
    BY <2>1, Zenon DEF GoodRatchet, GoodReceiver
  <2> HIDE DEF w
  <2>3. i \in DOMAIN w.receiver_chains
    BY <2>1, <2>2, ReceiverChainThere
  <2>4. e = [w EXCEPT !.skipped_message_keys = skipped, !.receiver_chains[i].chain_key = key]
    BY <1>2, <2>2, <2>3 DEF AfterDecrypt, AfterDecryptOnChain, w, RatchetFields
  <2> HIDE DEF i, chain, skipped, key, e
  <2>5. /\ DOMAIN e = RatchetFields
        /\ e.root_key = w.root_key
        /\ e.sender_chain = w.sender_chain
        /\ e.receiver_chains = [w.receiver_chains EXCEPT ![i].chain_key = key]
    BY <2>2, <2>4 DEF RatchetFields
  <2>6. GoodRatchet(e, p, keys, opens)
    BY <2>1, <2>3, <2>5, Recorded
  <2> QED BY <2>1, <2>5, <2>6 DEF e
<1> QED BY <1>1, <1>2

(* The ratchet of a session just opened, on either side.                   *)
LEMMA OutboundGood ==
    ASSUME NEW keys \in Counts, NEW opens \in Counts, NEW p \in Device,
           NEW n \in 0 .. opens[p] - 1, NEW key \in KeysOf(Peer(p)), NEW k, NEW r,
           r = InitialiseAsAlice(TripleDH(Identity(p), <<p, "base", n>>, Identity(Peer(p)), key),
                                 <<p, "initial", k>>)
    PROVE  /\ GoodRatchet(r, p, keys, opens)
           /\ r.sender_chain # <<>>
           /\ r.sender_chain[1].chain_key.index = 0
           /\ <<p, "base", n>> \in r.root_key[1][2]
<1> DEFINE secret == TripleDH(Identity(p), <<p, "base", n>>, Identity(Peer(p)), key)
           root   == <<secret>>
           first  == <<p, "initial", k>>
           link   == [ratchet_key |-> first, chain_key |-> [chain |-> root, index |-> 0]]
<1>1. <<p, "base", n>> \in secret[2]
  BY DEF TripleDH, SharedSecret
<1>2. Old(first, keys)
  BY DEF Old
<1> HIDE DEF secret, first
<1>3. r = [root_key |-> root, sender_chain |-> <<link>>, receiver_chains |-> <<>>,
           skipped_message_keys |-> <<>>]
  BY DEF InitialiseAsAlice, NewChainKey, secret, first
<1>4. /\ DOMAIN r = RatchetFields /\ r.root_key = root
      /\ r.sender_chain = <<link>> /\ r.receiver_chains = <<>>
  BY <1>3 DEF RatchetFields
<1>5. IsSequence(root) /\ Len(root) = 1 /\ root[1] = secret
  <2>1. Range(root) = {secret}
    BY DEF Range
  <2> QED BY <2>1 DEF IsSequence
<1>6. BegunBy(root, p, opens)
  BY <1>5, Zenon DEF BegunBy, secret
<1>7. TurnOf(root, p, opens) /\ LastOld(root, keys)
  BY <1>5, <1>6 DEF TurnOf, LastOld
<1>8. link.ratchet_key = first /\ link.chain_key.index = 0
  OBVIOUS
<1>9. GoodReceiver(<<>>, keys)
  <2>1. Range(<<>>) = {} /\ <<>> \in Seq({}) /\ DOMAIN <<>> = {} /\ Len(<<>>) = 0
    BY DEF Range
  <2> QED BY <2>1, ReceiverChainsAssumption DEF GoodReceiver, IsSequence
<1>10. r.sender_chain # <<>> /\ r.sender_chain[1] = link
  BY <1>4
<1>11. r.sender_chain = <<[ratchet_key |-> link.ratchet_key,
                           chain_key   |-> [chain |-> r.root_key, index |-> link.chain_key.index]]>>
  BY <1>4
<1> HIDE DEF root, link
<1>12. GoodSender(r, p, keys, opens)
  <2>1. link.chain_key.index \in Nat
    BY <1>8
  <2> QED BY <1>2, <1>4, <1>7, <1>8, <1>10, <1>11, <2>1, Zenon DEF GoodSender
<1>13. GoodRatchet(r, p, keys, opens)
  BY <1>4, <1>9, <1>10, <1>12, Zenon DEF GoodRatchet
<1> QED BY <1>1, <1>4, <1>5, <1>8, <1>10, <1>13

(* The same for the session the peer opens from the message.                *)
LEMMA InboundGood ==
    ASSUME NEW keys \in Counts, NEW opens \in Counts, NEW p \in Device,
           NEW id, NEW base, NEW key, OpeningOf(id, base, key, Peer(p), opens),
           NEW ratchet_key, Old(ratchet_key, keys), NEW r,
           r = InitialiseAsBob(TripleDH(id, base, Identity(p), key), ratchet_key)
    PROVE  GoodRatchet(r, p, keys, opens) /\ r.sender_chain = <<>>
<1> DEFINE secret == TripleDH(id, base, Identity(p), key)
           root   == <<secret>>
           link   == [ratchet_key |-> ratchet_key, chain_key |-> [chain |-> root, index |-> 0]]
           chains == <<link>>
<1>1. /\ Peer(p) \in Device /\ Peer(Peer(p)) = p
  BY Devices
<1>2. PICK n \in 0 .. opens[Peer(p)] - 1 :
        /\ id = Identity(Peer(p))
        /\ base = <<Peer(p), "base", n>>
        /\ key \in KeysOf(p)
  BY <1>1 DEF OpeningOf
<1>3. secret = TripleDH(Identity(Peer(p)), <<Peer(p), "base", n>>, Identity(Peer(Peer(p))), key)
  BY <1>1, <1>2
<1> HIDE DEF secret
<1>4. r = [root_key |-> root, sender_chain |-> <<>>, receiver_chains |-> chains,
           skipped_message_keys |-> <<>>]
  BY DEF InitialiseAsBob, NewChainKey, secret
<1>5. /\ DOMAIN r = RatchetFields /\ r.root_key = root
      /\ r.sender_chain = <<>> /\ r.receiver_chains = chains
  BY <1>4 DEF RatchetFields
<1>6. IsSequence(root) /\ Len(root) = 1 /\ root[1] = secret
  <2>1. Range(root) = {secret}
    BY DEF Range
  <2> QED BY <2>1 DEF IsSequence
<1>7. BegunBy(root, Peer(p), opens)
  BY <1>1, <1>2, <1>3, <1>6, Zenon DEF BegunBy
<1>8. TurnOf(root, Peer(p), opens)
  BY <1>1, <1>6, <1>7 DEF TurnOf
<1>9. DOMAIN link = {"ratchet_key", "chain_key"} /\ link.ratchet_key = ratchet_key
  OBVIOUS
<1> HIDE DEF link
<1>10. /\ IsSequence(chains) /\ DOMAIN chains = {1} /\ Len(chains) = 1 /\ chains[1] = link
       /\ chains # <<>>
  <2>1. Range(chains) = {link}
    BY DEF Range
  <2> QED BY <2>1 DEF IsSequence
<1> HIDE DEF chains
<1>11. GoodReceiver(chains, keys)
  BY <1>9, <1>10, ReceiverChainsAssumption DEF GoodReceiver
<1>12. GoodRatchet(r, p, keys, opens)
  <2> HIDE DEF root
  <2> QED BY <1>5, <1>8, <1>10, <1>11, Zenon DEF GoodRatchet
<1> QED BY <1>5, <1>12

(* A key that is still to be generated is nowhere yet.                     *)
LEMMA FreshIsNew ==
    ASSUME NEW keys \in Counts, NEW p \in Device, NEW path,
           Len(path) > 1, <<p, "ratchet", keys[p]>> \in path[Len(path)]
    PROVE  ~LastOld(path, keys)
<1> SUFFICES ASSUME LastOld(path, keys) PROVE FALSE
  OBVIOUS
<1>1. Old(<<p, "ratchet", keys[p]>>, keys)
  BY DEF LastOld
<1>2. keys[p] \in 0 .. keys[p] - 1 /\ keys[p] \in Nat
  BY <1>1 DEF Old, Counts
<1> QED BY <1>2

(* A base key that is still to be generated began no root key.              *)
LEMMA BaseIsNew ==
    ASSUME NEW opens \in Counts, NEW p \in Device, NEW q \in Device, NEW path,
           <<p, "base", opens[p]>> \in path[1][2]
    PROVE  ~TurnOf(path, q, opens)
<1> SUFFICES ASSUME TurnOf(path, q, opens) PROVE FALSE
  OBVIOUS
<1>1. PICK o \in Device : BegunBy(path, o, opens)
  BY DEF TurnOf
<1>2. opens[p] \in 0 .. opens[p] - 1 /\ opens[p] \in Nat
  BY <1>1, Begun DEF Counts
<1> QED BY <1>2

Like(x, y) == x.ratchet = y.ratchet /\ SessionId(x) = SessionId(y)

(* No other object of p sends on the chain x sends on.                     *)
ApartFrom(x, others) ==
    \A y \in others : x.ratchet.sender_chain # <<>> /\ y.ratchet.sender_chain # <<>>
                        => x.ratchet.root_key # y.ratchet.root_key

Grown(keys, keys2) ==
    keys \in Counts /\ keys2 \in Counts /\ \A d \in Device : keys[d] <= keys2[d]

(* What is like a good session is good.                                     *)
LEMMA LikeGood ==
    ASSUME NEW keys, NEW keys2, Grown(keys, keys2), NEW opens, NEW opens2, Grown(opens, opens2),
           NEW p \in Device, NEW x, NEW y, Like(x, y), NEW messages,
           GoodObject(y, p, keys, opens, messages)
    PROVE  GoodObject(x, p, keys2, opens2, messages)
<1>1. /\ keys \in Counts /\ keys2 \in Counts /\ \A d \in Device : keys[d] <= keys2[d]
      /\ opens \in Counts /\ opens2 \in Counts /\ \A d \in Device : opens[d] <= opens2[d]
  BY Zenon DEF Grown
<1>2. /\ GoodId(y, opens) /\ GoodRatchet(y.ratchet, p, keys, opens)
      /\ BehindSender(y.ratchet, messages)
  BY Zenon DEF GoodObject
<1>3. GoodId(y, opens2)
  BY <1>1, <1>2, IdStays
<1>4. GoodId(x, opens2)
  <2>1. /\ x.alice_identity_key = y.alice_identity_key
        /\ x.alice_base_key = y.alice_base_key
        /\ x.bob_one_time_key = y.bob_one_time_key
    BY DEF Like, SessionId
  <2> QED BY <1>3, <2>1, Zenon DEF GoodId
<1>5. GoodRatchet(y.ratchet, p, keys2, opens2)
  BY <1>1, <1>2, RatchetStays
<1> QED BY <1>2, <1>4, <1>5, Zenon DEF Like, GoodObject

(* A step without a message: sessions and pickles are like ones of before, *)
(* but for one object, whose new contents are good.                        *)
LEMMA Follow ==
    ASSUME KeysInv, NEW p \in Device, NEW s \in Slot,
           Grown(generated, generated'), Grown(opened, opened'), UNCHANGED sent,
           \A q \in Device, t \in Slot : \A x \in SessionsOf(q, t)' :
              \/ \E y \in SessionsOf(q, t) : Like(x, y)
              \/ /\ q = p /\ t = s
                 /\ GoodObject(x, p, generated', opened', sent[p])
                 /\ \A u \in Slot : u # s => ApartFrom(x, SessionsOf(p, u))
    PROVE  SessionsGood' /\ MessagesGood' /\ SendersApart'
<1>1. SessionsGood'
  <2> SUFFICES ASSUME NEW q \in Device, NEW t \in Slot, NEW x \in SessionsOf(q, t)'
               PROVE  GoodObject(x, q, generated', opened', sent'[q])
    BY DEF SessionsGood
  <2>1. CASE \E y \in SessionsOf(q, t) : Like(x, y)
    <3>1. PICK y \in SessionsOf(q, t) : Like(x, y)
      BY <2>1
    <3>2. GoodObject(y, q, generated, opened, sent[q])
      BY DEF KeysInv, SessionsGood
    <3>3. GoodObject(x, q, generated', opened', sent[q])
      BY <3>1, <3>2, LikeGood
    <3> QED BY <3>3
  <2>2. CASE q = p /\ t = s /\ GoodObject(x, p, generated', opened', sent[p])
    BY <2>2
  <2> QED BY <2>1, <2>2
<1>2. MessagesGood'
  <2>1. ASSUME NEW q \in Device, NEW i \in DOMAIN sent[q]
        PROVE  GoodMessage(sent[q][i], q, generated', opened')
    <3>1. GoodMessage(sent[q][i], q, generated, opened)
      BY DEF KeysInv, MessagesGood
    <3>2. /\ generated \in Counts /\ generated' \in Counts
          /\ opened \in Counts /\ opened' \in Counts
          /\ \A d \in Device : generated[d] <= generated'[d]
          /\ \A d \in Device : opened[d] <= opened'[d]
      BY Zenon DEF Grown
    <3> QED BY <3>1, <3>2, MessageStays
  <2> QED BY <2>1 DEF KeysInv, MessagesGood
<1>3. SendersApart'
  <2> SUFFICES ASSUME NEW q \in Device, NEW t \in Slot, NEW u \in Slot, t # u,
                      NEW x \in SessionsOf(q, t)', NEW y \in SessionsOf(q, u)',
                      x.ratchet.sender_chain # <<>>, y.ratchet.sender_chain # <<>>
               PROVE  x.ratchet.root_key # y.ratchet.root_key
    BY DEF SendersApart
  <2>1. CASE (\E x0 \in SessionsOf(q, t) : Like(x, x0)) /\ (\E y0 \in SessionsOf(q, u) : Like(y, y0))
    <3>1. PICK x0 \in SessionsOf(q, t) : Like(x, x0)
      BY <2>1
    <3>2. PICK y0 \in SessionsOf(q, u) : Like(y, y0)
      BY <2>1
    <3>3. x0.ratchet = x.ratchet /\ y0.ratchet = y.ratchet
      BY <3>1, <3>2 DEF Like
    <3> QED BY <3>3 DEF KeysInv, SendersApart
  <2>2. CASE q = p /\ t = s /\ ApartFrom(x, SessionsOf(p, u))
    <3>1. PICK y0 \in SessionsOf(q, u) : Like(y, y0)
      BY <2>2
    <3>2. y0.ratchet = y.ratchet
      BY <3>1 DEF Like
    <3> QED BY <2>2, <3>2 DEF ApartFrom
  <2>3. CASE q = p /\ u = s /\ ApartFrom(y, SessionsOf(p, t))
    <3>1. PICK x0 \in SessionsOf(q, t) : Like(x, x0)
      BY <2>3
    <3>2. x0.ratchet = x.ratchet
      BY <3>1 DEF Like
    <3> QED BY <2>3, <3>2 DEF ApartFrom
  <2> QED BY <2>1, <2>2, <2>3
<1> QED BY <1>1, <1>2, <1>3

(* A step that makes no session and no message.                            *)
LEMMA NothingNew ==
    ASSUME KeysInv, Types', UNCHANGED <<generated, opened, sent>>,
           \A q \in Device, t \in Slot : \A x \in SessionsOf(q, t)' :
              \E y \in SessionsOf(q, t) : Like(x, y)
    PROVE  SessionsGood' /\ MessagesGood' /\ SendersApart'
<1>1. Grown(generated, generated') /\ Grown(opened, opened')
  <2>1. \A keys \in Counts : Grown(keys, keys)
    BY DEF Grown, Counts
  <2> QED BY <2>1 DEF KeysInv, Types
<1>2. CASE Slot = {}
  <2>1. MessagesGood'
    BY DEF KeysInv, MessagesGood
  <2>2. SessionsGood' /\ SendersApart'
    BY <1>2 DEF SessionsGood, SendersApart
  <2> QED BY <2>1, <2>2
<1>3. CASE Slot # {}
  <2>1. PICK s \in Slot : TRUE
    BY <1>3
  <2>2. \A q \in Device, t \in Slot : \A x \in SessionsOf(q, t)' :
           \/ \E y \in SessionsOf(q, t) : Like(x, y)
           \/ /\ q = Alice /\ t = s
              /\ GoodObject(x, Alice, generated', opened', sent[Alice])
              /\ \A u \in Slot : u # s => ApartFrom(x, SessionsOf(Alice, u))
    OBVIOUS
  <2>3. Alice \in Device /\ s \in Slot /\ KeysInv /\ UNCHANGED sent
    BY <2>1, Devices
  <2> QED BY ONLY <1>1, <2>2, <2>3, Follow
<1> QED BY <1>2, <1>3

(* What SessionsOf holds, as facts.                                        *)
LEMMA ObjectsGood ==
    ASSUME KeysInv, NEW p \in Device, NEW s \in Slot
    PROVE  /\ session[p][s].created => session[p][s] \in SessionsOf(p, s)
           /\ stored[p].session[s] # NoPickle => stored[p].session[s] \in SessionsOf(p, s)
           /\ \A x \in SessionsOf(p, s) : GoodObject(x, p, generated, opened, sent[p])
  BY DEF SessionsOf, KeysInv, SessionsGood

(* Pickling and unpickling keep a session as it is.                         *)
LEMMA LikePickled ==
    /\ \A x : Like(x, x) /\ Like(PickledSession(x), x) /\ Like(UnpickledSession(x), x)
    /\ \A x, y, z : Like(x, y) /\ Like(y, z) => Like(x, z)
  BY DEF Like, PickledSession, UnpickledSession, SessionInit, SessionId

(* _olm_create_outbound_session: the chain it starts is named by a new base *)
(* key, so no message and no other session uses it.                         *)
LEMMA CreateOutboundKeys ==
    ASSUME KeysInv, IInv', NEW p \in Device, NEW s \in Slot, CreateOutboundSession(p, s)
    PROVE  Types' /\ SessionsGood' /\ MessagesGood' /\ SendersApart'
<1>1. PICK key \in Claimable(Peer(p)) :
        /\ session' = [session EXCEPT ![p][s] =
                          NewOutboundSession(@, Identity(p), Identity(Peer(p)), key,
                                             <<p, "base", opened[p]>>,
                                             <<p, "initial", opened[p]>>)]
        /\ claimed' = claimed \cup {key}
  BY DEF CreateOutboundSession
<1> DEFINE e == NewOutboundSession(session[p][s], Identity(p), Identity(Peer(p)), key,
                                   <<p, "base", opened[p]>>, <<p, "initial", opened[p]>>)
<1>2. /\ ~session[p][s].created
      /\ opened' = [opened EXCEPT ![p] = @ + 1]
      /\ UNCHANGED <<one_time_keys, stored, generated, sent>>
  BY DEF CreateOutboundSession
<1>3. Peer(p) \in Device
  BY Devices
<1>4. key \in KeysOf(Peer(p))
  <2>1. \A S : S # {} => (CHOOSE k \in S : TRUE) \in S
    OBVIOUS
  <2> QED BY <2>1, Zenon DEF Claimable, KeysOf
<1>5. /\ DOMAIN session[p][s] = SessionFields
      /\ stored[p].session[s] = NoPickle
  BY <1>2 DEF KeysInv, IInv, Shape, PicklesFollow
<1>6. /\ e.created
      /\ e.ratchet = InitialiseAsAlice(TripleDH(Identity(p), <<p, "base", opened[p]>>,
                                                Identity(Peer(p)), key),
                                       <<p, "initial", opened[p]>>)
      /\ SessionId(e) = <<Identity(p), <<p, "base", opened[p]>>, key>>
  BY <1>5 DEF NewOutboundSession, SessionFields, SessionId
<1> HIDE DEF e
<1>7. \A q \in Device, t \in Slot :
        session'[q][t] = IF q = p /\ t = s THEN e ELSE session[q][t]
  BY <1>1 DEF KeysInv, IInv, Shape, e
<1>8. /\ opened \in Counts /\ generated \in Counts
  BY DEF KeysInv, Types
<1>9. /\ opened' \in Counts
      /\ Grown(opened, opened') /\ Grown(generated, generated')
      /\ opened[p] \in 0 .. opened'[p] - 1
  BY <1>2, <1>8 DEF Counts, Grown
<1>10. Types'
  <2>1. claimed' \subseteq UNION {KeysOf(q) : q \in Device}
    BY <1>1, <1>3, <1>4 DEF KeysInv, Types
  <2>2. /\ DOMAIN one_time_keys' = Device
        /\ \A q \in Device :
              /\ one_time_keys'[q] \subseteq PublishedKeys(q)
              /\ stored'[q].one_time_keys \subseteq PublishedKeys(q)
    BY <1>2 DEF KeysInv, Types
  <2>3. ASSUME NEW q \in Device, NEW t \in Slot, ~session'[q][t].created
        PROVE  session'[q][t].ratchet = EmptyRatchet /\ ~session'[q][t].received_message
    BY <1>6, <1>7, <2>3 DEF KeysInv, Types
  <2> QED BY <1>2, <1>8, <1>9, <2>1, <2>2, <2>3 DEF Types
<1>11. /\ GoodRatchet(e.ratchet, p, generated', opened')
       /\ e.ratchet.sender_chain # <<>>
       /\ e.ratchet.sender_chain[1].chain_key.index = 0
       /\ <<p, "base", opened[p]>> \in e.ratchet.root_key[1][2]
  BY <1>4, <1>6, <1>9, OutboundGood DEF Grown
<1>12. \A q \in Device : ~TurnOf(e.ratchet.root_key, q, opened)
  BY <1>8, <1>11, BaseIsNew
<1>13. GoodObject(e, p, generated', opened', sent[p])
  <2>1. GoodId(e, opened')
    <3>1. /\ e.alice_identity_key = Identity(p)
          /\ e.alice_base_key = <<p, "base", opened[p]>>
          /\ e.bob_one_time_key = key
      BY <1>6 DEF SessionId
    <3> QED BY <1>4, <1>9, <3>1, Zenon DEF GoodId, OpeningOf
  <2>2. BehindSender(e.ratchet, sent[p])
    BY <1>12 DEF BehindSender, KeysInv, MessagesGood, GoodMessage
  <2> QED BY <1>11, <2>1, <2>2 DEF GoodObject
<1>14. \A u \in Slot : ApartFrom(e, SessionsOf(p, u))
  BY <1>12, ObjectsGood DEF ApartFrom, GoodObject, GoodRatchet, GoodSender
<1>15. \A q \in Device, t \in Slot : \A x \in SessionsOf(q, t)' :
          \/ \E y \in SessionsOf(q, t) : Like(x, y)
          \/ /\ q = p /\ t = s
             /\ GoodObject(x, p, generated', opened', sent[p])
             /\ \A u \in Slot : u # s => ApartFrom(x, SessionsOf(p, u))
  <2> SUFFICES ASSUME NEW q \in Device, NEW t \in Slot, NEW x \in SessionsOf(q, t)'
               PROVE  \/ x \in SessionsOf(q, t)
                      \/ q = p /\ t = s /\ x = e
    BY <1>13, <1>14, LikePickled
  <2> QED BY <1>2, <1>5, <1>7 DEF SessionsOf
<1>16. SessionsGood' /\ MessagesGood' /\ SendersApart'
  BY <1>2, <1>9, <1>15, Follow
<1> QED BY <1>10, <1>16

(* _olm_create_inbound_session: a session that only receives.  The opening  *)
(* is the peer's: the one-time key it names is found in no other account.   *)
LEMMA CreateInboundKeys ==
    ASSUME KeysInv, IInv', NEW p \in Device, NEW s \in Slot, NEW theirs,
           NEW m \in Range(sent[Peer(p)]),
           CreateInboundSession(p, s, theirs, m)
    PROVE  Types' /\ SessionsGood' /\ MessagesGood' /\ SendersApart'
<1> DEFINE e == NewInboundSession(session[p][s], Identity(p), LookupKeys(p), theirs, m)
<1>1. /\ ~session[p][s].created
      /\ session' = [session EXCEPT ![p][s] = e]
      /\ UNCHANGED <<one_time_keys, stored, claimed, opened, generated, sent>>
  BY DEF CreateInboundSession
<1>2. /\ DOMAIN session[p][s] = SessionFields
      /\ stored[p].session[s] = NoPickle
      /\ session[p][s].ratchet = EmptyRatchet /\ ~session[p][s].received_message
  BY <1>1 DEF KeysInv, IInv, Shape, PicklesFollow, Types
<1>3. Peer(p) \in Device /\ Peer(p) # p /\ \A q \in Device : q = p \/ q = Peer(p)
  BY Devices
<1>4. GoodMessage(m, Peer(p), generated, opened)
  BY <1>3 DEF KeysInv, MessagesGood, Range
<1> DEFINE r == InitialiseAsBob(TripleDH(m.identity_key, m.base_key, Identity(p), m.one_time_key),
                                m.body.ratchet_key)
<1>5. \/ /\ ~e.created
         /\ e.ratchet = EmptyRatchet /\ ~e.received_message
      \/ /\ e.created
         /\ m.type = "PRE_KEY" /\ m.one_time_key \in LookupKeys(p)
         /\ e.ratchet = r
         /\ SessionId(e) = <<m.identity_key, m.base_key, m.one_time_key>>
  <2> HIDE DEF r
  <2> QED BY <1>1, <1>2 DEF NewInboundSession, WithKeysOf, SessionFields, CheckMessageFields,
                            SessionId, r
<1> HIDE DEF e
<1>6. \A q \in Device, t \in Slot :
        session'[q][t] = IF q = p /\ t = s THEN e ELSE session[q][t]
  BY <1>1 DEF KeysInv, IInv, Shape
<1>7. opened \in Counts /\ generated \in Counts
  BY DEF KeysInv, Types
<1>8. Grown(opened, opened') /\ Grown(generated, generated')
  BY <1>1, <1>7 DEF Counts, Grown
<1>9. Types'
  <2>1. ASSUME NEW q \in Device, NEW t \in Slot, ~session'[q][t].created
        PROVE  session'[q][t].ratchet = EmptyRatchet /\ ~session'[q][t].received_message
    BY <1>5, <1>6, <2>1 DEF KeysInv, Types
  <2> QED BY <1>1, <2>1 DEF KeysInv, Types
<1>10. ASSUME e.created
       PROVE  GoodObject(e, p, generated, opened, sent[p]) /\ e.ratchet.sender_chain = <<>>
  <2>1. PICK o \in Device : OpeningOf(m.identity_key, m.base_key, m.one_time_key, o, opened)
    BY <1>4, <1>5, <1>10 DEF GoodMessage
  <2>2. o = Peer(p)
    <3>1. m.one_time_key \in KeysOf(Peer(o))
      BY <2>1 DEF OpeningOf
    <3>2. m.one_time_key \in KeysOf(p)
      BY <1>5, <1>10 DEF LookupKeys, KeysOf, KeysInv, Types
    <3>3. \A q : m.one_time_key \in KeysOf(q) => m.one_time_key[1] = q
      BY DEF KeysOf, PublishedKeys, FallbackKey
    <3> QED BY <3>1, <3>2, <3>3, Devices
  <2>3. Old(m.body.ratchet_key, generated)
    BY <1>4 DEF GoodMessage
  <2>4. e.ratchet = r
    BY <1>5, <1>10
  <2>5. GoodRatchet(e.ratchet, p, generated, opened) /\ e.ratchet.sender_chain = <<>>
    BY <1>7, <2>1, <2>2, <2>3, <2>4, InboundGood
  <2>6. GoodId(e, opened)
    <3>1. /\ e.alice_identity_key = m.identity_key
          /\ e.alice_base_key = m.base_key
          /\ e.bob_one_time_key = m.one_time_key
      BY <1>5, <1>10 DEF SessionId
    <3> QED BY <2>1, <3>1 DEF GoodId
  <2> QED BY <2>5, <2>6 DEF GoodObject, BehindSender
<1>11. \A q \in Device, t \in Slot : \A x \in SessionsOf(q, t)' :
          \/ \E y \in SessionsOf(q, t) : Like(x, y)
          \/ /\ q = p /\ t = s
             /\ GoodObject(x, p, generated', opened', sent[p])
             /\ \A u \in Slot : u # s => ApartFrom(x, SessionsOf(p, u))
  <2> SUFFICES ASSUME NEW q \in Device, NEW t \in Slot, NEW x \in SessionsOf(q, t)'
               PROVE  \/ x \in SessionsOf(q, t)
                      \/ q = p /\ t = s /\ x = e /\ e.created
    BY <1>1, <1>10, LikePickled DEF ApartFrom
  <2> QED BY <1>1, <1>2, <1>6 DEF SessionsOf
<1>12. SessionsGood' /\ MessagesGood' /\ SendersApart'
  BY <1>1, <1>8, <1>11, Follow
<1> QED BY <1>9, <1>12

(* _olm_session_decrypt: the chain sent on stays or is dropped.             *)
LEMMA DecryptKeys ==
    ASSUME KeysInv, IInv', NEW p \in Device, NEW s \in Slot,
           NEW m \in Range(sent[Peer(p)]), Decrypt(p, s, m)
    PROVE  Types' /\ SessionsGood' /\ MessagesGood' /\ SendersApart'
<1> DEFINE old == session[p][s]
           e   == SessionAfterDecrypt(session[p][s], m)
<1>1. /\ old.created
      /\ Decrypts(old.ratchet, m.body)
      /\ session' = [session EXCEPT ![p][s] = e]
      /\ UNCHANGED <<one_time_keys, stored, claimed, opened, generated, sent>>
  BY DEF Decrypt, SessionDecrypts
<1>2. Peer(p) \in Device
  BY Devices
<1>3. Old(m.body.ratchet_key, generated)
  BY <1>2 DEF KeysInv, MessagesGood, Range, GoodMessage
<1>4. DOMAIN old = SessionFields
  BY DEF KeysInv, IInv, Shape
<1>5. /\ e.created
      /\ e.ratchet = AfterDecrypt(old.ratchet, m.body)
      /\ SessionId(e) = SessionId(old)
  BY <1>1, <1>4 DEF SessionAfterDecrypt, SessionFields, SessionId
<1> HIDE DEF e
<1>6. \A q \in Device, t \in Slot :
        session'[q][t] = IF q = p /\ t = s THEN e ELSE session[q][t]
  BY <1>1 DEF KeysInv, IInv, Shape
<1>7. opened \in Counts /\ generated \in Counts
  BY DEF KeysInv, Types
<1>8. Grown(opened, opened') /\ Grown(generated, generated')
  BY <1>1, <1>7 DEF Counts, Grown
<1>9. Types'
  <2>1. ASSUME NEW q \in Device, NEW t \in Slot, ~session'[q][t].created
        PROVE  session'[q][t].ratchet = EmptyRatchet /\ ~session'[q][t].received_message
    BY <1>5, <1>6, <2>1 DEF KeysInv, Types
  <2> QED BY <1>1, <2>1 DEF KeysInv, Types
<1>10. /\ GoodObject(old, p, generated, opened, sent[p])
       /\ old \in SessionsOf(p, s)
  BY <1>1, ObjectsGood
<1> HIDE DEF old
<1>11. /\ GoodRatchet(e.ratchet, p, generated, opened)
       /\ e.ratchet.sender_chain # <<>> =>
             /\ old.ratchet.sender_chain # <<>>
             /\ e.ratchet.sender_chain = old.ratchet.sender_chain
             /\ e.ratchet.root_key = old.ratchet.root_key
  <2>1. GoodRatchet(old.ratchet, p, generated, opened)
    BY <1>10 DEF GoodObject
  <2> QED BY <1>1, <1>3, <1>5, <1>7, <2>1, Decrypted
<1>12. GoodObject(e, p, generated', opened', sent[p])
  <2>1. GoodId(e, opened)
    <3>1. /\ e.alice_identity_key = old.alice_identity_key
          /\ e.alice_base_key = old.alice_base_key
          /\ e.bob_one_time_key = old.bob_one_time_key
      BY <1>5 DEF SessionId
    <3> QED BY <1>10, <3>1 DEF GoodObject, GoodId
  <2>2. BehindSender(e.ratchet, sent[p])
    BY <1>10, <1>11 DEF GoodObject, BehindSender
  <2> QED BY <1>1, <1>11, <2>1, <2>2 DEF GoodObject
<1>13. ASSUME NEW u \in Slot, u # s PROVE ApartFrom(e, SessionsOf(p, u))
  BY <1>10, <1>11, <1>13 DEF ApartFrom, KeysInv, SendersApart
<1>14. \A q \in Device, t \in Slot : \A x \in SessionsOf(q, t)' :
          \/ \E y \in SessionsOf(q, t) : Like(x, y)
          \/ /\ q = p /\ t = s
             /\ GoodObject(x, p, generated', opened', sent[p])
             /\ \A u \in Slot : u # s => ApartFrom(x, SessionsOf(p, u))
  <2> SUFFICES ASSUME NEW q \in Device, NEW t \in Slot, NEW x \in SessionsOf(q, t)'
               PROVE  \/ x \in SessionsOf(q, t)
                      \/ q = p /\ t = s /\ x = e
    BY <1>12, <1>13, LikePickled
  <2> QED BY <1>1, <1>6 DEF SessionsOf
<1>15. SessionsGood' /\ MessagesGood' /\ SendersApart'
  BY <1>1, <1>8, <1>14, Follow
<1> QED BY <1>9, <1>15

(* A pickle is like the session it is made from,                            *)
LEMMA PickleKeys ==
    ASSUME KeysInv, IInv', NEW p \in Device,
           \/ \E s \in Slot : PickleSession(p, s)
           \/ PickleAccount(p)
    PROVE  Types' /\ SessionsGood' /\ MessagesGood' /\ SendersApart'
<1>1. UNCHANGED <<session, one_time_keys, claimed, opened, generated, sent>>
  BY DEF PickleSession, PickleAccount
<1>2. ASSUME NEW s \in Slot, PickleSession(p, s)
      PROVE  /\ \A q \in Device : stored'[q].one_time_keys = stored[q].one_time_keys
             /\ \A q \in Device, t \in Slot : \A x \in SessionsOf(q, t)' :
                   \E y \in SessionsOf(q, t) : Like(x, y)
  <2>1. /\ session[p][s].created
        /\ stored' = [stored EXCEPT ![p].session[s] = PickledSession(session[p][s]),
                                    ![p].read[s]    = read[p][s]]
    BY <1>2 DEF PickleSession
  <2>2. /\ \A q \in Device, t \in Slot :
             stored'[q].session[t] = IF q = p /\ t = s THEN PickledSession(session[p][s])
                                     ELSE stored[q].session[t]
        /\ \A q \in Device : stored'[q].one_time_keys = stored[q].one_time_keys
    BY <2>1 DEF KeysInv, IInv, Shape
  <2>3. session[p][s] \in SessionsOf(p, s)
    BY <2>1, ObjectsGood
  <2> SUFFICES ASSUME NEW q \in Device, NEW t \in Slot, NEW x \in SessionsOf(q, t)'
               PROVE  \/ x \in SessionsOf(q, t)
                      \/ q = p /\ t = s /\ x = PickledSession(session[p][s])
    BY <2>2, <2>3, LikePickled
  <2> QED BY <1>1, <2>2 DEF SessionsOf
<1>3. ASSUME PickleAccount(p)
      PROVE  /\ \A q \in Device : stored'[q].one_time_keys \subseteq PublishedKeys(q)
             /\ \A q \in Device, t \in Slot : \A x \in SessionsOf(q, t)' :
                   \E y \in SessionsOf(q, t) : Like(x, y)
  <2>1. stored' = [stored EXCEPT ![p].one_time_keys = one_time_keys[p]]
    BY <1>3 DEF PickleAccount
  <2>2. \A q \in Device :
          /\ stored'[q].session = stored[q].session
          /\ stored'[q].one_time_keys = IF q = p THEN one_time_keys[p]
                                        ELSE stored[q].one_time_keys
    BY <2>1 DEF KeysInv, IInv, Shape
  <2>3. \A q \in Device, t \in Slot : SessionsOf(q, t)' = SessionsOf(q, t)
    BY <1>1, <2>2 DEF SessionsOf
  <2> QED BY <2>2, <2>3, LikePickled DEF KeysInv, Types
<1>4. Types'
  BY <1>1, <1>2, <1>3 DEF KeysInv, Types
<1>5. \A q \in Device, t \in Slot : \A x \in SessionsOf(q, t)' :
         \E y \in SessionsOf(q, t) : Like(x, y)
  BY <1>2, <1>3
<1>6. SessionsGood' /\ MessagesGood' /\ SendersApart'
  BY <1>1, <1>4, <1>5, NothingNew
<1> QED BY <1>4, <1>6

(* a session after a restart like its pickle,                               *)
LEMMA RestartKeys ==
    ASSUME KeysInv, IInv', NEW p \in Device, Restart(p)
    PROVE  Types' /\ SessionsGood' /\ MessagesGood' /\ SendersApart'
<1>1. /\ one_time_keys' = [one_time_keys EXCEPT ![p] = stored[p].one_time_keys]
      /\ session' = [session EXCEPT ![p] = [s \in Slot |->
                        IF stored[p].session[s] = NoPickle
                          THEN SessionInit
                          ELSE UnpickledSession(stored[p].session[s])]]
      /\ UNCHANGED <<stored, claimed, opened, generated, sent>>
  BY DEF Restart
<1>2. /\ \A t \in Slot :
           session'[p][t] = IF stored[p].session[t] = NoPickle
                              THEN SessionInit
                              ELSE UnpickledSession(stored[p].session[t])
      /\ \A q \in Device \ {p} : session'[q] = session[q]
  BY <1>1 DEF KeysInv, IInv, Shape
<1>3. /\ ~SessionInit.created /\ SessionInit.ratchet = EmptyRatchet
      /\ ~SessionInit.received_message
      /\ \A pickle : UnpickledSession(pickle).created
  BY DEF SessionInit, UnpickledSession
<1>4. Types'
  <2>1. /\ DOMAIN one_time_keys' = Device
        /\ \A q \in Device : one_time_keys'[q] \subseteq PublishedKeys(q)
    BY <1>1 DEF KeysInv, Types
  <2>2. ASSUME NEW q \in Device, NEW t \in Slot, ~session'[q][t].created
        PROVE  session'[q][t].ratchet = EmptyRatchet /\ ~session'[q][t].received_message
    BY <1>2, <1>3, <2>2 DEF KeysInv, Types
  <2> QED BY <1>1, <2>1, <2>2 DEF KeysInv, Types
<1>5. ASSUME NEW q \in Device, NEW t \in Slot, NEW x \in SessionsOf(q, t)'
      PROVE  \E y \in SessionsOf(q, t) : Like(x, y)
  <2>1. \/ x \in SessionsOf(q, t)
        \/ /\ q = p /\ stored[p].session[t] # NoPickle
           /\ x = UnpickledSession(stored[p].session[t])
    BY <1>1, <1>2, <1>3 DEF SessionsOf
  <2> QED BY <2>1, ObjectsGood, LikePickled
<1>6. SessionsGood' /\ MessagesGood' /\ SendersApart'
  BY <1>1, <1>4, <1>5, NothingNew
<1> QED BY <1>4, <1>6

(* and a deletion leaves fewer of both.                                     *)
LEMMA ForgetKeys ==
    ASSUME KeysInv, IInv', NEW p \in Device, NEW s \in Slot, Forget(p, s)
    PROVE  Types' /\ SessionsGood' /\ MessagesGood' /\ SendersApart'
<1>1. /\ session' = [session EXCEPT ![p][s] = SessionInit]
      /\ stored' = [stored EXCEPT ![p].session[s] = NoPickle,
                                  ![p].read[s]    = read[p][s]]
      /\ UNCHANGED <<one_time_keys, claimed, opened, generated, sent>>
  BY DEF Forget
<1>2. /\ \A q \in Device, t \in Slot :
           session'[q][t] = IF q = p /\ t = s THEN SessionInit ELSE session[q][t]
      /\ \A q \in Device, t \in Slot :
           stored'[q].session[t] = IF q = p /\ t = s THEN NoPickle
                                   ELSE stored[q].session[t]
      /\ \A q \in Device : stored'[q].one_time_keys = stored[q].one_time_keys
  BY <1>1 DEF KeysInv, IInv, Shape
<1>3. /\ ~SessionInit.created /\ SessionInit.ratchet = EmptyRatchet
      /\ ~SessionInit.received_message
  BY DEF SessionInit
<1>4. Types'
  <2>1. ASSUME NEW q \in Device, NEW t \in Slot, ~session'[q][t].created
        PROVE  session'[q][t].ratchet = EmptyRatchet /\ ~session'[q][t].received_message
    BY <1>2, <1>3, <2>1 DEF KeysInv, Types
  <2>2. \A q \in Device : stored'[q].one_time_keys \subseteq PublishedKeys(q)
    BY <1>2 DEF KeysInv, Types
  <2> QED BY <1>1, <2>1, <2>2 DEF KeysInv, Types
<1>5. \A q \in Device, t \in Slot : \A x \in SessionsOf(q, t)' :
         \E y \in SessionsOf(q, t) : Like(x, y)
  <2> SUFFICES ASSUME NEW q \in Device, NEW t \in Slot, NEW x \in SessionsOf(q, t)'
               PROVE  x \in SessionsOf(q, t)
    BY LikePickled
  <2> QED BY <1>2, <1>3 DEF SessionsOf
<1>6. SessionsGood' /\ MessagesGood' /\ SendersApart'
  BY <1>1, <1>4, <1>5, NothingNew
<1> QED BY <1>4, <1>6

(* One-time keys are removed, or nothing happens.                           *)
LEMMA OtherKeys ==
    ASSUME KeysInv, IInv',
           \/ \E p \in Device, s \in Slot : RemoveOneTimeKeys(p, s)
           \/ UNCHANGED vars
    PROVE  Types' /\ SessionsGood' /\ MessagesGood' /\ SendersApart'
<1>1. /\ UNCHANGED <<session, stored, claimed, opened, generated, sent>>
      /\ \/ UNCHANGED one_time_keys
         \/ \E p \in Device : \E S : one_time_keys' = [one_time_keys EXCEPT ![p] = @ \ S]
  BY DEF RemoveOneTimeKeys, vars
<1>2. /\ DOMAIN one_time_keys' = Device
      /\ \A q \in Device : one_time_keys'[q] \subseteq PublishedKeys(q)
  BY <1>1 DEF KeysInv, Types
<1>3. Types'
  BY <1>1, <1>2 DEF KeysInv, Types
<1>4. \A q \in Device, t \in Slot : \A x \in SessionsOf(q, t)' :
         \E y \in SessionsOf(q, t) : Like(x, y)
  BY <1>1, LikePickled DEF SessionsOf
<1>5. SessionsGood' /\ MessagesGood' /\ SendersApart'
  BY <1>1, <1>3, <1>4, NothingNew
<1> QED BY <1>3, <1>5

(* The message uses the key after those of the chain, or the first one of  *)
(* a chain that begins with it.                                            *)
LEMMA EncryptKeys ==
    ASSUME KeysInv, IInv', NEW p \in Device, NEW s \in Slot, Encrypt(p, s)
    PROVE  Types' /\ SessionsGood' /\ MessagesGood' /\ SendersApart'
<1> DEFINE old == session[p][s]
           e   == SessionAfterEncrypt(session[p][s], FreshKey(p))
           m   == NextMessage(p, s)
           b   == EncryptedMessage(old.ratchet, FreshKey(p), Len(sent[p]) + 1)
           f   == e.ratchet
           n   == b.mac_key.index
<1>1. /\ old.created
      /\ sent' = [sent EXCEPT ![p] = Append(@, m)]
      /\ session' = [session EXCEPT ![p][s] = e]
      /\ generated' = [generated EXCEPT
                         ![p] = IF old.ratchet.sender_chain = <<>> THEN @ + 1 ELSE @]
      /\ stored' = [stored EXCEPT ![p].session[s] = PickledSession(session'[p][s]),
                                  ![p].read[s]    = read[p][s]]
      /\ UNCHANGED <<one_time_keys, claimed, opened>>
  BY DEF Encrypt
<1>2. DOMAIN old = SessionFields
  BY DEF KeysInv, IInv, Shape
<1>3. /\ e.created
      /\ e.ratchet = AfterEncrypt(old.ratchet, FreshKey(p))
      /\ SessionId(e) = SessionId(old)
  BY <1>1, <1>2 DEF SessionAfterEncrypt, SessionFields, SessionId
<1>4. /\ m.body = b
      /\ m.type = "PRE_KEY" => /\ m.identity_key = old.alice_identity_key
                               /\ m.base_key = old.alice_base_key
                               /\ m.one_time_key = old.bob_one_time_key
  BY DEF NextMessage, SessionMessage
<1>5. FreshKey(p) = <<p, "ratchet", generated[p]>>
  BY DEF FreshKey
<1> HIDE DEF e, m
<1>6. /\ \A q \in Device, t \in Slot :
           session'[q][t] = IF q = p /\ t = s THEN e ELSE session[q][t]
      /\ \A q \in Device, t \in Slot :
           stored'[q].session[t] = IF q = p /\ t = s THEN PickledSession(e)
                                   ELSE stored[q].session[t]
      /\ \A q \in Device : stored'[q].one_time_keys = stored[q].one_time_keys
  BY <1>1 DEF KeysInv, IInv, Shape
<1>7. /\ IsSequence(sent[p])
      /\ \A q \in Device : sent'[q] = IF q = p THEN Append(sent[q], m) ELSE sent[q]
  BY <1>1 DEF KeysInv, IInv, Shape, IsSequence
<1>8. opened \in Counts /\ generated \in Counts
  BY DEF KeysInv, Types
<1>9. /\ GoodObject(old, p, generated, opened, sent[p])
      /\ old \in SessionsOf(p, s)
  BY <1>1, ObjectsGood
<1>10. GoodRatchet(old.ratchet, p, generated, opened)
  BY <1>9 DEF GoodObject
<1>11. b = EncryptedMessage(old.ratchet, FreshKey(p), Len(sent[p]) + 1)
  OBVIOUS
<1> HIDE DEF b
<1>12. /\ generated' \in Counts /\ \A d \in Device : generated[d] <= generated'[d]
       /\ GoodRatchet(f, p, generated', opened)
       /\ f.sender_chain # <<>>
       /\ b.mac_key = [chain |-> f.root_key, index |-> n]
       /\ n \in Nat /\ f.sender_chain[1].chain_key.index = n + 1
       /\ TurnOf(f.root_key, p, opened) /\ LastOld(f.root_key, generated')
       /\ Old(b.ratchet_key, generated')
       /\ \/ /\ old.ratchet.sender_chain # <<>>
             /\ f.root_key = old.ratchet.root_key
             /\ n = old.ratchet.sender_chain[1].chain_key.index
          \/ /\ Len(f.root_key) > 1
             /\ <<p, "ratchet", generated[p]>> \in f.root_key[Len(f.root_key)]
  <2>1. /\ generated' \in Counts /\ \A d \in Device : generated[d] <= generated'[d]
        /\ old.ratchet.sender_chain = <<>> => generated'[p] = generated[p] + 1
        /\ old.ratchet.sender_chain # <<>> => generated' = generated
    BY <1>1, <1>8 DEF Counts
  <2>2. f = AfterEncrypt(old.ratchet, FreshKey(p))
    BY <1>3
  <2> HIDE DEF old, f, n
  <2>3. EncryptedTo(old.ratchet, f, b, p, generated, generated', opened)
    BY <1>5, <1>8, <1>10, <1>11, <2>1, <2>2, Encrypted
  <2> QED BY <2>1, <2>3 DEF n, EncryptedTo
<1> HIDE DEF old, f, n
(* The message key is none that a message had.                             *)
<1>13. \A i \in DOMAIN sent[p] :
          sent[p][i].body.mac_key.chain = f.root_key => sent[p][i].body.mac_key.index < n
  <2> SUFFICES ASSUME NEW i \in DOMAIN sent[p], sent[p][i].body.mac_key.chain = f.root_key
               PROVE  sent[p][i].body.mac_key.index < n
    OBVIOUS
  <2>1. LastOld(f.root_key, generated)
    BY DEF KeysInv, MessagesGood, GoodMessage
  <2>2. ~(Len(f.root_key) > 1 /\ <<p, "ratchet", generated[p]>> \in f.root_key[Len(f.root_key)])
    BY <1>8, <2>1, FreshIsNew
  <2> QED BY <1>9, <1>12, <2>2 DEF GoodObject, BehindSender
<1>14. ASSUME NEW u \in Slot, u # s, NEW x \in SessionsOf(p, u), x.ratchet.sender_chain # <<>>
       PROVE  x.ratchet.root_key # f.root_key
  <2>1. LastOld(x.ratchet.root_key, generated)
    BY <1>14, ObjectsGood DEF GoodObject, GoodRatchet, GoodSender
  <2>2. ~(/\ Len(x.ratchet.root_key) > 1
          /\ <<p, "ratchet", generated[p]>> \in x.ratchet.root_key[Len(x.ratchet.root_key)])
    BY <1>8, <2>1, FreshIsNew
  <2>3. old.ratchet.sender_chain # <<>> => x.ratchet.root_key # old.ratchet.root_key
    BY <1>9, <1>14 DEF KeysInv, SendersApart
  <2> QED BY <1>12, <2>2, <2>3
<1>15. \A q \in Device, t \in Slot : \A x \in SessionsOf(q, t)' :
          \/ q = p /\ t = s /\ Like(x, e)
          \/ ~(q = p /\ t = s) /\ x \in SessionsOf(q, t)
  <2> SUFFICES ASSUME NEW q \in Device, NEW t \in Slot, NEW x \in SessionsOf(q, t)'
               PROVE  \/ q = p /\ t = s /\ (x = e \/ x = PickledSession(e))
                      \/ ~(q = p /\ t = s) /\ x \in SessionsOf(q, t)
    BY LikePickled
  <2> QED BY <1>3, <1>6 DEF SessionsOf
<1>16. Types'
  <2>1. ASSUME NEW q \in Device, NEW t \in Slot, ~session'[q][t].created
        PROVE  session'[q][t].ratchet = EmptyRatchet /\ ~session'[q][t].received_message
    BY <1>3, <1>6, <2>1 DEF KeysInv, Types
  <2> QED BY <1>1, <1>6, <1>12, <2>1 DEF KeysInv, Types
<1>17. /\ DOMAIN sent'[p] = 1 .. Len(sent[p]) + 1
       /\ DOMAIN sent[p] = 1 .. Len(sent[p]) /\ Len(sent[p]) \in Nat
       /\ sent'[p][Len(sent[p]) + 1] = m
       /\ \A i \in DOMAIN sent[p] : sent'[p][i] = sent[p][i]
  <2>1. /\ IsSequence(Append(sent[p], m))
        /\ Len(sent[p]) \in Nat /\ Len(Append(sent[p], m)) = Len(sent[p]) + 1
        /\ Append(sent[p], m)[Len(sent[p]) + 1] = m
        /\ \A i \in 1 .. Len(sent[p]) : Append(sent[p], m)[i] = sent[p][i]
        /\ DOMAIN sent[p] = 1 .. Len(sent[p])
    BY <1>7, SequenceAppend
  <2>2. DOMAIN Append(sent[p], m) = 1 .. Len(sent[p]) + 1
    BY <2>1 DEF IsSequence
  <2> QED BY <1>7, <2>1, <2>2
<1>18. \A i \in DOMAIN sent'[p] :
          \/ i \in DOMAIN sent[p] /\ sent'[p][i] = sent[p][i]
          \/ i = Len(sent[p]) + 1 /\ sent'[p][i] = m
  BY <1>17
<1>19. SessionsGood'
  <2> SUFFICES ASSUME NEW q \in Device, NEW t \in Slot, NEW x \in SessionsOf(q, t)'
               PROVE  GoodObject(x, q, generated', opened', sent'[q])
    BY DEF SessionsGood
  <2>1. CASE q = p /\ t = s /\ Like(x, e)
    <3>1. x.ratchet = f /\ SessionId(x) = SessionId(old)
      BY <1>3, <2>1 DEF Like, f
    <3>2. GoodId(x, opened)
      <4>1. /\ x.alice_identity_key = old.alice_identity_key
            /\ x.alice_base_key = old.alice_base_key
            /\ x.bob_one_time_key = old.bob_one_time_key
        BY <3>1 DEF SessionId
      <4> QED BY <1>9, <4>1 DEF GoodObject, GoodId
    <3>3. BehindSender(f, sent'[p])
      <4> SUFFICES ASSUME NEW i \in DOMAIN sent'[p], sent'[p][i].body.mac_key.chain = f.root_key
                   PROVE  sent'[p][i].body.mac_key.index < n + 1
        BY <1>12 DEF BehindSender
      <4>1. CASE i \in DOMAIN sent[p] /\ sent'[p][i] = sent[p][i]
        <5>1. sent[p][i].body.mac_key.index < n /\ sent[p][i].body.mac_key.index \in Nat
          BY <1>13, <4>1 DEF KeysInv, MessagesGood, GoodMessage
        <5> QED BY <1>12, <4>1, <5>1
      <4>2. CASE sent'[p][i] = m
        BY <1>4, <1>12, <4>2 DEF n
      <4> QED BY <1>18, <4>1, <4>2
    <3> QED BY <1>1, <1>12, <2>1, <3>1, <3>2, <3>3 DEF GoodObject
  <2>2. CASE ~(q = p /\ t = s) /\ x \in SessionsOf(q, t)
    <3>1. GoodObject(x, q, generated, opened, sent[q])
      BY <2>2, ObjectsGood
    <3>2. GoodId(x, opened') /\ GoodRatchet(x.ratchet, q, generated', opened')
      <4>1. GoodId(x, opened) /\ GoodRatchet(x.ratchet, q, generated, opened)
        BY <3>1 DEF GoodObject
      <4>2. \A d \in Device : opened[d] <= opened[d]
        BY <1>8 DEF Counts
      <4>3. GoodRatchet(x.ratchet, q, generated', opened)
        BY <1>8, <1>12, <4>1, <4>2, RatchetStays
      <4> QED BY <1>1, <4>1, <4>3
    <3>3. BehindSender(x.ratchet, sent'[q])
      <4>1. CASE q # p
        BY <1>7, <3>1, <4>1 DEF GoodObject
      <4>2. CASE q = p /\ t # s
        <5> SUFFICES ASSUME NEW i \in DOMAIN sent'[p], x.ratchet.sender_chain # <<>>,
                            sent'[p][i].body.mac_key.chain = x.ratchet.root_key
                     PROVE  sent'[p][i].body.mac_key.index < x.ratchet.sender_chain[1].chain_key.index
          BY <4>2 DEF BehindSender
        <5>1. x.ratchet.root_key # f.root_key
          BY <1>14, <2>2, <4>2
        <5>2. sent'[p][i] # m
          BY <1>4, <1>12, <5>1
        <5> QED BY <1>18, <3>1, <4>2, <5>2 DEF GoodObject, BehindSender
      <4> QED BY <2>2, <4>1, <4>2
    <3> QED BY <3>2, <3>3 DEF GoodObject
  <2> QED BY <1>15, <2>1, <2>2
<1>20. MessagesGood'
  <2>1. GoodMessage(m, p, generated', opened)
    <3>1. m.body.mac_key = [chain |-> m.body.mac_key.chain, index |-> m.body.mac_key.index]
      BY <1>4, <1>12
    <3>2. m.body.mac_key.chain = f.root_key /\ m.body.mac_key.index = n
      BY <1>4, <1>12
    <3>3. m.type = "PRE_KEY" =>
             \E o \in Device : OpeningOf(m.identity_key, m.base_key, m.one_time_key, o, opened)
      BY <1>4, <1>9 DEF GoodObject, GoodId
    <3> QED BY <1>4, <1>12, <3>1, <3>2, <3>3 DEF GoodMessage
  <2>2. ASSUME NEW q \in Device, NEW i \in DOMAIN sent[q]
        PROVE  GoodMessage(sent[q][i], q, generated', opened)
    <3>1. GoodMessage(sent[q][i], q, generated, opened)
      BY DEF KeysInv, MessagesGood
    <3>2. \A d \in Device : opened[d] <= opened[d]
      BY <1>8 DEF Counts
    <3> QED BY <1>8, <1>12, <3>1, <3>2, MessageStays
  <2>3. \A i \in DOMAIN sent[p] : sent[p][i].body.mac_key # m.body.mac_key
    <3> SUFFICES ASSUME NEW i \in DOMAIN sent[p], sent[p][i].body.mac_key = m.body.mac_key
                 PROVE  FALSE
      OBVIOUS
    <3>1. m.body.mac_key.chain = f.root_key /\ m.body.mac_key.index = n
      BY <1>4, <1>12
    <3> QED BY <1>12, <1>13, <3>1
  <2>4. ASSUME NEW i \in DOMAIN sent'[p], NEW j \in DOMAIN sent'[p],
               sent'[p][i].body.mac_key = sent'[p][j].body.mac_key
        PROVE  i = j
    <3>1. CASE i \in DOMAIN sent[p] /\ j \in DOMAIN sent[p]
      BY <1>17, <2>4, <3>1 DEF KeysInv, MessagesGood
    <3>2. CASE ~(i \in DOMAIN sent[p] /\ j \in DOMAIN sent[p])
      BY <1>18, <2>3, <2>4, <3>2
    <3> QED BY <3>1, <3>2
  <2>5. ASSUME NEW q \in Device, NEW i \in DOMAIN sent'[q]
        PROVE  GoodMessage(sent'[q][i], q, generated', opened')
    <3>1. CASE q = p
      BY <1>1, <1>18, <2>1, <2>2, <3>1
    <3>2. CASE q # p
      BY <1>1, <1>7, <2>2, <3>2
    <3> QED BY <3>1, <3>2
  <2>6. ASSUME NEW q \in Device, NEW i \in DOMAIN sent'[q], NEW j \in DOMAIN sent'[q],
               sent'[q][i].body.mac_key = sent'[q][j].body.mac_key
        PROVE  i = j
    <3>1. CASE q = p
      BY <2>4, <2>6, <3>1
    <3>2. CASE q # p
      BY <1>7, <2>6, <3>2 DEF KeysInv, MessagesGood
    <3> QED BY <3>1, <3>2
  <2> QED BY <2>5, <2>6 DEF MessagesGood
<1>21. SendersApart'
  <2> SUFFICES ASSUME NEW q \in Device, NEW t \in Slot, NEW u \in Slot, t # u,
                      NEW x \in SessionsOf(q, t)', NEW y \in SessionsOf(q, u)',
                      x.ratchet.sender_chain # <<>>, y.ratchet.sender_chain # <<>>
               PROVE  x.ratchet.root_key # y.ratchet.root_key
    BY DEF SendersApart
  <2>1. CASE q = p /\ t = s /\ Like(x, e)
    <3>1. x.ratchet = f /\ y \in SessionsOf(p, u)
      BY <1>15, <2>1 DEF Like, f
    <3> QED BY <1>14, <2>1, <3>1
  <2>2. CASE q = p /\ u = s /\ Like(y, e)
    <3>1. y.ratchet = f /\ x \in SessionsOf(p, t)
      BY <1>15, <2>2 DEF Like, f
    <3> QED BY <1>14, <2>2, <3>1
  <2>3. CASE x \in SessionsOf(q, t) /\ y \in SessionsOf(q, u)
    BY <2>3 DEF KeysInv, SendersApart
  <2> QED BY <1>15, <2>1, <2>2, <2>3
<1> QED BY <1>16, <1>19, <1>20, <1>21

(* Initially there are neither sessions nor messages.                       *)
LEMMA InitKeys == Init => KeysInv
<1> SUFFICES ASSUME Init PROVE KeysInv
  OBVIOUS
<1>1. /\ \A p \in Device, s \in Slot :
           session[p][s] = SessionInit /\ stored[p].session[s] = NoPickle
      /\ \A p \in Device : stored[p].one_time_keys = PublishedKeys(p)
      /\ \A p \in Device : sent[p] = <<>> /\ one_time_keys[p] = PublishedKeys(p)
      /\ DOMAIN one_time_keys = Device /\ claimed = {}
      /\ opened \in Counts /\ generated \in Counts
  BY DEF Init, Counts
<1>2. \A p \in Device, s \in Slot : SessionsOf(p, s) = {}
  BY <1>1 DEF SessionsOf, SessionInit
<1>3. Types
  BY <1>1 DEF Types, SessionInit
<1>4. SessionsGood /\ SendersApart
  BY <1>2 DEF SessionsGood, SendersApart
<1>5. MessagesGood
  BY <1>1 DEF MessagesGood
<1> QED BY <1>3, <1>4, <1>5, InitIInv DEF KeysInv

(* KeysInv is inductive.                                                    *)
LEMMA NextKeys == KeysInv /\ [Next]_vars => KeysInv'
<1> SUFFICES ASSUME KeysInv, [Next]_vars PROVE KeysInv'
  OBVIOUS
<1>1. IInv'
  BY NextIInv DEF KeysInv
<1> SUFFICES Types' /\ SessionsGood' /\ MessagesGood' /\ SendersApart'
  BY <1>1 DEF KeysInv
<1> DEFINE Goal == Types' /\ SessionsGood' /\ MessagesGood' /\ SendersApart'
<1>2. ASSUME NEW p \in Device, NEW s \in Slot, CreateOutboundSession(p, s) PROVE Goal
  BY <1>1, <1>2, CreateOutboundKeys
<1>3. ASSUME NEW p \in Device, NEW s \in Slot, Encrypt(p, s) PROVE Goal
  BY <1>1, <1>3, EncryptKeys
<1>4. ASSUME NEW p \in Device, NEW s \in Slot, NEW m \in Range(sent[Peer(p)]), Decrypt(p, s, m)
      PROVE  Goal
  BY <1>1, <1>4, DecryptKeys
<1>5. ASSUME NEW p \in Device, NEW s \in Slot, NEW theirs,
             NEW m \in Range(sent[Peer(p)]), CreateInboundSession(p, s, theirs, m)
      PROVE  Goal
  BY <1>1, <1>5, CreateInboundKeys
<1>6. ASSUME NEW p \in Device, NEW s \in Slot, Forget(p, s) PROVE Goal
  BY <1>1, <1>6, ForgetKeys
<1>7. ASSUME NEW p \in Device, Restart(p) PROVE Goal
  BY <1>1, <1>7, RestartKeys
<1>8. ASSUME NEW p \in Device,
             \/ \E s \in Slot : PickleSession(p, s)
             \/ PickleAccount(p)
      PROVE  Goal
  BY <1>1, <1>8, PickleKeys
<1>9. ASSUME \/ \E p \in Device, s \in Slot : RemoveOneTimeKeys(p, s)
             \/ UNCHANGED vars
      PROVE  Goal
  BY <1>1, <1>9, OtherKeys
<1> HIDE DEF Goal
<1>10. Goal
  BY <1>2, <1>3, <1>4, <1>5, <1>6, <1>7, <1>8, <1>9 DEF Next
<1> QED BY <1>10 DEF Goal

(* The root keys, chains and messages of all sessions, live and pickled, are*)
(* as KeysInv says in every reachable state.                                *)
THEOREM SpecKeysInv == Spec => []KeysInv
  BY InitKeys, NextKeys, PTL DEF Spec

(* No message key is used twice: not by one device before and after a       *)
(* restart, not by two of its sessions, and not by both devices.            *)
THEOREM KeysUnique == Spec => []MessageKeysUnique
<1>1. KeysInv => MessageKeysUnique
  <2> SUFFICES ASSUME KeysInv, NEW p \in Device, NEW q \in Device,
                      NEW i \in DOMAIN sent[p], NEW j \in DOMAIN sent[q],
                      sent[p][i].body.mac_key = sent[q][j].body.mac_key
               PROVE  p = q /\ i = j
    BY DEF MessageKeysUnique
  <2>1. CASE p = q
    BY <2>1 DEF KeysInv, MessagesGood
  <2>2. CASE p # q
    <3> DEFINE path == sent[p][i].body.mac_key.chain
    <3>1. TurnOf(path, p, opened) /\ TurnOf(path, q, opened)
      BY DEF KeysInv, MessagesGood, GoodMessage
    <3>2. q = Peer(p) /\ opened \in Counts
      BY <2>2, Devices DEF KeysInv, Types
    <3> HIDE DEF path
    <3> QED BY <3>1, <3>2, TurnOfOne
  <2> QED BY <2>1, <2>2
<1> QED BY <1>1, SpecKeysInv, PTL

(* The type invariant: the objects the application was told are sessions    *)
(* are those with a chain, and the lists of chains keep to their capacity.  *)
THEOREM TypesCorrect == Spec => []TypeOK
<1>1. KeysInv => TypeOK
  <2> SUFFICES ASSUME KeysInv PROVE TypeOK
    OBVIOUS
  <2>1. claimed \subseteq UNION {LookupKeys(p) \cup PublishedKeys(p) : p \in Device}
    <3>1. \A p \in Device : KeysOf(p) \subseteq LookupKeys(p) \cup PublishedKeys(p)
      BY DEF KeysOf, LookupKeys
    <3> QED BY <3>1 DEF KeysInv, Types
  <2>2. ASSUME NEW p \in Device
        PROVE  /\ one_time_keys[p] \subseteq PublishedKeys(p)
               /\ stored[p].one_time_keys \subseteq PublishedKeys(p)
               /\ opened[p] \in Nat /\ generated[p] \in Nat
    BY DEF KeysInv, Types, Counts
  <2>3. ASSUME NEW p \in Device, NEW s \in Slot
        PROVE  LET r == session[p][s].ratchet
               IN  /\ session[p][s].created
                        <=> r.sender_chain # <<>> \/ r.receiver_chains # <<>>
                   /\ session[p][s].received_message => session[p][s].created
                   /\ Len(r.sender_chain) <= 1
                   /\ Len(r.receiver_chains) <= OLM_MAX_RECEIVER_CHAINS
    <3>1. CASE session[p][s].created
      <4> DEFINE r == session[p][s].ratchet
      <4>1. GoodRatchet(r, p, generated, opened)
        BY <3>1, ObjectsGood DEF GoodObject
      <4> HIDE DEF r
      <4>2. /\ r.sender_chain # <<>> \/ r.receiver_chains # <<>>
            /\ Len(r.receiver_chains) <= OLM_MAX_RECEIVER_CHAINS
        BY <4>1 DEF GoodRatchet, GoodReceiver
      <4>3. r.sender_chain = <<>> \/ \E x : r.sender_chain = <<x>>
        BY <4>1, Zenon DEF GoodRatchet, GoodSender
      <4>4. Len(r.sender_chain) <= 1
        <5>1. CASE r.sender_chain = <<>>
          BY <5>1
        <5>2. CASE r.sender_chain # <<>>
          <6>1. PICK x : r.sender_chain = <<x>>
            BY <4>3, <5>2
          <6> QED BY <6>1
        <5> QED BY <5>1, <5>2
      <4> QED BY <3>1, <4>2, <4>4 DEF r
    <3>2. CASE ~session[p][s].created
      <4>1. session[p][s].ratchet = EmptyRatchet /\ ~session[p][s].received_message
        BY <3>2 DEF KeysInv, Types
      <4>2. EmptyRatchet.sender_chain = <<>> /\ EmptyRatchet.receiver_chains = <<>>
        BY DEF EmptyRatchet
      <4> QED BY <3>2, <4>1, <4>2, ReceiverChainsAssumption
    <3> QED BY <3>1, <3>2
  <2> QED BY <2>1, <2>2, <2>3 DEF TypeOK
<1> QED BY <1>1, SpecKeysInv, PTL

-----------------------------------------------------------------------------
(* No message is read twice.                                               *)

(* A root key came before another: it is no longer, and where it goes on   *)
(* it took the same first step.                                            *)
Earlier(path, root) ==
    /\ IsSequence(path)
    /\ 1 <= Len(path) /\ Len(path) <= Len(root)
    /\ path[1] = root[1]
    /\ Len(path) >= 2 => path[2] = root[2]

GoodKey(key, root) ==
    /\ key = [chain |-> key.chain, index |-> key.index]
    /\ key.index \in Nat
    /\ Earlier(key.chain, root)

(* The receiving side of a ratchet: no two chains are the same, no message *)
(* key is stored twice, and a stored one is behind its chain.              *)
Receiving(r) ==
    /\ IsSequence(r.root_key)
    /\ \A i \in DOMAIN r.receiver_chains : GoodKey(r.receiver_chains[i].chain_key, r.root_key)
    /\ \A i, j \in DOMAIN r.receiver_chains :
          r.receiver_chains[i].chain_key.chain = r.receiver_chains[j].chain_key.chain => i = j
    /\ IsSequence(r.skipped_message_keys)
    /\ \A i \in DOMAIN r.skipped_message_keys :
          GoodKey(r.skipped_message_keys[i].message_key, r.root_key)
    /\ \A i, j \in DOMAIN r.skipped_message_keys :
          r.skipped_message_keys[i].message_key = r.skipped_message_keys[j].message_key => i = j
    /\ \A i \in DOMAIN r.skipped_message_keys, j \in DOMAIN r.receiver_chains :
          r.skipped_message_keys[i].message_key.chain = r.receiver_chains[j].chain_key.chain
            => r.skipped_message_keys[i].message_key.index < r.receiver_chains[j].chain_key.index

(* The ratchet is past a message key and has not stored it.                *)
Consumed(r, key) ==
    /\ key.index \in Nat /\ Len(key.chain) \in 0 .. Len(r.root_key)
    /\ \A i \in DOMAIN r.receiver_chains :
          r.receiver_chains[i].chain_key.chain = key.chain
            => key.index < r.receiver_chains[i].chain_key.index
    /\ \A i \in DOMAIN r.skipped_message_keys : r.skipped_message_keys[i].message_key # key

(* The ratchet never comes to the chain of the key: it began anew.         *)
Diverged(r, key) ==
    /\ Len(key.chain) >= 2
    /\ \/ Len(r.root_key) = 1 /\ r.sender_chain = <<>>
       \/ Len(r.root_key) >= 2 /\ r.root_key[2] # key.chain[2]

SecondOld(path, keys) == Len(path) >= 2 => \A key \in path[2] : Old(key, keys)

(* The secret both sides of the opening with this id compute.              *)
SecretOf(id) == TripleDH(id[1], id[2], Identity(Peer(id[1][1])), id[3])

(* Until the opener is answered it only sends, pre-key messages.           *)
FirstChain(x) ==
    Len(x.ratchet.root_key) = 1 /\ x.ratchet.sender_chain # <<>>
      => x.ratchet.receiver_chains = <<>> /\ ~x.received_message

ReceivesGood(x, keys) ==
    /\ Receiving(x.ratchet)
    /\ x.ratchet.root_key[1] = SecretOf(SessionId(x))
    /\ SecondOld(x.ratchet.root_key, keys)
    /\ FirstChain(x)

ReceiversGood ==
    \A p \in Device, s \in Slot : \A x \in SessionsOf(p, s) : ReceivesGood(x, generated)

SentGood(m, i, keys) ==
    /\ m.body.plaintext = i
    /\ m.body.counter = m.body.mac_key.index
    /\ SecondOld(m.body.mac_key.chain, keys)
    /\ Len(m.body.mac_key.chain) = 1 => m.type = "PRE_KEY"
    /\ m.type = "PRE_KEY" =>
          m.body.mac_key.chain[1] = SecretOf(<<m.identity_key, m.base_key, m.one_time_key>>)

LettersGood ==
    \A p \in Device : \A i \in DOMAIN sent[p] : SentGood(sent[p][i], i, generated)

ForgottenGood ==
    \A p \in Device : \A id \in forgotten[p] :
        \E o \in Device : OpeningOf(id[1], id[2], id[3], o, opened) /\ id = <<id[1], id[2], id[3]>>

KeyOf(p, i) == sent[p][i].body.mac_key

(* All sessions of a device, live and pickled.                             *)
ObjectsOf(p) == UNION {SessionsOf(p, s) : s \in Slot}

Reader(x, key) == SecretOf(SessionId(x)) = key.chain[1] /\ Consumed(x.ratchet, key)

(* The session that read the message was deleted, and none there is now is *)
(* the one that read it.                                                   *)
ReaderGone(key, ids, objects) ==
    /\ \E id \in ids : SecretOf(id) = key.chain[1]
    /\ \A x \in objects : SecretOf(SessionId(x)) = key.chain[1]
                            => Len(key.chain) = 1 \/ Diverged(x.ratchet, key)

(* What was read with the session x, if it is there still.                 *)
ReadBy(key, there, x, ids, objects) ==
    (there /\ Reader(x, key)) \/ ReaderGone(key, ids, objects)

LiveReads ==
    \A p \in Device, s \in Slot : \A i \in read[p][s] :
        /\ i \in DOMAIN sent[Peer(p)]
        /\ ReadBy(KeyOf(Peer(p), i), session[p][s].created, session[p][s],
                  forgotten[p], ObjectsOf(p))

StoredReads ==
    \A p \in Device, s \in Slot : \A i \in stored[p].read[s] :
        /\ i \in DOMAIN sent[Peer(p)]
        /\ ReadBy(KeyOf(Peer(p), i), stored[p].session[s] # NoPickle, stored[p].session[s],
                  forgotten[p], ObjectsOf(p))

ReadShape ==
    /\ DOMAIN forgotten = Device /\ DOMAIN read = Device
    /\ \A p \in Device : DOMAIN read[p] = Slot /\ DOMAIN stored[p].read = Slot

ReadInv ==
    ReadShape /\ ReceiversGood /\ LettersGood /\ ForgottenGood /\ LiveReads /\ StoredReads

(* A root key of before came before all that follow.                       *)
LEMMA EarlierStays ==
    ASSUME NEW path, NEW root, IsSequence(root), Earlier(path, root), NEW x
    PROVE  /\ Earlier(path, Append(root, x))
           /\ Len(path) < Len(Append(root, x))
<1>1. /\ IsSequence(Append(root, x))
      /\ Len(root) \in Nat /\ Len(Append(root, x)) = Len(root) + 1
      /\ \A i \in 1 .. Len(root) : Append(root, x)[i] = root[i]
  BY SequenceAppend
<1>2. Len(path) \in Nat
  BY DEF Earlier, IsSequence
<1>3. 1 \in 1 .. Len(root) /\ (Len(path) >= 2 => 2 \in 1 .. Len(root))
  BY <1>1, <1>2 DEF Earlier
<1> QED BY <1>1, <1>2, <1>3 DEF Earlier

(* A key on a chain of before is on one of before still, and on none that  *)
(* begins now.                                                             *)
LEMMA GoodKeyStays ==
    ASSUME NEW key, NEW root, IsSequence(root), GoodKey(key, root), NEW x
    PROVE  GoodKey(key, Append(root, x)) /\ key.chain # Append(root, x)
<1>1. Earlier(key.chain, root)
  BY DEF GoodKey
<1>2. Earlier(key.chain, Append(root, x)) /\ Len(key.chain) < Len(Append(root, x))
  BY <1>1, EarlierStays
<1>3. key.chain # Append(root, x)
  <2>1. Len(Append(root, x)) \in Nat
    BY SequenceAppend
  <2> QED BY <1>2, <2>1
<1> QED BY <1>2, <1>3 DEF GoodKey

(* The root key moves on.                                                  *)
LEMMA RootMoves ==
    ASSUME NEW r, Receiving(r), NEW e, NEW x, e.root_key = Append(r.root_key, x),
           e.receiver_chains = r.receiver_chains,
           e.skipped_message_keys = r.skipped_message_keys
    PROVE  /\ Receiving(e)
           /\ \A key : Consumed(r, key) => Consumed(e, key)
<1>1. /\ IsSequence(r.root_key) /\ IsSequence(e.root_key)
      /\ Len(r.root_key) \in Nat /\ Len(e.root_key) = Len(r.root_key) + 1
  BY SequenceAppend DEF Receiving
<1>2. \A key : GoodKey(key, r.root_key) => GoodKey(key, e.root_key)
  BY <1>1, GoodKeyStays
<1>3. Receiving(e)
  BY <1>1, <1>2, Zenon DEF Receiving
<1>4. ASSUME NEW key, Consumed(r, key) PROVE Consumed(e, key)
  <2>1. key.index \in Nat /\ Len(key.chain) \in 0 .. Len(e.root_key)
    <3>1. key.index \in Nat /\ Len(key.chain) \in 0 .. Len(r.root_key)
      BY <1>4 DEF Consumed
    <3> QED BY <1>1, <3>1
  <2> QED BY <1>4, <2>1, Zenon DEF Consumed
<1> QED BY <1>3, <1>4

(* Encryption leaves the receiving side alone; a new chain moves the root  *)
(* key on by a step of which the fresh key is part.                        *)
LEMMA EncryptParts ==
    ASSUME NEW keys \in Counts, NEW opens \in Counts, NEW p \in Device,
           NEW r, GoodRatchet(r, p, keys, opens),
           NEW fresh, NEW e, e = AfterEncrypt(r, fresh)
    PROVE  /\ e.receiver_chains = r.receiver_chains
           /\ e.skipped_message_keys = r.skipped_message_keys
           /\ r.sender_chain # <<>> => e.root_key = r.root_key
           /\ r.sender_chain = <<>> =>
                 e.root_key = Append(r.root_key, {fresh, r.receiver_chains[1].ratchet_key})
<1> DEFINE w == WithSenderChain(r, fresh)
<1>1. DOMAIN r = RatchetFields
  BY DEF GoodRatchet
<1>2. /\ DOMAIN w = RatchetFields
      /\ w.receiver_chains = r.receiver_chains
      /\ w.skipped_message_keys = r.skipped_message_keys
      /\ r.sender_chain # <<>> => w.root_key = r.root_key
      /\ r.sender_chain = <<>> =>
            w.root_key = Append(r.root_key, {fresh, r.receiver_chains[1].ratchet_key})
  <2>1. CASE r.sender_chain # <<>>
    BY <1>1, <2>1 DEF WithSenderChain
  <2>2. CASE r.sender_chain = <<>>
    <3> DEFINE root == CreateRootKey(r.root_key, fresh, r.receiver_chains[1].ratchet_key)
               list == ListInsertFront(r.sender_chain, [ratchet_key |-> fresh,
                                                        chain_key   |-> NewChainKey(root)], 1)
    <3>1. w = [r EXCEPT !.root_key = root, !.sender_chain = list]
      BY <2>2, Zenon DEF WithSenderChain
    <3>2. root = Append(r.root_key, {fresh, r.receiver_chains[1].ratchet_key})
      BY Zenon DEF CreateRootKey, SharedSecret
    <3> HIDE DEF root, list, w
    <3> QED BY <1>1, <2>2, <3>1, <3>2 DEF RatchetFields
  <2> QED BY <2>1, <2>2
<1> HIDE DEF w
<1>3. e = [w EXCEPT !.sender_chain[1].chain_key = AdvanceChainKey(@)]
  BY Zenon DEF AfterEncrypt, w
<1>4. /\ e.receiver_chains = w.receiver_chains
      /\ e.skipped_message_keys = w.skipped_message_keys
      /\ e.root_key = w.root_key
  BY <1>2, <1>3 DEF RatchetFields
<1> QED BY <1>2, <1>4

(* Encryption leaves the receiving side alone: what was consumed is so     *)
(* still, and a root key that begins anew takes a step nobody took before. *)
LEMMA EncryptReceiving ==
    ASSUME NEW keys \in Counts, NEW opens \in Counts, NEW p \in Device,
           NEW r, GoodRatchet(r, p, keys, opens), Receiving(r), SecondOld(r.root_key, keys),
           NEW keys2 \in Counts, \A d \in Device : keys[d] <= keys2[d],
           r.sender_chain = <<>> => keys2[p] = keys[p] + 1,
           NEW fresh, fresh = <<p, "ratchet", keys[p]>>,
           NEW e, e = AfterEncrypt(r, fresh), e.sender_chain # <<>>
    PROVE  /\ Receiving(e)
           /\ SecondOld(e.root_key, keys2)
           /\ e.root_key[1] = r.root_key[1]
           /\ Len(e.root_key) = 1 => r.sender_chain # <<>>
           /\ e.receiver_chains = r.receiver_chains
           /\ \A key : Consumed(r, key) => Consumed(e, key)
           /\ \A key : Diverged(r, key) /\ SecondOld(key.chain, keys) => Diverged(e, key)
<1>1. /\ e.receiver_chains = r.receiver_chains
      /\ e.skipped_message_keys = r.skipped_message_keys
      /\ r.sender_chain # <<>> => e.root_key = r.root_key
      /\ r.sender_chain = <<>> =>
            e.root_key = Append(r.root_key, {fresh, r.receiver_chains[1].ratchet_key})
  BY EncryptParts
<1>2. \A key : Old(key, keys) => Old(key, keys2)
  BY OldStays
<1>3. CASE r.sender_chain # <<>>
  <2>1. e.root_key = r.root_key
    BY <1>1, <1>3
  <2>10. e.receiver_chains = r.receiver_chains /\ e.skipped_message_keys = r.skipped_message_keys
    BY <1>1
  <2>11. Receiving(e)
    <3>1. \A z : z.root_key = r.root_key /\ z.receiver_chains = r.receiver_chains
                   /\ z.skipped_message_keys = r.skipped_message_keys => Receiving(z)
      <4> SUFFICES ASSUME NEW z, z.root_key = r.root_key,
                          z.receiver_chains = r.receiver_chains,
                          z.skipped_message_keys = r.skipped_message_keys
                   PROVE  Receiving(z)
        OBVIOUS
      <4> QED BY DEF Receiving
    <3> QED BY <2>1, <2>10, <3>1
  <2>2. Receiving(e) /\ \A key : Consumed(r, key) => Consumed(e, key)
    <3>1. \A key : Consumed(r, key) => Consumed(e, key)
      BY <2>1, <2>10, Zenon DEF Consumed
    <3> QED BY <2>11, <3>1
  <2>3. SecondOld(e.root_key, keys2)
    BY <1>2, <2>1, Zenon DEF SecondOld
  <2>4. \A key : Diverged(r, key) => Diverged(e, key)
    BY <1>3, <2>1, Zenon DEF Diverged
  <2>5. e.root_key[1] = r.root_key[1]
    BY <2>1
  <2> QED BY <1>3, <2>2, <2>3, <2>4, <2>5, <2>10, ZenonT(30)
<1>4. CASE r.sender_chain = <<>>
  <2> DEFINE theirs == r.receiver_chains[1].ratchet_key
  <2>1. e.root_key = Append(r.root_key, {fresh, theirs})
    BY <1>1, <1>4
  <2>2. Receiving(e) /\ \A key : Consumed(r, key) => Consumed(e, key)
    <3> DEFINE x == {fresh, theirs}
    <3>1. /\ Receiving(r) /\ e.root_key = Append(r.root_key, x)
          /\ e.receiver_chains = r.receiver_chains
          /\ e.skipped_message_keys = r.skipped_message_keys
      BY <1>1, <2>1
    <3> HIDE DEF x, theirs
    <3> QED BY ONLY <3>1, RootMoves
  <2>3. /\ TurnOf(r.root_key, Peer(p), opens)
        /\ GoodReceiver(r.receiver_chains, keys) /\ r.receiver_chains # <<>>
    BY <1>4, Zenon DEF GoodRatchet
  <2>4. Old(theirs, keys)
    <3>1. 1 \in DOMAIN r.receiver_chains
      BY <2>3 DEF GoodReceiver, IsSequence
    <3> QED BY <2>3, <3>1, Zenon DEF GoodReceiver
  <2>5. Old(theirs, keys2) /\ Old(fresh, keys2)
    <3>1. keys[p] \in 0 .. keys2[p] - 1
      BY <1>4 DEF Counts
    <3>2. Old(fresh, keys2)
      BY <3>1 DEF Old
    <3> QED BY <1>2, <2>4, <3>2
  <2> HIDE DEF theirs
  <2>6. /\ Len(r.root_key) \in Nat /\ Len(r.root_key) >= 1
        /\ Len(e.root_key) = Len(r.root_key) + 1
        /\ \A i \in 1 .. Len(r.root_key) : e.root_key[i] = r.root_key[i]
        /\ e.root_key[Len(r.root_key) + 1] = {fresh, theirs}
    <3> DEFINE q == r.root_key
               x == {fresh, theirs}
    <3>1. IsSequence(q) /\ Len(q) >= 1
      BY <2>3, Zenon DEF TurnOf
    <3>2. e.root_key = Append(q, x)
      BY <2>1
    <3> HIDE DEF q, x
    <3>3. /\ Len(q) \in Nat /\ Len(Append(q, x)) = Len(q) + 1
          /\ Append(q, x)[Len(q) + 1] = x
          /\ \A i \in 1 .. Len(q) : Append(q, x)[i] = q[i]
      BY <3>1, SequenceAppend
    <3>4. /\ Len(q) \in Nat /\ Len(q) >= 1
          /\ Len(e.root_key) = Len(q) + 1
          /\ \A i \in 1 .. Len(q) : e.root_key[i] = q[i]
          /\ e.root_key[Len(q) + 1] = x
      BY <3>1, <3>2, <3>3
    <3> QED BY <3>4 DEF q, x
  <2>7. e.root_key[1] = r.root_key[1] /\ Len(e.root_key) # 1
    <3>1. 1 \in 1 .. Len(r.root_key) /\ Len(r.root_key) + 1 # 1
      BY <2>6
    <3> QED BY <2>6, <3>1, Zenon
  <2>8. CASE Len(r.root_key) = 1
    <3>1. e.root_key[2] = {fresh, theirs} /\ Len(e.root_key) >= 2
      BY <2>6, <2>8
    <3>2. SecondOld(e.root_key, keys2)
      BY <2>5, <3>1 DEF SecondOld
    <3>3. ASSUME NEW key, Diverged(r, key), SecondOld(key.chain, keys) PROVE Diverged(e, key)
      <4>1. Len(key.chain) >= 2
        BY <3>3 DEF Diverged
      <4>2. \A k \in key.chain[2] : Old(k, keys)
        BY <3>3, <4>1 DEF SecondOld
      <4>3. ~Old(fresh, keys)
        <5>1. keys[p] \notin 0 .. keys[p] - 1
          BY DEF Counts
        <5> QED BY <5>1 DEF Old
      <4>4. e.root_key[2] # key.chain[2]
        BY <3>1, <4>2, <4>3
      <4> QED BY <3>1, <4>1, <4>4 DEF Diverged
    <3> QED BY <1>1, <2>2, <2>7, <3>2, <3>3
  <2>9. CASE Len(r.root_key) # 1
    <3>0. Len(r.root_key) >= 2 /\ 2 \in 1 .. Len(r.root_key)
      <4> DEFINE n == Len(r.root_key)
      <4>1. n \in Nat /\ n >= 1 /\ n # 1
        BY <2>6, <2>9
      <4> HIDE DEF n
      <4>2. n >= 2 /\ 2 \in 1 .. n
        BY <4>1
      <4> QED BY <4>2 DEF n
    <3>1. e.root_key[2] = r.root_key[2] /\ Len(e.root_key) >= 2 /\ Len(r.root_key) >= 2
      BY <2>6, <3>0
    <3>2. SecondOld(e.root_key, keys2)
      BY <1>2, <3>1 DEF SecondOld
    <3>3. \A key : Diverged(r, key) => Diverged(e, key)
      BY <2>9, <3>1 DEF Diverged
    <3> QED BY <1>1, <2>2, <2>7, <3>2, <3>3
  <2> QED BY <2>8, <2>9
<1> QED BY <1>3, <1>4

(* A new receiver chain is on a root key longer than every other, so no    *)
(* key of before is on it.                                                 *)
LEMMA NewReceiverReceiving ==
    ASSUME NEW r, Receiving(r), NEW w, NEW x, w.root_key = Append(r.root_key, x),
           w.skipped_message_keys = r.skipped_message_keys,
           DOMAIN w.receiver_chains = 1 .. Len(w.receiver_chains),
           Len(w.receiver_chains) \in Nat,
           w.receiver_chains[1].chain_key = [chain |-> w.root_key, index |-> 0],
           \A i \in 2 .. Len(w.receiver_chains) :
              /\ i - 1 \in DOMAIN r.receiver_chains
              /\ w.receiver_chains[i] = r.receiver_chains[i - 1]
    PROVE  /\ Receiving(w)
           /\ \A key : Consumed(r, key) => Consumed(w, key)
<1> DEFINE root   == w.root_key
           chains == w.receiver_chains
           old    == r.receiver_chains
           skips  == r.skipped_message_keys
<1>1. /\ IsSequence(r.root_key) /\ IsSequence(root)
      /\ Len(r.root_key) \in Nat /\ Len(root) = Len(r.root_key) + 1
  BY SequenceAppend DEF Receiving
<1>2. \A key : GoodKey(key, r.root_key) => GoodKey(key, root) /\ key.chain # root
  BY <1>1, GoodKeyStays
<1>3. /\ \A i \in DOMAIN old : GoodKey(old[i].chain_key, r.root_key)
      /\ \A i, j \in DOMAIN old : old[i].chain_key.chain = old[j].chain_key.chain => i = j
      /\ IsSequence(skips)
      /\ \A i \in DOMAIN skips : GoodKey(skips[i].message_key, r.root_key)
      /\ \A i, j \in DOMAIN skips : skips[i].message_key = skips[j].message_key => i = j
      /\ \A i \in DOMAIN skips, j \in DOMAIN old :
            skips[i].message_key.chain = old[j].chain_key.chain
              => skips[i].message_key.index < old[j].chain_key.index
  BY DEF Receiving
<1>4. /\ w.skipped_message_keys = skips
      /\ chains[1].chain_key = [chain |-> root, index |-> 0]
      /\ \A i \in DOMAIN chains : \/ i = 1
                                  \/ i - 1 \in DOMAIN old /\ chains[i] = old[i - 1]
  OBVIOUS
<1> HIDE DEF old, skips
<1>5. Earlier(root, root)
  <2>1. Len(root) \in Nat /\ Len(root) >= 1
    BY <1>1
  <2> QED BY <1>1, <2>1 DEF Earlier
<1> HIDE DEF root, chains
<1>6. GoodKey(chains[1].chain_key, root) /\ chains[1].chain_key.chain = root
  BY <1>4, <1>5 DEF GoodKey
<1>7. \A i \in DOMAIN chains : GoodKey(chains[i].chain_key, root)
  BY <1>2, <1>3, <1>4, <1>6
<1>8. \A i \in DOMAIN chains : i # 1 => chains[i].chain_key.chain # root
  BY <1>2, <1>3, <1>4
<1>9. \A i, j \in DOMAIN chains : chains[i].chain_key.chain = chains[j].chain_key.chain => i = j
  <2> SUFFICES ASSUME NEW i \in DOMAIN chains, NEW j \in DOMAIN chains,
                      chains[i].chain_key.chain = chains[j].chain_key.chain
               PROVE  i = j
    OBVIOUS
  <2>1. CASE i = 1 \/ j = 1
    BY <1>6, <1>8, <2>1
  <2>2. CASE i # 1 /\ j # 1
    <3>1. i - 1 = j - 1
      BY <1>3, <1>4, <2>2
    <3>2. i \in Nat /\ j \in Nat
      BY DEF chains
    <3> QED BY <3>1, <3>2
  <2> QED BY <2>1, <2>2
<1>10. \A i \in DOMAIN skips :
          GoodKey(skips[i].message_key, root) /\ skips[i].message_key.chain # root
  BY <1>2, <1>3
<1>11. \A i \in DOMAIN skips, j \in DOMAIN chains :
          skips[i].message_key.chain = chains[j].chain_key.chain
            => skips[i].message_key.index < chains[j].chain_key.index
  BY <1>3, <1>4, <1>6, <1>10
<1>12. Receiving(w)
  <2>1. w.root_key = root /\ w.receiver_chains = chains
    BY DEF root, chains
  <2>2. IsSequence(root)
    BY <1>1 DEF root
  <2> QED BY <1>3, <1>4, <1>7, <1>9, <1>10, <1>11, <2>1, <2>2 DEF Receiving
<1>13. ASSUME NEW key, Consumed(r, key) PROVE Consumed(w, key)
  <2>1. /\ key.index \in Nat /\ Len(key.chain) \in 0 .. Len(r.root_key)
        /\ \A i \in DOMAIN old : old[i].chain_key.chain = key.chain
                                   => key.index < old[i].chain_key.index
        /\ \A i \in DOMAIN skips : skips[i].message_key # key
    BY <1>13 DEF Consumed, old, skips
  <2>2. key.chain # root
    <3>1. Len(root) = Len(r.root_key) + 1
      BY <1>1 DEF root
    <3>2. Len(root) \notin 0 .. Len(r.root_key)
      BY <1>1, <3>1
    <3> QED BY <2>1, <3>2
  <2>3. \A i \in DOMAIN chains : chains[i].chain_key.chain = key.chain
                                   => key.index < chains[i].chain_key.index
    BY <1>4, <1>6, <2>1, <2>2
  <2>4. Len(key.chain) \in 0 .. Len(root)
    BY <1>1, <2>1 DEF root
  <2> QED BY <1>4, <2>1, <2>3, <2>4 DEF Consumed, root, chains
<1> QED BY <1>12, <1>13

(* The list of skipped keys after the loop: one for each index from the    *)
(* chain's up to the message's, and keys that were there before.           *)
LEMMA SkippingParts ==
    ASSUME NEW skips, IsSequence(skips), NEW link, NEW path, NEW n \in Nat, NEW c \in Nat, n <= c,
           link.chain_key = [chain |-> path, index |-> n],
           NEW list, list = AfterSkipping(skips, link, c)
    PROVE  /\ IsSequence(list)
           /\ DOMAIN list = 1 .. Len(list)
           /\ \A j \in DOMAIN list :
                 \/ /\ j \in 1 .. c - n
                    /\ list[j].message_key = [chain |-> path, index |-> c - j]
                 \/ /\ j > c - n /\ j - (c - n) \in DOMAIN skips
                    /\ list[j] = skips[j - (c - n)]
<1> DEFINE total  == c - n + Len(skips)
           length == IF total < OLM_MAX_SKIPPED_MESSAGE_KEYS
                       THEN total ELSE OLM_MAX_SKIPPED_MESSAGE_KEYS
           value(j) == IF j <= c - n
                         THEN [ratchet_key |-> link.ratchet_key,
                               message_key |-> [link.chain_key EXCEPT !.index = c - j]]
                         ELSE skips[j - (c - n)]
<1>1. link.chain_key.index = n
  OBVIOUS
<1>2. list = [j \in 1 .. length |-> value(j)]
  BY <1>1 DEF AfterSkipping
<1>3. c - n \in Nat /\ Len(skips) \in Nat /\ DOMAIN skips = 1 .. Len(skips)
  BY DEF IsSequence
<1>4. length \in Nat /\ length <= c - n + Len(skips)
  BY <1>3, SkippedKeysAssumption
<1> HIDE DEF length
<1>5. list = [j \in 1 .. length |-> list[j]] /\ \A j \in 1 .. length : list[j] = value(j)
  BY <1>2
<1>6. IsSequence(list) /\ DOMAIN list = 1 .. Len(list) /\ Len(list) = length
  <2> HIDE DEF value
  <2> QED BY <1>4, <1>5, SequenceOf
<1>7. ASSUME NEW j \in DOMAIN list, j <= c - n
      PROVE  list[j].message_key = [chain |-> path, index |-> c - j]
  <2>1. list[j] = value(j) /\ j \in 1 .. length
    BY <1>5, <1>6
  <2>2. [link.chain_key EXCEPT !.index = c - j] = [chain |-> path, index |-> c - j]
    OBVIOUS
  <2> QED BY <1>7, <2>1, <2>2
<1>8. ASSUME NEW j \in DOMAIN list, ~(j <= c - n)
      PROVE  j - (c - n) \in DOMAIN skips /\ list[j] = skips[j - (c - n)]
  <2>1. list[j] = value(j) /\ j \in 1 .. length
    BY <1>5, <1>6
  <2>2. j - (c - n) \in 1 .. Len(skips)
    BY <1>3, <1>4, <1>8, <2>1
  <2> QED BY <1>3, <1>8, <2>1, <2>2
<1>9. \A j \in DOMAIN list : j \in Nat /\ j >= 1
  BY <1>6
<1> HIDE DEF value
<1>10. ASSUME NEW j \in DOMAIN list
       PROVE  \/ /\ j \in 1 .. c - n
                 /\ list[j].message_key = [chain |-> path, index |-> c - j]
              \/ /\ j > c - n /\ j - (c - n) \in DOMAIN skips
                 /\ list[j] = skips[j - (c - n)]
  <2>1. CASE j <= c - n
    BY <1>3, <1>7, <1>9, <2>1
  <2>2. CASE ~(j <= c - n)
    <3>1. j > c - n
      BY <1>3, <1>9, <2>2
    <3> QED BY <1>8, <2>2, <3>1
  <2> QED BY <2>1, <2>2
<1> QED BY <1>6, <1>10

(* Decryption on a chain: the chain is past the message, and the keys of   *)
(* the messages before it are stored, each once.                           *)
LEMMA OnChainReceiving ==
    ASSUME NEW w, Receiving(w), NEW i \in DOMAIN w.receiver_chains,
           "chain_key" \in DOMAIN w.receiver_chains[i],
           NEW path, path = w.receiver_chains[i].chain_key.chain,
           NEW c \in Nat, w.receiver_chains[i].chain_key.index <= c,
           NEW e, e.root_key = w.root_key,
           e.receiver_chains =
              [w.receiver_chains EXCEPT ![i].chain_key = [chain |-> path, index |-> c + 1]],
           e.skipped_message_keys = AfterSkipping(w.skipped_message_keys, w.receiver_chains[i], c)
    PROVE  /\ Receiving(e)
           /\ \A key : Consumed(w, key) => Consumed(e, key)
           /\ Consumed(e, [chain |-> path, index |-> c])
<1> DEFINE root  == w.root_key
           old   == w.receiver_chains
           skips == w.skipped_message_keys
           n     == old[i].chain_key.index
           list  == e.skipped_message_keys
           next  == e.receiver_chains
<1>1. /\ \A j \in DOMAIN old : GoodKey(old[j].chain_key, root)
      /\ \A j, k \in DOMAIN old : old[j].chain_key.chain = old[k].chain_key.chain => j = k
      /\ IsSequence(skips) /\ IsSequence(root)
      /\ \A j \in DOMAIN skips : GoodKey(skips[j].message_key, root)
      /\ \A j, k \in DOMAIN skips : skips[j].message_key = skips[k].message_key => j = k
      /\ \A j \in DOMAIN skips, k \in DOMAIN old :
            skips[j].message_key.chain = old[k].chain_key.chain
              => skips[j].message_key.index < old[k].chain_key.index
  BY DEF Receiving
<1>2. /\ old[i].chain_key = [chain |-> path, index |-> n] /\ n \in Nat
      /\ Earlier(path, root)
  BY <1>1 DEF GoodKey
<1>3. /\ IsSequence(list)
      /\ DOMAIN list = 1 .. Len(list)
      /\ \A j \in DOMAIN list :
            \/ /\ j \in 1 .. c - n
               /\ list[j].message_key = [chain |-> path, index |-> c - j]
            \/ /\ j > c - n /\ j - (c - n) \in DOMAIN skips
               /\ list[j] = skips[j - (c - n)]
  <2>1. list = AfterSkipping(skips, old[i], c) /\ n <= c
    OBVIOUS
  <2>2. IsSequence(skips)
    BY <1>1
  <2> HIDE DEF list, skips, old, n
  <2> QED BY <1>2, <2>1, <2>2, SkippingParts
<1>4. /\ DOMAIN next = DOMAIN old
      /\ next[i].chain_key = [chain |-> path, index |-> c + 1]
      /\ \A j \in DOMAIN old : j # i => next[j] = old[j]
  OBVIOUS
<1>5. n <= c /\ e.root_key = root /\ path = old[i].chain_key.chain /\ i \in DOMAIN old
  OBVIOUS
<1> HIDE DEF root, old, skips, n, list, next
<1>6. \A j \in DOMAIN old : next[j].chain_key.chain = old[j].chain_key.chain
  BY <1>4, <1>5
<1>7. \A j \in DOMAIN old : GoodKey(next[j].chain_key, root)
  BY <1>1, <1>2, <1>4 DEF GoodKey
<1>8. \A j, k \in DOMAIN next : next[j].chain_key.chain = next[k].chain_key.chain => j = k
  BY <1>1, <1>4, <1>6
<1>9. \A j \in DOMAIN skips : skips[j].message_key.chain = path => skips[j].message_key.index < n
  BY <1>1, <1>5 DEF n
(* A stored key is on the chain with an index not yet reached, or old.     *)
<1>10. ASSUME NEW j \in DOMAIN list
       PROVE  GoodKey(list[j].message_key, root)
  <2>1. CASE j \in 1 .. c - n /\ list[j].message_key = [chain |-> path, index |-> c - j]
    <3>1. c - j \in Nat
      BY <1>2, <1>5, <2>1
    <3> QED BY <1>2, <2>1, <3>1 DEF GoodKey
  <2>2. CASE j - (c - n) \in DOMAIN skips /\ list[j] = skips[j - (c - n)]
    BY <1>1, <2>2
  <2> QED BY <1>3, <2>1, <2>2
<1>11. ASSUME NEW j \in DOMAIN list, NEW k \in DOMAIN list,
              list[j].message_key = list[k].message_key
       PROVE  j = k
  <2>1. ASSUME NEW a \in DOMAIN list, NEW b \in DOMAIN list,
               a \in 1 .. c - n, list[a].message_key = [chain |-> path, index |-> c - a],
               b - (c - n) \in DOMAIN skips, list[b] = skips[b - (c - n)]
        PROVE  list[a].message_key # list[b].message_key
    <3>1. list[a].message_key.chain = path /\ list[a].message_key.index = c - a
      BY <2>1
    <3>2. ~(c - a < n)
      BY <1>2, <2>1
    <3> QED BY <1>9, <2>1, <3>1, <3>2
  <2>2. CASE /\ j \in 1 .. c - n /\ list[j].message_key = [chain |-> path, index |-> c - j]
             /\ k \in 1 .. c - n /\ list[k].message_key = [chain |-> path, index |-> c - k]
    <3>1. list[j].message_key.index = c - j /\ list[k].message_key.index = c - k
      BY <2>2
    <3>2. c - j = c - k
      BY <1>11, <3>1
    <3>3. j \in Int /\ k \in Int
      BY <1>3
    <3> QED BY <3>2, <3>3
  <2>3. CASE /\ j - (c - n) \in DOMAIN skips /\ list[j] = skips[j - (c - n)]
             /\ k - (c - n) \in DOMAIN skips /\ list[k] = skips[k - (c - n)]
    <3>1. j - (c - n) = k - (c - n)
      BY <1>1, <1>11, <2>3
    <3>2. j \in Int /\ k \in Int
      BY <1>3
    <3>3. c - n \in Int
      BY <1>2
    <3> QED BY <3>1, <3>2, <3>3
  <2> QED BY <1>3, <1>11, <2>1, <2>2, <2>3
<1>12. ASSUME NEW j \in DOMAIN list, NEW k \in DOMAIN next,
              list[j].message_key.chain = next[k].chain_key.chain
       PROVE  list[j].message_key.index < next[k].chain_key.index
  <2>1. CASE j \in 1 .. c - n /\ list[j].message_key = [chain |-> path, index |-> c - j]
    <3>1. k = i
      BY <1>1, <1>4, <1>5, <1>6, <1>12, <2>1
    <3>2. c - j < c + 1
      BY <1>2, <2>1
    <3> QED BY <1>4, <2>1, <3>1, <3>2
  <2>2. CASE j - (c - n) \in DOMAIN skips /\ list[j] = skips[j - (c - n)]
    <3>1. CASE k # i
      BY <1>1, <1>4, <1>12, <2>2, <3>1
    <3>2. CASE k = i
      <4>1. list[j].message_key.chain = path
        BY <1>4, <1>12, <3>2
      <4>3. list[j].message_key.index < n
        BY <1>9, <2>2, <4>1
      <4>4. list[j].message_key.index \in Nat
        BY <1>10 DEF GoodKey
      <4>2. list[j].message_key.index < c + 1
        BY <1>2, <1>5, <4>3, <4>4
      <4> QED BY <1>4, <3>2, <4>2
    <3> QED BY <3>1, <3>2
  <2> QED BY <1>3, <2>1, <2>2
<1>13. Receiving(e)
  <2>1. e.receiver_chains = next /\ e.skipped_message_keys = list
    BY DEF next, list
  <2> QED BY <1>1, <1>3, <1>4, <1>5, <1>7, <1>8, <1>10, <1>11, <1>12, <2>1 DEF Receiving
<1>14. ASSUME NEW key, Consumed(w, key) PROVE Consumed(e, key)
  <2>1. /\ key.index \in Nat /\ Len(key.chain) \in 0 .. Len(root)
        /\ \A j \in DOMAIN old : old[j].chain_key.chain = key.chain => key.index < old[j].chain_key.index
        /\ \A j \in DOMAIN skips : skips[j].message_key # key
    BY <1>14 DEF Consumed, root, old, skips
  <2>2. key.chain = path => key.index < n
    BY <1>5, <2>1 DEF n
  <2>3. ASSUME NEW j \in DOMAIN next, next[j].chain_key.chain = key.chain
        PROVE  key.index < next[j].chain_key.index
    <3>1. CASE j # i
      BY <1>4, <2>1, <2>3, <3>1
    <3>2. CASE j = i
      <4>1. key.index < n
        BY <1>4, <2>2, <2>3, <3>2
      <4>2. key.index < c + 1
        BY <1>2, <1>5, <2>1, <4>1
      <4> QED BY <1>4, <3>2, <4>2
    <3> QED BY <3>1, <3>2
  <2>4. ASSUME NEW j \in DOMAIN list PROVE list[j].message_key # key
    <3>1. CASE j \in 1 .. c - n /\ list[j].message_key = [chain |-> path, index |-> c - j]
      <4>1. ~(c - j < n)
        BY <1>2, <3>1
      <4> QED BY <2>2, <3>1, <4>1
    <3>2. CASE j - (c - n) \in DOMAIN skips /\ list[j] = skips[j - (c - n)]
      BY <2>1, <3>2
    <3> QED BY <1>3, <3>1, <3>2
  <2> QED BY <1>5, <2>1, <2>3, <2>4 DEF Consumed, next, list
<1>15. Consumed(e, [chain |-> path, index |-> c])
  <2> DEFINE key == [chain |-> path, index |-> c]
  <2>1. Len(path) \in 0 .. Len(root)
    BY <1>1, <1>2 DEF Earlier, IsSequence
  <2>2. ASSUME NEW j \in DOMAIN next, next[j].chain_key.chain = path
        PROVE  c < next[j].chain_key.index
    <3>1. j = i
      BY <1>1, <1>4, <1>5, <1>6, <2>2
    <3> QED BY <1>4, <3>1
  <2>3. ASSUME NEW j \in DOMAIN list PROVE list[j].message_key # key
    <3>1. CASE j \in 1 .. c - n /\ list[j].message_key = [chain |-> path, index |-> c - j]
      <4>1. c - j # c
        BY <1>2, <3>1
      <4> QED BY <3>1, <4>1
    <3>2. CASE j - (c - n) \in DOMAIN skips /\ list[j] = skips[j - (c - n)]
      <4>1. ~(c < n)
        BY <1>2, <1>5
      <4> QED BY <1>9, <3>2, <4>1
    <3> QED BY <1>3, <3>1, <3>2
  <2>4. key.chain = path /\ key.index = c
    OBVIOUS
  <2> HIDE DEF key
  <2>5. Consumed(e, key)
    BY <1>5, <2>1, <2>2, <2>3, <2>4 DEF Consumed, next, list
  <2> QED BY <2>5 DEF key
<1> QED BY <1>13, <1>14, <1>15

(* Decryption with a stored key removes it.                                *)
LEMMA SkippedReceiving ==
    ASSUME NEW r, Receiving(r), NEW f \in DOMAIN r.skipped_message_keys,
           NEW e, e.root_key = r.root_key, e.receiver_chains = r.receiver_chains,
           e.skipped_message_keys = ListErase(r.skipped_message_keys, f)
    PROVE  /\ Receiving(e)
           /\ \A key : Consumed(r, key) => Consumed(e, key)
           /\ Consumed(e, r.skipped_message_keys[f].message_key)
<1> DEFINE root   == r.root_key
           chains == r.receiver_chains
           skips  == r.skipped_message_keys
           list   == e.skipped_message_keys
<1>1. /\ \A j \in DOMAIN chains : GoodKey(chains[j].chain_key, root)
      /\ \A j, k \in DOMAIN chains : chains[j].chain_key.chain = chains[k].chain_key.chain => j = k
      /\ IsSequence(skips) /\ IsSequence(root)
      /\ \A j \in DOMAIN skips : GoodKey(skips[j].message_key, root)
      /\ \A j, k \in DOMAIN skips : skips[j].message_key = skips[k].message_key => j = k
      /\ \A j \in DOMAIN skips, k \in DOMAIN chains :
            skips[j].message_key.chain = chains[k].chain_key.chain
              => skips[j].message_key.index < chains[k].chain_key.index
  BY DEF Receiving
<1>2. /\ e.root_key = root /\ e.receiver_chains = chains /\ list = ListErase(skips, f)
      /\ f \in DOMAIN skips
  OBVIOUS
<1> HIDE DEF root, chains, skips, list
<1>3. /\ skips \in Seq(Range(skips)) /\ DOMAIN skips = 1 .. Len(skips) /\ Len(skips) \in Nat
      /\ f \in 1 .. Len(skips)
  BY <1>1, <1>2 DEF IsSequence
<1>4. /\ list \in Seq(Range(skips))
      /\ Len(list) = Len(skips) - 1
      /\ \A i \in 1 .. Len(skips) - 1 :
            list[i] = IF i < f THEN skips[i] ELSE skips[i + 1]
  BY <1>2, <1>3, ListEraseProperties
<1>5. DOMAIN list = 1 .. Len(skips) - 1 /\ Len(skips) - 1 \in Nat
  BY <1>3, <1>4
<1>6. IsSequence(list)
  <2>1. list = [j \in 1 .. Len(skips) - 1 |-> list[j]]
    BY <1>4, <1>5
  <2> QED BY <1>5, <2>1, SequenceOf
<1> DEFINE at(j) == IF j < f THEN j ELSE j + 1
<1>7. \A j \in DOMAIN list : at(j) \in DOMAIN skips /\ at(j) # f /\ list[j] = skips[at(j)]
  BY <1>3, <1>4, <1>5
<1>8. \A j, k \in DOMAIN list : at(j) = at(k) => j = k
  BY <1>3, <1>5
<1> HIDE DEF at
<1>9. \A j, k \in DOMAIN list : list[j].message_key = list[k].message_key => j = k
  BY <1>1, <1>7, <1>8
<1>10. /\ \A j \in DOMAIN list : GoodKey(list[j].message_key, root)
       /\ \A j \in DOMAIN list, k \in DOMAIN chains :
            list[j].message_key.chain = chains[k].chain_key.chain
              => list[j].message_key.index < chains[k].chain_key.index
  BY <1>1, <1>7
<1>11. Receiving(e)
  <2>1. e.skipped_message_keys = list
    BY DEF list
  <2> QED BY <1>1, <1>2, <1>6, <1>9, <1>10, <2>1 DEF Receiving
<1>12. ASSUME NEW key, Consumed(r, key) PROVE Consumed(e, key)
  <2>1. /\ key.index \in Nat /\ Len(key.chain) \in 0 .. Len(root)
        /\ \A j \in DOMAIN chains : chains[j].chain_key.chain = key.chain
                                      => key.index < chains[j].chain_key.index
        /\ \A j \in DOMAIN skips : skips[j].message_key # key
    BY <1>12 DEF Consumed, root, chains, skips
  <2>2. \A j \in DOMAIN list : list[j].message_key # key
    BY <1>7, <2>1
  <2> QED BY <1>2, <2>1, <2>2 DEF Consumed, list
<1>13. Consumed(e, skips[f].message_key)
  <2> DEFINE key == skips[f].message_key
  <2>1. GoodKey(key, root)
    BY <1>1, <1>2
  <2>2. \A j \in DOMAIN chains : chains[j].chain_key.chain = key.chain
                                   => key.index < chains[j].chain_key.index
    BY <1>1, <1>2
  <2>3. \A j \in DOMAIN list : list[j].message_key # key
    BY <1>1, <1>2, <1>7
  <2> HIDE DEF key
  <2>4. key.index \in Nat /\ Len(key.chain) \in 0 .. Len(root)
    BY <1>1, <2>1 DEF GoodKey, Earlier, IsSequence
  <2>5. Consumed(e, key)
    BY <1>2, <2>2, <2>3, <2>4 DEF Consumed, list
  <2> QED BY <2>5 DEF key
<1> QED BY <1>11, <1>12, <1>13 DEF skips

(* The body of a message.                                                  *)
GoodBody(b) ==
    /\ b.mac_key = [chain |-> b.mac_key.chain, index |-> b.mac_key.index]
    /\ b.mac_key.index \in Nat
    /\ b.counter = b.mac_key.index

(* A message that is decrypted is the next but for a gap on a new chain,   *)
ByNewChain(r, b) ==
    /\ ~HasReceiverChain(r, b.ratchet_key)
    /\ r.sender_chain # <<>>
    /\ b.mac_key.chain = Append(r.root_key, {r.sender_chain[1].ratchet_key, b.ratchet_key})

(* or on one there is,                                                     *)
ByOldChain(r, b) ==
    LET i == ReceiverChain(r, b.ratchet_key)
    IN  /\ HasReceiverChain(r, b.ratchet_key)
        /\ i \in DOMAIN r.receiver_chains
        /\ r.receiver_chains[i].chain_key.index <= b.mac_key.index
        /\ b.mac_key.chain = r.receiver_chains[i].chain_key.chain

(* or has its key among those stored.                                      *)
BySkippedKey(r, b) ==
    LET f == FirstOf(SkippedKeysFor(r, b))
    IN  /\ f \in DOMAIN r.skipped_message_keys
        /\ r.skipped_message_keys[f].message_key = b.mac_key

(* These are the only ways a message is decrypted.                         *)
LEMMA DecryptsBy ==
    ASSUME NEW keys \in Counts, NEW opens \in Counts, NEW p \in Device,
           NEW r, GoodRatchet(r, p, keys, opens), Receiving(r),
           NEW b, GoodBody(b), Decrypts(r, b)
    PROVE  \/ AlreadyAdvanced(r, b) /\ BySkippedKey(r, b)
           \/ ~AlreadyAdvanced(r, b) /\ (ByNewChain(r, b) \/ ByOldChain(r, b))
<1>1. IsSequence(r.receiver_chains)
  BY DEF GoodRatchet, GoodReceiver
<1>2. CASE ~HasReceiverChain(r, b.ratchet_key)
  <2>1. VerifiesOnNewChain(r, b) /\ ~AlreadyAdvanced(r, b)
    BY <1>2, Zenon DEF Decrypts, AlreadyAdvanced
  <2>2. /\ r.sender_chain # <<>>
        /\ b.mac_key = [NewChainKey(NextRootKey(r, b.ratchet_key)) EXCEPT !.index = b.counter]
    BY <2>1, Zenon DEF VerifiesOnNewChain, VerifiesOnChain
  <2>3. \A root : [NewChainKey(root) EXCEPT !.index = b.counter].chain = root
    BY DEF NewChainKey
  <2>4. b.mac_key.chain = Append(r.root_key, {r.sender_chain[1].ratchet_key, b.ratchet_key})
    BY <2>2, <2>3, Zenon DEF NextRootKey, CreateRootKey, SharedSecret
  <2> QED BY <1>2, <2>1, <2>2, <2>4 DEF ByNewChain
<1>3. CASE HasReceiverChain(r, b.ratchet_key) /\ ~AlreadyAdvanced(r, b)
  <2> DEFINE i == ReceiverChain(r, b.ratchet_key)
             chain_key == r.receiver_chains[i].chain_key
  <2>1. i \in DOMAIN r.receiver_chains
    BY <1>1, <1>3, ReceiverChainThere
  <2>2. VerifiesOnChain(chain_key, b)
    BY <1>3, Zenon DEF Decrypts
  <2>3. GoodKey(chain_key, r.root_key)
    BY <2>1 DEF Receiving
  <2> HIDE DEF chain_key
  <2>4. chain_key.index <= b.mac_key.index
    <3>1. b.counter >= chain_key.index
      BY <2>2 DEF VerifiesOnChain
    <3>2. b.counter = b.mac_key.index /\ b.mac_key.index \in Nat /\ chain_key.index \in Nat
      BY <2>3 DEF GoodBody, GoodKey
    <3> QED BY <3>1, <3>2
  <2>5. b.mac_key.chain = chain_key.chain
    <3>1. b.mac_key = [chain_key EXCEPT !.index = b.counter]
      BY <2>2 DEF VerifiesOnChain
    <3>2. chain_key = [chain |-> chain_key.chain, index |-> chain_key.index]
      BY <2>3 DEF GoodKey
    <3>3. \A c, n, m : [[chain |-> c, index |-> n] EXCEPT !.index = m].chain = c
      OBVIOUS
    <3> QED BY <3>1, <3>2, <3>3, Zenon
  <2> QED BY <1>3, <2>1, <2>4, <2>5 DEF ByOldChain, chain_key
<1>4. CASE AlreadyAdvanced(r, b)
  <2> DEFINE T == SkippedKeysFor(r, b)
  <2>1. T # {}
    BY <1>4, Zenon DEF Decrypts, AlreadyAdvanced
  <2>2. T \subseteq DOMAIN r.skipped_message_keys
    BY DEF SkippedKeysFor
  <2>3. DOMAIN r.skipped_message_keys \subseteq Nat
    BY DEF Receiving, IsSequence
  <2> HIDE DEF T
  <2>4. \E i \in T : \A j \in T : i <= j
    BY <2>1, <2>2, <2>3, LeastElement
  <2>5. FirstOf(T) \in T
    BY <2>4, Zenon DEF FirstOf
  <2>6. \A i \in T : r.skipped_message_keys[i].message_key = b.mac_key
    BY DEF SkippedKeysFor, T
  <2> QED BY <1>4, <2>2, <2>5, <2>6 DEF BySkippedKey, T
<1> QED BY <1>2, <1>3, <1>4

(* What is decrypted is on the path of the root key, was not consumed, and *)
(* is on no chain the ratchet has turned away from.                        *)
LEMMA NotRead ==
    ASSUME NEW keys \in Counts, NEW opens \in Counts, NEW p \in Device,
           NEW r, GoodRatchet(r, p, keys, opens), Receiving(r),
           NEW b, GoodBody(b), Decrypts(r, b)
    PROVE  /\ ~Consumed(r, b.mac_key)
           /\ ~Diverged(r, b.mac_key)
           /\ b.mac_key.chain[1] = r.root_key[1]
<1> DEFINE root == r.root_key
           path == b.mac_key.chain
           n    == b.mac_key.index
<1>1. IsSequence(root) /\ Len(root) \in Nat /\ Len(root) >= 1
  <2>1. IsSequence(root) /\ Len(root) >= 1
    BY Zenon DEF GoodRatchet, GoodSender, TurnOf
  <2> QED BY <2>1 DEF IsSequence
<1>2. n \in Nat
  BY DEF GoodBody
<1>3. CASE ByNewChain(r, b)
  <2> DEFINE x == {r.sender_chain[1].ratchet_key, b.ratchet_key}
  <2>1. path = Append(root, x) /\ r.sender_chain # <<>>
    BY <1>3 DEF ByNewChain
  <2> HIDE DEF root, path, x
  <2>2. /\ Len(path) = Len(root) + 1
        /\ \A i \in 1 .. Len(root) : path[i] = root[i]
    BY <1>1, <2>1, SequenceAppend
  <2>3. path[1] = root[1]
    BY <1>1, <2>2
  <2>4. Len(path) \notin 0 .. Len(root)
    BY <1>1, <2>2
  <2>5. Len(root) >= 2 => path[2] = root[2]
    BY <1>1, <2>2
  <2>6. ~Diverged(r, b.mac_key)
    BY <2>1, <2>5 DEF Diverged, root, path
  <2> QED BY <2>3, <2>4, <2>6 DEF Consumed, root, path
(* On a chain there is, or that a stored key is of.                        *)
<1>4. ASSUME Earlier(path, root) PROVE ~Diverged(r, b.mac_key) /\ path[1] = root[1]
  <2>1. /\ Len(path) \in Nat /\ Len(path) <= Len(root) /\ path[1] = root[1]
        /\ Len(path) >= 2 => path[2] = root[2]
    BY <1>4 DEF Earlier, IsSequence
  <2> HIDE DEF root, path
  <2>2. Len(path) >= 2 => Len(root) # 1
    BY <1>1, <2>1
  <2> QED BY <2>1, <2>2 DEF Diverged, root, path
<1>5. CASE ByOldChain(r, b)
  <2>1. PICK i \in DOMAIN r.receiver_chains :
           /\ r.receiver_chains[i].chain_key.index <= n
           /\ path = r.receiver_chains[i].chain_key.chain
    BY <1>5 DEF ByOldChain
  <2>2. Earlier(path, root) /\ r.receiver_chains[i].chain_key.index \in Nat
    BY <2>1 DEF Receiving, GoodKey
  <2>3. ~(n < r.receiver_chains[i].chain_key.index)
    BY <1>2, <2>1, <2>2
  <2>4. ~Consumed(r, b.mac_key)
    BY <2>1, <2>3 DEF Consumed
  <2> QED BY <1>4, <2>2, <2>4
<1>6. CASE BySkippedKey(r, b)
  <2>1. PICK f \in DOMAIN r.skipped_message_keys :
           r.skipped_message_keys[f].message_key = b.mac_key
    BY <1>6 DEF BySkippedKey
  <2>2. Earlier(path, root)
    BY <2>1 DEF Receiving, GoodKey
  <2>3. ~Consumed(r, b.mac_key)
    BY <2>1 DEF Consumed
  <2> QED BY <1>4, <2>2, <2>3
<1> QED BY <1>3, <1>5, <1>6, DecryptsBy

(* After a decryption the ratchet is past the message, and past all it was *)
(* past before.                                                            *)
ReadsOn(r, e, b, keys) ==
    /\ Receiving(e)
    /\ SecondOld(e.root_key, keys)
    /\ e.root_key[1] = r.root_key[1]
    /\ \A key : Consumed(r, key) => Consumed(e, key)
    /\ Consumed(e, b.mac_key)
    /\ \A key : Diverged(r, key) => Diverged(e, key)
    /\ e.sender_chain # <<>> =>
          /\ r.sender_chain # <<>> /\ e.root_key = r.root_key
          /\ r.receiver_chains # <<>>

(* Decryption consumes the message's key and brings none back.             *)
LEMMA DecryptReceiving ==
    ASSUME NEW keys \in Counts, NEW opens \in Counts, NEW p \in Device,
           NEW r, GoodRatchet(r, p, keys, opens), Receiving(r), SecondOld(r.root_key, keys),
           NEW b, GoodBody(b), Old(b.ratchet_key, keys), Decrypts(r, b),
           NEW e, e = AfterDecrypt(r, b)
    PROVE  ReadsOn(r, e, b, keys)
<1> DEFINE root == r.root_key
           path == b.mac_key.chain
           c    == b.mac_key.index
           w    == WithReceiverChain(r, b.ratchet_key)
<1>1. IsSequence(root) /\ Len(root) \in Nat /\ Len(root) >= 1
  <2>1. IsSequence(root) /\ Len(root) >= 1
    BY Zenon DEF GoodRatchet, GoodSender, TurnOf
  <2> QED BY <2>1 DEF IsSequence
<1>2. DOMAIN r = RatchetFields /\ GoodReceiver(r.receiver_chains, keys)
  BY Zenon DEF GoodRatchet
<1>3. b.mac_key = [chain |-> path, index |-> c] /\ c \in Nat /\ b.counter = c
  BY DEF GoodBody
<1>4. CASE AlreadyAdvanced(r, b)
  <2> DEFINE f    == FirstOf(SkippedKeysFor(r, b))
             list == ListErase(r.skipped_message_keys, f)
  <2>1. /\ f \in DOMAIN r.skipped_message_keys
        /\ r.skipped_message_keys[f].message_key = b.mac_key
    BY <1>4, DecryptsBy DEF BySkippedKey
  <2>2. e = [r EXCEPT !.skipped_message_keys = list]
    BY <1>4, Zenon DEF AfterDecrypt, AfterDecryptSkipped
  <2> HIDE DEF f, list
  <2>3. /\ e.root_key = r.root_key
        /\ e.receiver_chains = r.receiver_chains
        /\ e.sender_chain = r.sender_chain
        /\ e.skipped_message_keys = list
    BY <1>2, <2>2 DEF RatchetFields
  <2>4. e.skipped_message_keys = ListErase(r.skipped_message_keys, f)
    BY <2>3 DEF list
  <2>5. /\ Receiving(e)
        /\ \A key : Consumed(r, key) => Consumed(e, key)
        /\ Consumed(e, b.mac_key)
    BY <2>1, <2>3, <2>4, SkippedReceiving
  <2>6. SecondOld(e.root_key, keys)
    BY <2>3
  <2>7. \A key : Diverged(r, key) => Diverged(e, key)
    BY <2>3, Zenon DEF Diverged
  <2>8. r.receiver_chains # <<>>
    BY <1>4 DEF AlreadyAdvanced, HasReceiverChain
  <2> QED BY <2>3, <2>5, <2>6, <2>7, <2>8, Zenon DEF ReadsOn
<1>5. CASE ~AlreadyAdvanced(r, b)
  <2> DEFINE i       == ReceiverChain(w, b.ratchet_key)
             link    == w.receiver_chains[i]
             skipped == AfterSkipping(w.skipped_message_keys, link, b.counter)
             key1    == AdvanceChainKey([link.chain_key EXCEPT !.index = b.counter])
  (* The chain that is advanced is the one of the message.                 *)
  <2>1. /\ DOMAIN w = RatchetFields
        /\ Receiving(w)
        /\ \A key : Consumed(r, key) => Consumed(w, key)
        /\ i \in DOMAIN w.receiver_chains
        /\ DOMAIN link = {"ratchet_key", "chain_key"}
        /\ link.chain_key.chain = path
        /\ link.chain_key.index <= c
        /\ SecondOld(w.root_key, keys)
        /\ w.root_key[1] = r.root_key[1]
        /\ \A key : Diverged(r, key) => Diverged(w, key)
        /\ w.sender_chain # <<>> =>
              r.sender_chain # <<>> /\ w.root_key = r.root_key /\ r.receiver_chains # <<>>
    <3>1. CASE ByOldChain(r, b)
      <4>1. w = r
        BY <3>1, Zenon DEF ByOldChain, WithReceiverChain
      <4>2. /\ i \in DOMAIN r.receiver_chains
            /\ r.receiver_chains[i].chain_key.index <= c
            /\ path = r.receiver_chains[i].chain_key.chain
        BY <3>1, <4>1 DEF ByOldChain
      <4>3. DOMAIN r.receiver_chains[i] = {"ratchet_key", "chain_key"}
        BY <1>2, <4>2, Zenon DEF GoodReceiver
      <4>4. r.receiver_chains # <<>>
        BY <4>2
      <4> HIDE DEF w, i
      <4> QED BY <1>2, <4>1, <4>2, <4>3, <4>4
    <3>2. CASE ByNewChain(r, b)
      <4> DEFINE ours == r.sender_chain[1].ratchet_key
                 x    == {ours, b.ratchet_key}
      <4>1. /\ ~HasReceiverChain(r, b.ratchet_key)
            /\ r.sender_chain # <<>>
            /\ path = Append(root, x)
        BY <3>2 DEF ByNewChain
      <4> HIDE DEF w
      <4>2. /\ DOMAIN w = RatchetFields
            /\ w.root_key = Append(root, x)
            /\ w.sender_chain = <<>>
            /\ w.skipped_message_keys = r.skipped_message_keys
            /\ IsSequence(w.receiver_chains)
            /\ DOMAIN w.receiver_chains = 1 .. Len(w.receiver_chains)
            /\ Len(w.receiver_chains) \in 1 .. OLM_MAX_RECEIVER_CHAINS
            /\ w.receiver_chains[1] = [ratchet_key |-> b.ratchet_key,
                                       chain_key   |-> [chain |-> w.root_key, index |-> 0]]
            /\ \A j \in 2 .. Len(w.receiver_chains) :
                  /\ j - 1 \in DOMAIN r.receiver_chains
                  /\ w.receiver_chains[j] = r.receiver_chains[j - 1]
        <5>1. w = WithReceiverChain(r, b.ratchet_key)
          BY DEF w
        <5>2. /\ keys \in Counts /\ opens \in Counts /\ p \in Device
              /\ GoodRatchet(r, p, keys, opens)
          OBVIOUS
        <5>3. NewReceiverTo(r, b.ratchet_key, w)
          BY ONLY <4>1, <5>1, <5>2, NewReceiverParts
        <5> QED BY <5>3 DEF NewReceiverTo
      <4>3. /\ Len(w.receiver_chains) \in Nat /\ 1 \in DOMAIN w.receiver_chains
            /\ w.receiver_chains[1].chain_key = [chain |-> w.root_key, index |-> 0]
            /\ w.receiver_chains[1].ratchet_key = b.ratchet_key
        BY <4>2, ReceiverChainsAssumption
      <4> HIDE DEF root, x
      <4>4. /\ Receiving(w)
            /\ \A key : Consumed(r, key) => Consumed(w, key)
        BY <4>2, <4>3, NewReceiverReceiving DEF root
      <4>5. HasReceiverChain(w, b.ratchet_key)
        BY <4>3 DEF HasReceiverChain
      <4>6. i \in DOMAIN w.receiver_chains /\ link.ratchet_key = b.ratchet_key
        BY <4>2, <4>5, ReceiverChainThere
      <4>7. i = 1
        <5>1. \A j \in DOMAIN r.receiver_chains : r.receiver_chains[j].ratchet_key # b.ratchet_key
          BY <4>1 DEF HasReceiverChain
        <5>2. \A j \in 2 .. Len(w.receiver_chains) : w.receiver_chains[j].ratchet_key # b.ratchet_key
          BY <4>2, <5>1
        <5>3. i \in 1 .. Len(w.receiver_chains) /\ w.receiver_chains[i].ratchet_key = b.ratchet_key
          BY <4>2, <4>6
        <5> HIDE DEF i, link
        <5> QED BY <4>3, <5>2, <5>3
      <4> HIDE DEF i
      <4>8. /\ DOMAIN link = {"ratchet_key", "chain_key"}
            /\ link.chain_key.chain = path
            /\ link.chain_key.index <= c
        BY <1>3, <4>1, <4>2, <4>7
      <4>9. /\ Len(w.root_key) = Len(root) + 1
            /\ \A j \in 1 .. Len(root) : w.root_key[j] = root[j]
            /\ w.root_key[Len(root) + 1] = x
        BY <1>1, <4>2, SequenceAppend
      <4>10. w.root_key[1] = root[1] /\ (Len(root) >= 2 => w.root_key[2] = root[2])
        BY <1>1, <4>9
      <4>11. SecondOld(w.root_key, keys)
        <5>1. CASE Len(root) >= 2
          BY <4>10, <5>1 DEF SecondOld, root
        <5>2. CASE ~(Len(root) >= 2)
          <6>1. w.root_key[2] = x
            BY <1>1, <4>9, <5>2
          <6>2. Old(ours, keys)
            BY <4>1, Zenon DEF GoodRatchet, GoodSender
          <6> QED BY <6>1, <6>2 DEF SecondOld, x
        <5> QED BY <5>1, <5>2
      <4>12. \A key : Diverged(r, key) => Diverged(w, key)
        <5>1. Len(root) >= 2 => Len(w.root_key) >= 2
          BY <1>1, <4>9
        <5> QED BY <4>1, <4>10, <5>1 DEF Diverged, root
      <4> QED BY <4>2, <4>4, <4>6, <4>8, <4>10, <4>11, <4>12 DEF root
    <3> QED BY <1>5, <3>1, <3>2, DecryptsBy
  <2> HIDE DEF w, i
  <2>2. e = [w EXCEPT !.skipped_message_keys = skipped, !.receiver_chains[i].chain_key = key1]
    BY <1>5, <2>1 DEF AfterDecrypt, AfterDecryptOnChain, w, i, RatchetFields
  <2>3. link.chain_key = [chain |-> path, index |-> link.chain_key.index]
    <3>1. GoodKey(w.receiver_chains[i].chain_key, w.root_key)
      BY <2>1, Zenon DEF Receiving
    <3> QED BY <2>1, <3>1, Zenon DEF GoodKey
  <2>4. key1 = [chain |-> path, index |-> c + 1]
    <3>1. \A n : [[chain |-> path, index |-> n] EXCEPT !.index = c] = [chain |-> path, index |-> c]
      OBVIOUS
    <3>2. [link.chain_key EXCEPT !.index = b.counter] = [chain |-> path, index |-> c]
      BY <1>3, <2>3, <3>1, Zenon
    <3>3. AdvanceChainKey([chain |-> path, index |-> c]) = [chain |-> path, index |-> c + 1]
      BY DEF AdvanceChainKey
    <3> QED BY <3>2, <3>3, Zenon
  <2> HIDE DEF link, key1, skipped
  <2>5. /\ e.root_key = w.root_key
        /\ e.sender_chain = w.sender_chain
        /\ e.receiver_chains = [w.receiver_chains EXCEPT ![i].chain_key = key1]
        /\ e.skipped_message_keys = skipped
    BY <2>1, <2>2 DEF RatchetFields
  <2>6. /\ "chain_key" \in DOMAIN w.receiver_chains[i]
        /\ path = w.receiver_chains[i].chain_key.chain
        /\ w.receiver_chains[i].chain_key.index <= c
        /\ e.receiver_chains =
              [w.receiver_chains EXCEPT ![i].chain_key = [chain |-> path, index |-> c + 1]]
        /\ e.skipped_message_keys
              = AfterSkipping(w.skipped_message_keys, w.receiver_chains[i], c)
    BY <1>3, <2>1, <2>4, <2>5 DEF link, skipped
  <2>7. /\ Receiving(e)
        /\ \A key : Consumed(w, key) => Consumed(e, key)
        /\ Consumed(e, b.mac_key)
    BY ONLY <1>3, <2>1, <2>5, <2>6, OnChainReceiving
  <2>8. \A key : Diverged(w, key) => Diverged(e, key)
    BY <2>5, Zenon DEF Diverged
  <2> QED BY <2>1, <2>5, <2>7, <2>8, Zenon DEF ReadsOn
<1> QED BY <1>4, <1>5

(* The shared secret of an opening names it.                               *)
LEMMA SecretNames ==
    ASSUME NEW opens \in Counts, NEW x, NEW o \in Device,
           OpeningOf(x[1], x[2], x[3], o, opens),
           NEW y, NEW w \in Device, OpeningOf(y[1], y[2], y[3], w, opens),
           SecretOf(x) = SecretOf(y)
    PROVE  x[1] = y[1] /\ x[2] = y[2] /\ x[3] = y[3]
<1>1. ASSUME NEW id, NEW d \in Device, OpeningOf(id[1], id[2], id[3], d, opens)
      PROVE  /\ id[1] = <<d, "identity", 0>>
             /\ \E n : id[2] = <<d, "base", n>>
             /\ id[3][2] # "base"
             /\ SecretOf(id) = <<{id[1], id[3]}, {id[2], <<Peer(d), "identity", 0>>}, {id[2], id[3]}>>
  <2>1. PICK n \in 0 .. opens[d] - 1 :
          /\ id[1] = Identity(d)
          /\ id[2] = <<d, "base", n>>
          /\ id[3] \in KeysOf(Peer(d))
    BY <1>1 DEF OpeningOf
  <2>2. id[1] = <<d, "identity", 0>> /\ id[1][1] = d
    BY <2>1 DEF Identity
  <2>3. id[3][2] # "base"
    BY <2>1 DEF KeysOf, PublishedKeys, FallbackKey
  <2>4. SecretOf(id) = <<{id[1], id[3]}, {id[2], <<Peer(d), "identity", 0>>}, {id[2], id[3]}>>
    BY <2>2, Zenon DEF SecretOf, TripleDH, SharedSecret, Identity
  <2> QED BY <2>1, <2>2, <2>3, <2>4
<1>2. /\ x[1] = <<o, "identity", 0>> /\ y[1] = <<w, "identity", 0>>
      /\ x[3][2] # "base" /\ y[3][2] # "base"
      /\ {x[2], <<Peer(o), "identity", 0>>} = {y[2], <<Peer(w), "identity", 0>>}
      /\ {x[2], x[3]} = {y[2], y[3]}
  BY <1>1
<1>3. PICK n : x[2] = <<o, "base", n>>
  BY <1>1
<1>4. PICK k : y[2] = <<w, "base", k>>
  BY <1>1
<1>5. x[2] # <<Peer(w), "identity", 0>> /\ y[2] # <<Peer(o), "identity", 0>>
  BY <1>3, <1>4
<1>6. x[2] = y[2]
  BY <1>2, <1>5
<1>7. o = w
  BY <1>3, <1>4, <1>6
<1>8. x[3] # y[2] /\ y[3] # x[2]
  <2>1. x[2][2] = "base" /\ y[2][2] = "base"
    BY <1>3, <1>4
  <2> QED BY <1>2, <2>1
<1>9. x[3] = y[3]
  BY <1>2, <1>8
<1> QED BY <1>2, <1>6, <1>7, <1>9

Same(x, y) == Like(x, y) /\ x.received_message = y.received_message

(* x is what the session y became.                                         *)
Succeeds(x, y, keys) ==
    /\ SessionId(x) = SessionId(y)
    /\ \A key : Consumed(y.ratchet, key) => Consumed(x.ratchet, key)
    /\ \A key : SecondOld(key.chain, keys) /\ Diverged(y.ratchet, key) => Diverged(x.ratchet, key)

(* x begins with another secret than the key, or from the start.           *)
Unrelated(x, key) ==
    \/ SecretOf(SessionId(x)) # key.chain[1]
    \/ Len(x.ratchet.root_key) = 1 /\ x.ratchet.sender_chain = <<>>

(* Pickling and unpickling keep a session as it is.                        *)
LEMMA SamePickled ==
    /\ \A x : Same(x, x) /\ Same(PickledSession(x), x) /\ Same(UnpickledSession(x), x)
    /\ \A x : PickledSession(x) # NoPickle
    /\ \A x : UnpickledSession(x).created
    /\ \A x, y, keys : Same(x, y) => Succeeds(x, y, keys)
<1>1. \A x : /\ PickledSession(x).received_message = x.received_message
             /\ UnpickledSession(x).received_message = x.received_message
             /\ UnpickledSession(x).created
  BY DEF PickledSession, UnpickledSession, SessionInit
<1>2. \A x : PickledSession(x) # NoPickle
  BY DEF PickledSession, NoPickle
<1>3. \A x, y, keys : Same(x, y) => Succeeds(x, y, keys)
  BY Zenon DEF Same, Like, Succeeds
<1> QED BY <1>1, <1>2, <1>3, LikePickled DEF Same

(* A second root key stays old.                                            *)
LEMMA SecondStays ==
    ASSUME NEW keys, NEW keys2, Grown(keys, keys2), NEW path, SecondOld(path, keys)
    PROVE  SecondOld(path, keys2)
<1> USE DEF Grown
<1>1. \A key : Old(key, keys) => Old(key, keys2)
  BY OldStays
<1> QED BY <1>1 DEF SecondOld

(* What holds of a session holds of its pickle, at any later time.         *)
LEMMA SameReceives ==
    ASSUME NEW keys, NEW keys2, Grown(keys, keys2), NEW x, NEW y, Same(x, y),
           ReceivesGood(y, keys)
    PROVE  ReceivesGood(x, keys2)
<1>1. /\ x.ratchet = y.ratchet /\ SessionId(x) = SessionId(y)
      /\ x.received_message = y.received_message
  BY DEF Same, Like
<1>2. SecondOld(x.ratchet.root_key, keys2)
  <2>1. SecondOld(y.ratchet.root_key, keys)
    BY DEF ReceivesGood
  <2> QED BY <1>1, <2>1, SecondStays
<1>3. FirstChain(x)
  <2>1. FirstChain(y)
    BY DEF ReceivesGood
  <2> QED BY <1>1, <2>1 DEF FirstChain
<1> QED BY <1>1, <1>2, <1>3 DEF ReceivesGood

(* A message whose reader is gone stays so while no session of before      *)
(* returns: what is new begins with a secret of its own or anew.           *)
LEMMA GoneStays ==
    ASSUME NEW keys, NEW key, SecondOld(key.chain, keys), Len(key.chain) \in Nat \ {0},
           NEW ids, NEW objects, ReaderGone(key, ids, objects),
           NEW ids2, ids \subseteq ids2, NEW objects2,
           \A x \in objects2 : Unrelated(x, key) \/ \E y \in objects : Succeeds(x, y, keys)
    PROVE  ReaderGone(key, ids2, objects2)
<1>1. \E id \in ids2 : SecretOf(id) = key.chain[1]
  BY DEF ReaderGone
<1>2. ASSUME NEW x \in objects2, SecretOf(SessionId(x)) = key.chain[1], Len(key.chain) # 1
      PROVE  Diverged(x.ratchet, key)
  <2>1. Len(key.chain) >= 2
    <3>1. \A n \in Nat \ {0} : n # 1 => n >= 2
      OBVIOUS
    <3> QED BY <1>2, <3>1, Zenon
  <2>2. CASE Unrelated(x, key)
    BY <1>2, <2>1, <2>2 DEF Unrelated, Diverged
  <2>3. ASSUME NEW y \in objects, Succeeds(x, y, keys)
        PROVE  Diverged(x.ratchet, key)
    <3>1. SecretOf(SessionId(y)) = key.chain[1]
      BY <1>2, <2>3 DEF Succeeds
    <3>2. Diverged(y.ratchet, key)
      BY <1>2, <3>1 DEF ReaderGone
    <3> QED BY <2>3, <3>2 DEF Succeeds
  <2> QED BY <2>2, <2>3
<1> QED BY <1>1, <1>2 DEF ReaderGone

(* A message that was read with y was read with x, what y became.          *)
LEMMA ReadStays ==
    ASSUME NEW keys, NEW key, SecondOld(key.chain, keys), Len(key.chain) \in Nat \ {0},
           NEW ids, NEW objects, NEW there, NEW y, ReadBy(key, there, y, ids, objects),
           NEW ids2, ids \subseteq ids2, NEW objects2,
           \A x \in objects2 : Unrelated(x, key) \/ \E z \in objects : Succeeds(x, z, keys),
           NEW there2, NEW w, there => there2 /\ Succeeds(w, y, keys)
    PROVE  ReadBy(key, there2, w, ids2, objects2)
<1>1. CASE there /\ Reader(y, key)
  BY <1>1 DEF ReadBy, Reader, Succeeds
<1>2. CASE ReaderGone(key, ids, objects)
  BY <1>2, GoneStays DEF ReadBy
<1> QED BY <1>1, <1>2 DEF ReadBy

(* A message was read with w, if that is there: it is one of those that    *)
(* were read with y, which became w.                                       *)
From(i, reads, there, y, there2, w, keys) ==
    i \in reads /\ (there => there2 /\ Succeeds(w, y, keys))

(* All messages sent are there still.                                      *)
SentStays ==
    \A q \in Device : \A i \in DOMAIN sent[q] : i \in DOMAIN sent'[q] /\ KeyOf(q, i)' = KeyOf(q, i)

(* A session of q that was not there before is good, and is what one of    *)
(* before became or has nothing to do with what was read.                  *)
NewSession(x, q, t) ==
    /\ ReceivesGood(x, generated')
    /\ \/ \E y \in SessionsOf(q, t) : Succeeds(x, y, generated)
       \/ \A i \in DOMAIN sent[Peer(q)] : Unrelated(x, KeyOf(Peer(q), i))

(* What is the same in every step.                                         *)
ReadSteps ==
    /\ Grown(generated, generated')
    /\ SentStays
    /\ \A q \in Device : forgotten[q] \subseteq forgotten'[q]
    /\ \A q \in Device, t \in Slot : \A x \in SessionsOf(q, t)' :
          (\E y \in SessionsOf(q, t) : Same(x, y)) \/ NewSession(x, q, t)

(* What is known of the keys of all messages.                              *)
LEMMA KeysOfSent ==
    ASSUME KeysInv, ReadInv, NEW q \in Device, NEW i \in DOMAIN sent[q]
    PROVE  /\ SecondOld(KeyOf(q, i).chain, generated)
           /\ Len(KeyOf(q, i).chain) \in Nat \ {0}
<1>1. SecondOld(KeyOf(q, i).chain, generated)
  BY DEF ReadInv, LettersGood, SentGood, KeyOf
<1>2. /\ IsSequence(KeyOf(q, i).chain)
      /\ Len(KeyOf(q, i).chain) >= 1
  BY DEF KeysInv, MessagesGood, GoodMessage, TurnOf, KeyOf
<1>3. Len(KeyOf(q, i).chain) \in Nat
  BY <1>2, SequenceAppend
<1>4. \A n \in Nat : n >= 1 => n \in Nat \ {0}
  OBVIOUS
<1> QED BY <1>1, <1>2, <1>3, <1>4, Zenon

(* What had been read stays read.                                          *)
LEMMA ReadsStay ==
    ASSUME KeysInv, ReadInv, ReadSteps, NEW q \in Device,
           NEW i \in DOMAIN sent[Peer(q)], NEW there, NEW y,
           ReadBy(KeyOf(Peer(q), i), there, y, forgotten[q], ObjectsOf(q)),
           NEW there2, NEW w, there => there2 /\ Succeeds(w, y, generated)
    PROVE  /\ i \in DOMAIN sent'[Peer(q)]
           /\ ReadBy(KeyOf(Peer(q), i)', there2, w, forgotten'[q], ObjectsOf(q)')
<1>1. Peer(q) \in Device
  BY Devices
<1>2. i \in DOMAIN sent'[Peer(q)] /\ KeyOf(Peer(q), i)' = KeyOf(Peer(q), i)
  BY <1>1 DEF ReadSteps, SentStays
<1> DEFINE key == KeyOf(Peer(q), i)
<1>3. SecondOld(key.chain, generated) /\ Len(key.chain) \in Nat \ {0}
  BY <1>1, KeysOfSent
<1>4. ASSUME NEW x \in ObjectsOf(q)'
      PROVE  Unrelated(x, key) \/ \E z \in ObjectsOf(q) : Succeeds(x, z, generated)
  <2>1. PICK t \in Slot : x \in SessionsOf(q, t)'
    BY DEF ObjectsOf
  <2>2. SessionsOf(q, t) \subseteq ObjectsOf(q)
    BY DEF ObjectsOf
  <2>3. CASE \E z \in SessionsOf(q, t) : Same(x, z)
    BY <2>2, <2>3, SamePickled
  <2>4. CASE NewSession(x, q, t)
    BY <2>2, <2>4 DEF NewSession
  <2> QED BY <2>1, <2>3, <2>4 DEF ReadSteps
<1>5. forgotten[q] \subseteq forgotten'[q]
  BY DEF ReadSteps
<1> HIDE DEF key
<1>6. ReadBy(key, there, y, forgotten[q], ObjectsOf(q))
  BY DEF key
<1>7. ReadBy(key, there2, w, forgotten'[q], ObjectsOf(q)')
  BY <1>3, <1>4, <1>5, <1>6, ReadStays
<1> QED BY <1>2, <1>7 DEF key

(* The receiving sides of all sessions stay good.                          *)
LEMMA ReceiversStay ==
    ASSUME ReadInv, ReadSteps
    PROVE  ReceiversGood'
<1> SUFFICES ASSUME NEW q \in Device, NEW t \in Slot, NEW x \in SessionsOf(q, t)'
             PROVE  ReceivesGood(x, generated')
  BY DEF ReceiversGood
<1>1. CASE NewSession(x, q, t)
  BY <1>1 DEF NewSession
<1>2. ASSUME NEW y \in SessionsOf(q, t), Same(x, y)
      PROVE  ReceivesGood(x, generated')
  <2>1. ReceivesGood(y, generated)
    BY DEF ReadInv, ReceiversGood
  <2>2. Grown(generated, generated')
    BY DEF ReadSteps
  <2> QED BY <1>2, <2>1, <2>2, SameReceives
<1> QED BY <1>1, <1>2 DEF ReadSteps

(* A step keeps ReadInv when each message that counts as read after it     *)
(* counted as read before it, by the session or its pickle, or is read by  *)
(* what the step makes of the session.                                     *)
ReadFrom(i, q, t, there, w) ==
    \/ From(i, read[q][t], session[q][t].created, session[q][t], there, w, generated)
    \/ From(i, stored[q].read[t], stored[q].session[t] # NoPickle, stored[q].session[t],
            there, w, generated)
    \/ /\ i \in DOMAIN sent[Peer(q)]
       /\ \/ there /\ Reader(w, KeyOf(Peer(q), i))
          \/ ReaderGone(KeyOf(Peer(q), i), forgotten'[q], ObjectsOf(q)')

(* Read in one of these ways before a step, a message counts as read after. *)
LEMMA ReadFromBy ==
    ASSUME KeysInv, ReadInv, ReadSteps, NEW q \in Device, NEW t \in Slot, NEW i,
           NEW there, NEW w, ReadFrom(i, q, t, there, w)
    PROVE  /\ i \in DOMAIN sent'[Peer(q)]
           /\ ReadBy(KeyOf(Peer(q), i)', there, w, forgotten'[q], ObjectsOf(q)')
<1>1. ASSUME From(i, read[q][t], session[q][t].created, session[q][t], there, w, generated)
      PROVE  /\ i \in DOMAIN sent'[Peer(q)]
             /\ ReadBy(KeyOf(Peer(q), i)', there, w, forgotten'[q], ObjectsOf(q)')
  <2>1. /\ i \in DOMAIN sent[Peer(q)]
        /\ ReadBy(KeyOf(Peer(q), i), session[q][t].created, session[q][t],
                  forgotten[q], ObjectsOf(q))
    BY <1>1 DEF From, ReadInv, LiveReads
  <2>2. session[q][t].created => there /\ Succeeds(w, session[q][t], generated)
    BY <1>1 DEF From
  <2>3. ReadBy(KeyOf(Peer(q), i), session[q][t].created = TRUE, session[q][t],
               forgotten[q], ObjectsOf(q))
    BY <2>1 DEF ReadBy
  <2>4. (session[q][t].created = TRUE) => there /\ Succeeds(w, session[q][t], generated)
    BY <2>2
  <2> QED BY <2>1, <2>3, <2>4, ReadsStay
<1>2. ASSUME From(i, stored[q].read[t], stored[q].session[t] # NoPickle, stored[q].session[t],
                  there, w, generated)
      PROVE  /\ i \in DOMAIN sent'[Peer(q)]
             /\ ReadBy(KeyOf(Peer(q), i)', there, w, forgotten'[q], ObjectsOf(q)')
  <2>1. /\ i \in DOMAIN sent[Peer(q)]
        /\ ReadBy(KeyOf(Peer(q), i), stored[q].session[t] # NoPickle, stored[q].session[t],
                  forgotten[q], ObjectsOf(q))
    BY <1>2 DEF From, ReadInv, StoredReads
  <2>2. stored[q].session[t] # NoPickle => there /\ Succeeds(w, stored[q].session[t], generated)
    BY <1>2 DEF From
  <2> QED BY <2>1, <2>2, ReadsStay
<1>3. ASSUME i \in DOMAIN sent[Peer(q)],
             \/ there /\ Reader(w, KeyOf(Peer(q), i))
             \/ ReaderGone(KeyOf(Peer(q), i), forgotten'[q], ObjectsOf(q)')
      PROVE  /\ i \in DOMAIN sent'[Peer(q)]
             /\ ReadBy(KeyOf(Peer(q), i)', there, w, forgotten'[q], ObjectsOf(q)')
  <2>1. i \in DOMAIN sent'[Peer(q)] /\ KeyOf(Peer(q), i)' = KeyOf(Peer(q), i)
    BY <1>3, Devices DEF ReadSteps, SentStays
  <2>2. ReadBy(KeyOf(Peer(q), i), there, w, forgotten'[q], ObjectsOf(q)')
    BY <1>3 DEF ReadBy
  <2> QED BY <2>1, <2>2
<1> QED BY <1>1, <1>2, <1>3 DEF ReadFrom

(* So it does for every message, and ReadInv is kept.                      *)
LEMMA ReadInvStep ==
    ASSUME KeysInv, ReadInv, ReadSteps, ReadShape', LettersGood', ForgottenGood',
           \A q \in Device, t \in Slot : \A i \in read'[q][t] :
              ReadFrom(i, q, t, session'[q][t].created, session'[q][t]),
           \A q \in Device, t \in Slot : \A i \in stored'[q].read[t] :
              ReadFrom(i, q, t, stored'[q].session[t] # NoPickle, stored'[q].session[t])
    PROVE  ReadInv'
<1>1. ReceiversGood'
  BY ReceiversStay
<1>2. LiveReads'
  BY ReadFromBy DEF LiveReads
<1>3. StoredReads'
  BY ReadFromBy DEF StoredReads, NoPickle
<1> QED BY <1>1, <1>2, <1>3 DEF ReadInv

(* What was read out of an object was read by what its session becomes.    *)
LEMMA LiveKept ==
    ASSUME NEW q \in Device, NEW t \in Slot, read'[q][t] \subseteq read[q][t],
           session[q][t].created => /\ session'[q][t].created
                                    /\ Succeeds(session'[q][t], session[q][t], generated)
    PROVE  \A i \in read'[q][t] : ReadFrom(i, q, t, session'[q][t].created, session'[q][t])
  BY DEF ReadFrom, From

(* The same of a pickle that is left alone.                                *)
LEMMA StoredKept ==
    ASSUME NEW q \in Device, NEW t \in Slot, stored'[q].read[t] \subseteq stored[q].read[t],
           stored'[q].session[t] = stored[q].session[t]
    PROVE  \A i \in stored'[q].read[t] :
              ReadFrom(i, q, t, stored'[q].session[t] # NoPickle, stored'[q].session[t])
<1>1. Succeeds(stored'[q].session[t], stored[q].session[t], generated)
  BY SamePickled
<1> QED BY <1>1 DEF ReadFrom, From

(* Nothing is encrypted and nothing deleted: what is known of the messages *)
(* and of the deleted sessions stays.                                      *)
LEMMA LettersStay ==
    ASSUME ReadInv, KeysInv, UNCHANGED <<generated, sent>>
    PROVE  LettersGood' /\ SentStays /\ Grown(generated, generated')
<1>1. Grown(generated, generated')
  BY DEF KeysInv, Types, Counts, Grown
<1>2. LettersGood' /\ SentStays
  BY DEF ReadInv, LettersGood, SentStays, KeyOf
<1> QED BY <1>1, <1>2

(* The ids of the deleted sessions stay ids of openings.                   *)
LEMMA ForgottenStays ==
    ASSUME ReadInv, Grown(opened, opened'), UNCHANGED forgotten
    PROVE  ForgottenGood' /\ \A q \in Device : forgotten[q] \subseteq forgotten'[q]
<1>1. \A o \in Device : \A id, base, key : OpeningOf(id, base, key, o, opened)
                                            => OpeningOf(id, base, key, o, opened')
  BY BegunStays DEF Grown
<1>2. \A p \in Device : \A id \in forgotten[p] :
         \E o \in Device : OpeningOf(id[1], id[2], id[3], o, opened') /\ id = <<id[1], id[2], id[3]>>
  <2>1. ASSUME NEW p \in Device, NEW id \in forgotten[p]
        PROVE  \E o \in Device : OpeningOf(id[1], id[2], id[3], o, opened')
                                  /\ id = <<id[1], id[2], id[3]>>
    <3>1. PICK o \in Device : OpeningOf(id[1], id[2], id[3], o, opened)
                               /\ id = <<id[1], id[2], id[3]>>
      BY DEF ReadInv, ForgottenGood
    <3> QED BY <1>1, <3>1
  <2> QED BY <2>1
<1> QED BY <1>2 DEF ForgottenGood

(* _olm_session_create_outbound: nothing was sent with the new secret.     *)
LEMMA CreateOutboundReads ==
    ASSUME KeysInv, ReadInv, NEW p \in Device, NEW s \in Slot, CreateOutboundSession(p, s)
    PROVE  ReadInv'
<1>1. PICK key \in Claimable(Peer(p)) :
        session' = [session EXCEPT ![p][s] =
                          NewOutboundSession(@, Identity(p), Identity(Peer(p)), key,
                                             <<p, "base", opened[p]>>,
                                             <<p, "initial", opened[p]>>)]
  BY DEF CreateOutboundSession
<1> DEFINE e == NewOutboundSession(session[p][s], Identity(p), Identity(Peer(p)), key,
                                   <<p, "base", opened[p]>>, <<p, "initial", opened[p]>>)
           secret == TripleDH(Identity(p), <<p, "base", opened[p]>>, Identity(Peer(p)), key)
           id == <<Identity(p), <<p, "base", opened[p]>>, key>>
<1>2. /\ ~session[p][s].created
      /\ opened' = [opened EXCEPT ![p] = @ + 1]
      /\ UNCHANGED <<one_time_keys, read, stored, generated, sent, forgotten>>
  BY DEF CreateOutboundSession
<1>3. Peer(p) \in Device /\ \A q \in Device : Peer(q) \in Device
  BY Devices
<1>5. DOMAIN session[p][s] = SessionFields
  BY <1>2 DEF KeysInv, IInv, Shape
<1>6. /\ e.created /\ ~e.received_message
      /\ e.ratchet.root_key = <<secret>>
      /\ e.ratchet.receiver_chains = <<>> /\ e.ratchet.skipped_message_keys = <<>>
      /\ SessionId(e) = id
  <2> HIDE DEF secret
  <2>1. e.ratchet = InitialiseAsAlice(secret, <<p, "initial", opened[p]>>)
    BY <1>5 DEF NewOutboundSession, SessionFields, secret
  <2>2. e.created /\ ~e.received_message /\ SessionId(e) = id
    BY <1>5 DEF NewOutboundSession, SessionFields, SessionId
  <2> HIDE DEF e
  <2> QED BY <2>1, <2>2 DEF InitialiseAsAlice
<1>7. /\ SecretOf(id) = secret
      /\ <<p, "base", opened[p]>> \in secret[2]
  <2>1. id[1] = Identity(p) /\ id[2] = <<p, "base", opened[p]>> /\ id[3] = key /\ Identity(p)[1] = p
    BY DEF Identity
  <2>2. SecretOf(id) = secret
    BY <2>1, Zenon DEF SecretOf
  <2>3. secret[2] = {<<p, "base", opened[p]>>, Identity(Peer(p))}
    BY DEF TripleDH, SharedSecret
  <2> QED BY <2>2, <2>3
<1> HIDE DEF e, secret, id
<1>8. \A q \in Device, t \in Slot :
        session'[q][t] = IF q = p /\ t = s THEN e ELSE session[q][t]
  BY <1>1 DEF KeysInv, IInv, Shape, e
<1>9. opened \in Counts /\ Grown(opened, opened')
  BY <1>2 DEF KeysInv, Types, Counts, Grown
<1>10. ReceivesGood(e, generated')
  <2>1. IsSequence(<<secret>>) /\ Len(<<secret>>) = 1 /\ <<secret>>[1] = secret
    BY DEF IsSequence, Range
  <2>2. IsSequence(<<>>) /\ DOMAIN <<>> = {}
    BY DEF IsSequence
  <2>3. Receiving(e.ratchet)
    BY <1>6, <2>1, <2>2 DEF Receiving
  <2>4. SecondOld(e.ratchet.root_key, generated')
    BY <1>6, <2>1 DEF SecondOld
  <2> QED BY <1>6, <1>7, <2>1, <2>3, <2>4 DEF ReceivesGood, FirstChain
<1>11. \A i \in DOMAIN sent[Peer(p)] : Unrelated(e, KeyOf(Peer(p), i))
  <2> SUFFICES ASSUME NEW i \in DOMAIN sent[Peer(p)], KeyOf(Peer(p), i).chain[1] = secret
               PROVE  FALSE
    BY <1>6, <1>7 DEF Unrelated
  <2>1. TurnOf(KeyOf(Peer(p), i).chain, Peer(p), opened)
    BY <1>3 DEF KeysInv, MessagesGood, GoodMessage, KeyOf
  <2> QED BY <1>3, <1>7, <1>9, <2>1, BaseIsNew
<1>12. ASSUME NEW q \in Device, NEW t \in Slot, NEW x \in SessionsOf(q, t)'
       PROVE  (\E y \in SessionsOf(q, t) : Same(x, y)) \/ NewSession(x, q, t)
  <2>1. \/ x \in SessionsOf(q, t)
        \/ q = p /\ t = s /\ x = e
    BY <1>2, <1>8 DEF SessionsOf
  <2>2. NewSession(e, p, s)
    BY <1>10, <1>11 DEF NewSession
  <2> QED BY <2>1, <2>2, SamePickled
<1>13. ReadSteps /\ LettersGood' /\ ForgottenGood'
  BY <1>2, <1>9, <1>12, LettersStay, ForgottenStays DEF ReadSteps
<1>14. ReadShape'
  BY <1>2 DEF ReadInv, ReadShape
<1>15. ASSUME NEW q \in Device, NEW t \in Slot
       PROVE  \A i \in read'[q][t] : ReadFrom(i, q, t, session'[q][t].created, session'[q][t])
  <2>1. session[q][t].created => session'[q][t] = session[q][t]
    BY <1>2, <1>8
  <2> QED BY <1>2, <2>1, SamePickled, LiveKept
<1>16. ASSUME NEW q \in Device, NEW t \in Slot
       PROVE  \A i \in stored'[q].read[t] :
                ReadFrom(i, q, t, stored'[q].session[t] # NoPickle, stored'[q].session[t])
  BY <1>2, StoredKept
<1> QED BY <1>13, <1>14, <1>15, <1>16, ReadInvStep

(* The session that is pickled has read what its pickle has.               *)
LEMMA PickledReads ==
    ASSUME NEW q \in Device, NEW t \in Slot, stored'[q].read[t] \subseteq read[q][t],
           stored'[q].session[t] # NoPickle,
           Succeeds(stored'[q].session[t], session[q][t], generated)
    PROVE  \A i \in stored'[q].read[t] :
              ReadFrom(i, q, t, stored'[q].session[t] # NoPickle, stored'[q].session[t])
  BY DEF ReadFrom, From

(* _olm_session_create_inbound: the session begins with the secret of the  *)
(* one who opened it, and has got no further.                              *)
LEMMA CreateInboundReads ==
    ASSUME KeysInv, ReadInv, NEW p \in Device, NEW s \in Slot, NEW theirs,
           NEW m \in Range(sent[Peer(p)]),
           CreateInboundSession(p, s, theirs, m)
    PROVE  ReadInv'
<1> DEFINE e == NewInboundSession(session[p][s], Identity(p), LookupKeys(p), theirs, m)
           secret == TripleDH(m.identity_key, m.base_key, Identity(p), m.one_time_key)
           id == <<m.identity_key, m.base_key, m.one_time_key>>
<1>1. /\ ~session[p][s].created
      /\ session' = [session EXCEPT ![p][s] = e]
      /\ UNCHANGED <<one_time_keys, read, stored, claimed, opened, generated, sent, forgotten>>
  BY DEF CreateInboundSession
<1>2. DOMAIN session[p][s] = SessionFields
  BY <1>1 DEF KeysInv, IInv, Shape
<1>3. Peer(p) \in Device /\ Peer(Peer(p)) = p
  BY Devices
<1>4. GoodMessage(m, Peer(p), generated, opened)
  BY <1>3 DEF KeysInv, MessagesGood, Range
<1>5. e.created => /\ m.type = "PRE_KEY" /\ m.one_time_key \in LookupKeys(p)
                   /\ e.ratchet = InitialiseAsBob(secret, m.body.ratchet_key)
                   /\ SessionId(e) = id
  <2> HIDE DEF secret
  <2> QED BY <1>1, <1>2 DEF NewInboundSession, WithKeysOf, SessionFields, CheckMessageFields,
                            SessionId, secret
<1> HIDE DEF e, secret, id
<1>6. \A q \in Device, t \in Slot :
        session'[q][t] = IF q = p /\ t = s THEN e ELSE session[q][t]
  BY <1>1 DEF KeysInv, IInv, Shape
<1>7. opened \in Counts /\ Grown(opened, opened')
  BY <1>1 DEF KeysInv, Types, Counts, Grown
<1>8. ASSUME e.created
      PROVE  NewSession(e, p, s)
  <2>1. PICK o \in Device : OpeningOf(m.identity_key, m.base_key, m.one_time_key, o, opened)
    BY <1>4, <1>5, <1>8 DEF GoodMessage
  <2>2. o = Peer(p)
    <3>1. m.one_time_key \in KeysOf(Peer(o))
      BY <2>1 DEF OpeningOf
    <3>2. m.one_time_key \in KeysOf(p)
      BY <1>5, <1>8 DEF LookupKeys, KeysOf, KeysInv, Types
    <3>3. \A q : m.one_time_key \in KeysOf(q) => m.one_time_key[1] = q
      BY DEF KeysOf, PublishedKeys, FallbackKey
    <3> QED BY <3>1, <3>2, <3>3, Devices
  <2>3. SecretOf(id) = secret
    <3>1. m.identity_key = Identity(o)
      BY <2>1 DEF OpeningOf
    <3>2. /\ id[1] = m.identity_key /\ id[2] = m.base_key /\ id[3] = m.one_time_key
          /\ id[1][1] = o
      BY <3>1 DEF id, Identity
    <3>3. Peer(id[1][1]) = p
      BY <1>3, <2>2, <3>2
    <3> QED BY <3>2, <3>3, Zenon DEF SecretOf, secret
  <2>4. /\ e.ratchet.root_key = <<secret>>
        /\ e.ratchet.sender_chain = <<>>
        /\ e.ratchet.skipped_message_keys = <<>>
        /\ e.ratchet.receiver_chains =
             <<[ratchet_key |-> m.body.ratchet_key,
                chain_key   |-> [chain |-> <<secret>>, index |-> 0]]>>
        /\ SessionId(e) = id
    BY <1>5, <1>8 DEF InitialiseAsBob, NewChainKey
  <2>5. IsSequence(<<secret>>) /\ Len(<<secret>>) = 1 /\ <<secret>>[1] = secret
    BY DEF IsSequence, Range
  <2>6. IsSequence(<<>>) /\ DOMAIN <<>> = {}
    BY DEF IsSequence
  <2>7. Receiving(e.ratchet)
    <3> DEFINE k == [chain |-> <<secret>>, index |-> 0]
    <3>1. DOMAIN e.ratchet.receiver_chains = {1}
      BY <2>4
    <3>2. e.ratchet.receiver_chains[1].chain_key = k
      BY <2>4
    <3>3. GoodKey(k, <<secret>>)
      BY <2>5 DEF GoodKey, Earlier
    <3> HIDE DEF k
    <3> QED BY <2>4, <2>5, <2>6, <3>1, <3>2, <3>3 DEF Receiving
  <2>8. SecondOld(e.ratchet.root_key, generated')
    BY <2>4, <2>5 DEF SecondOld
  <2>9. ReceivesGood(e, generated')
    BY <2>3, <2>4, <2>5, <2>7, <2>8 DEF ReceivesGood, FirstChain
  <2>10. \A key : Unrelated(e, key)
    BY <2>4, <2>5 DEF Unrelated
  <2> QED BY <2>9, <2>10 DEF NewSession
<1>9. ASSUME NEW q \in Device, NEW t \in Slot, NEW x \in SessionsOf(q, t)'
      PROVE  (\E y \in SessionsOf(q, t) : Same(x, y)) \/ NewSession(x, q, t)
  <2>1. \/ x \in SessionsOf(q, t)
        \/ q = p /\ t = s /\ x = e /\ e.created
    BY <1>1, <1>6 DEF SessionsOf
  <2> QED BY <1>8, <2>1, SamePickled
<1>10. ReadSteps /\ LettersGood' /\ ForgottenGood'
  BY <1>1, <1>7, <1>9, LettersStay, ForgottenStays DEF ReadSteps
<1>11. ReadShape'
  BY <1>1 DEF ReadInv, ReadShape
<1>12. ASSUME NEW q \in Device, NEW t \in Slot
       PROVE  \A i \in read'[q][t] : ReadFrom(i, q, t, session'[q][t].created, session'[q][t])
  <2>1. session[q][t].created => session'[q][t] = session[q][t]
    BY <1>1, <1>6
  <2> QED BY <1>1, <2>1, SamePickled, LiveKept
<1>13. ASSUME NEW q \in Device, NEW t \in Slot
       PROVE  \A i \in stored'[q].read[t] :
                ReadFrom(i, q, t, stored'[q].session[t] # NoPickle, stored'[q].session[t])
  BY <1>1, StoredKept
<1> QED BY <1>10, <1>11, <1>12, <1>13, ReadInvStep

(* _olm_session_pickle: the pickle has read what the session has.          *)
LEMMA PickleReads ==
    ASSUME KeysInv, ReadInv, NEW p \in Device, NEW s \in Slot, PickleSession(p, s)
    PROVE  ReadInv'
<1>1. /\ session[p][s].created
      /\ stored' = [stored EXCEPT ![p].session[s] = PickledSession(session[p][s]),
                                  ![p].read[s]    = read[p][s]]
      /\ UNCHANGED <<session, read, opened, generated, sent, forgotten>>
  BY DEF PickleSession
<1>2. /\ \A q \in Device, t \in Slot :
           stored'[q].session[t] = IF q = p /\ t = s THEN PickledSession(session[p][s])
                                   ELSE stored[q].session[t]
      /\ \A q \in Device, t \in Slot :
           stored'[q].read[t] = IF q = p /\ t = s THEN read[p][s] ELSE stored[q].read[t]
      /\ \A q \in Device : DOMAIN stored'[q].read = DOMAIN stored[q].read
  BY <1>1 DEF KeysInv, IInv, Shape, ReadInv, ReadShape
<1>3. Grown(opened, opened')
  BY <1>1 DEF KeysInv, Types, Counts, Grown
<1>4. session[p][s] \in SessionsOf(p, s)
  BY <1>1, ObjectsGood
<1>5. ASSUME NEW q \in Device, NEW t \in Slot, NEW x \in SessionsOf(q, t)'
      PROVE  \E y \in SessionsOf(q, t) : Same(x, y)
  <2>1. \/ x \in SessionsOf(q, t)
        \/ q = p /\ t = s /\ x = PickledSession(session[p][s])
    <3>1. \/ x = session[q][t] /\ x.created
          \/ x = stored'[q].session[t] /\ x # NoPickle
      BY <1>1 DEF SessionsOf, NoPickle
    <3>2. \/ x = session[q][t] /\ x.created
          \/ x = stored[q].session[t] /\ x # NoPickle
          \/ q = p /\ t = s /\ x = PickledSession(session[p][s])
      BY <1>2, <3>1
    <3> QED BY <3>2 DEF SessionsOf
  <2> QED BY <1>4, <2>1, SamePickled
<1>6. ReadSteps /\ LettersGood' /\ ForgottenGood'
  BY <1>1, <1>3, <1>5, LettersStay, ForgottenStays DEF ReadSteps
<1>7. ReadShape'
  BY <1>1, <1>2 DEF ReadInv, ReadShape
<1>8. ASSUME NEW q \in Device, NEW t \in Slot
      PROVE  \A i \in read'[q][t] : ReadFrom(i, q, t, session'[q][t].created, session'[q][t])
  BY <1>1, SamePickled, LiveKept
<1>9. ASSUME NEW q \in Device, NEW t \in Slot
      PROVE  \A i \in stored'[q].read[t] :
               ReadFrom(i, q, t, stored'[q].session[t] # NoPickle, stored'[q].session[t])
  <2>1. CASE q = p /\ t = s
    <3>1. /\ stored'[q].read[t] = read[q][t]
          /\ stored'[q].session[t] = PickledSession(session[q][t])
      BY <1>2, <2>1
    <3> QED BY <3>1, SamePickled, PickledReads
  <2>2. CASE ~(q = p /\ t = s)
    BY <1>2, <2>2, StoredKept
  <2> QED BY <2>1, <2>2
<1> QED BY <1>6, <1>7, <1>8, <1>9, ReadInvStep

(* One-time keys come and go.                                              *)
LEMMA OtherReads ==
    ASSUME KeysInv, ReadInv,
           \/ \E p \in Device : PickleAccount(p)
           \/ \E p \in Device, s \in Slot : RemoveOneTimeKeys(p, s)
           \/ UNCHANGED vars
    PROVE  ReadInv'
<1>1. /\ UNCHANGED <<session, read, opened, generated, sent, forgotten>>
      /\ \A q \in Device : /\ stored'[q].session = stored[q].session
                           /\ stored'[q].read = stored[q].read
  BY DEF PickleAccount, RemoveOneTimeKeys, vars, KeysInv, IInv, Shape
<1>2. Grown(opened, opened')
  BY <1>1 DEF KeysInv, Types, Counts, Grown
<1>3. \A q \in Device, t \in Slot : SessionsOf(q, t)' = SessionsOf(q, t)
  BY <1>1 DEF SessionsOf, NoPickle
<1>4. ReadSteps /\ LettersGood' /\ ForgottenGood'
  BY <1>1, <1>2, <1>3, SamePickled, LettersStay, ForgottenStays DEF ReadSteps
<1>5. ReadShape'
  BY <1>1 DEF ReadInv, ReadShape
<1>6. ASSUME NEW q \in Device, NEW t \in Slot
      PROVE  /\ \A i \in read'[q][t] :
                   ReadFrom(i, q, t, session'[q][t].created, session'[q][t])
             /\ \A i \in stored'[q].read[t] :
                   ReadFrom(i, q, t, stored'[q].session[t] # NoPickle, stored'[q].session[t])
  BY <1>1, SamePickled, LiveKept, StoredKept
<1> QED BY <1>4, <1>5, <1>6, ReadInvStep

(* A restart goes back to the pickles, and to what was read by then.       *)
LEMMA RestartReads ==
    ASSUME KeysInv, ReadInv, NEW p \in Device, Restart(p)
    PROVE  ReadInv'
<1>1. /\ session' = [session EXCEPT ![p] = [s \in Slot |->
                        IF stored[p].session[s] = NoPickle
                          THEN SessionInit
                          ELSE UnpickledSession(stored[p].session[s])]]
      /\ read' = [read EXCEPT ![p] = stored[p].read]
      /\ UNCHANGED <<stored, opened, generated, sent, forgotten>>
  BY DEF Restart
<1>2. /\ \A t \in Slot :
           session'[p][t] = IF stored[p].session[t] = NoPickle
                              THEN SessionInit
                              ELSE UnpickledSession(stored[p].session[t])
      /\ \A q \in Device \ {p} : session'[q] = session[q] /\ read'[q] = read[q]
      /\ read'[p] = stored[p].read
      /\ ~SessionInit.created
  BY <1>1 DEF KeysInv, IInv, Shape, ReadInv, ReadShape, SessionInit
<1>3. Grown(opened, opened')
  BY <1>1 DEF KeysInv, Types, Counts, Grown
<1>4. ASSUME NEW q \in Device, NEW t \in Slot, NEW x \in SessionsOf(q, t)'
      PROVE  \E y \in SessionsOf(q, t) : Same(x, y)
  <2>1. \/ x \in SessionsOf(q, t)
        \/ /\ q = p /\ stored[p].session[t] # NoPickle
           /\ x = UnpickledSession(stored[p].session[t])
    BY <1>1, <1>2 DEF SessionsOf
  <2> QED BY <2>1, ObjectsGood, SamePickled
<1>5. ReadSteps /\ LettersGood' /\ ForgottenGood'
  BY <1>1, <1>3, <1>4, LettersStay, ForgottenStays DEF ReadSteps
<1>6. ReadShape'
  <2>1. DOMAIN read' = Device /\ DOMAIN stored[p].read = Slot
    BY <1>1 DEF ReadInv, ReadShape
  <2> QED BY <1>1, <1>2, <2>1 DEF ReadInv, ReadShape
<1>7. ASSUME NEW q \in Device, NEW t \in Slot
      PROVE  \A i \in read'[q][t] : ReadFrom(i, q, t, session'[q][t].created, session'[q][t])
  <2>1. CASE q = p
    <3>1. stored[q].session[t] # NoPickle =>
            /\ session'[q][t].created
            /\ Succeeds(session'[q][t], stored[q].session[t], generated)
      BY <1>2, <2>1, SamePickled
    <3>2. read'[q][t] = stored[q].read[t]
      BY <1>2, <2>1
    <3> QED BY <3>1, <3>2 DEF ReadFrom, From
  <2>2. CASE q # p
    BY <1>2, <2>2, SamePickled, LiveKept
  <2> QED BY <2>1, <2>2
<1>8. ASSUME NEW q \in Device, NEW t \in Slot
      PROVE  \A i \in stored'[q].read[t] :
               ReadFrom(i, q, t, stored'[q].session[t] # NoPickle, stored'[q].session[t])
  BY <1>1, StoredKept
<1> QED BY <1>5, <1>6, <1>7, <1>8, ReadInvStep

(* No two sessions of a device, live or pickled, in two objects begin with *)
(* the same secret.                                                        *)
LEMMA SecretsApart ==
    ASSUME KeysInv, NEW p \in Device, NEW s \in Slot, NEW t \in Slot,
           NEW x \in SessionsOf(p, s), NEW y \in SessionsOf(p, t),
           SecretOf(SessionId(x)) = SecretOf(SessionId(y))
    PROVE  s = t
<1>1. ASSUME NEW u \in Slot, NEW z \in SessionsOf(p, u)
      PROVE  /\ session[p][u].created
             /\ SessionId(z) = SessionId(session[p][u])
             /\ \E o \in Device :
                  OpeningOf(SessionId(z)[1], SessionId(z)[2], SessionId(z)[3], o, opened)
             /\ SessionId(z) = <<SessionId(z)[1], SessionId(z)[2], SessionId(z)[3]>>
  <2>1. session[p][u].created /\ SessionId(z) = SessionId(session[p][u])
    BY DEF SessionsOf, KeysInv, IInv, PicklesFollow
  <2>2. GoodId(z, opened)
    BY ObjectsGood DEF GoodObject
  <2> QED BY <2>1, <2>2 DEF GoodId, SessionId
<1>2. PICK o \in Device : OpeningOf(SessionId(x)[1], SessionId(x)[2], SessionId(x)[3], o, opened)
  BY <1>1
<1>3. PICK w \in Device : OpeningOf(SessionId(y)[1], SessionId(y)[2], SessionId(y)[3], w, opened)
  BY <1>1
<1>4. opened \in Counts
  BY DEF KeysInv, Types
<1>5. /\ SessionId(x)[1] = SessionId(y)[1] /\ SessionId(x)[2] = SessionId(y)[2]
      /\ SessionId(x)[3] = SessionId(y)[3]
  BY <1>2, <1>3, <1>4, SecretNames
<1>6. SessionId(x) = SessionId(y)
  BY <1>1, <1>5
<1>7. /\ session[p][s].created /\ session[p][t].created
      /\ SessionId(session[p][s]) = SessionId(session[p][t])
  BY <1>1, <1>6
<1> QED BY <1>7 DEF KeysInv, IInv, OneSessionPerId

(* A deletion: what the session had read was read by a session that is now *)
(* gone.                                                                   *)
LEMMA ForgetReads ==
    ASSUME KeysInv, ReadInv, NEW p \in Device, NEW s \in Slot, Forget(p, s)
    PROVE  ReadInv'
<1> DEFINE old == session[p][s]
<1>1. /\ old.created
      /\ session' = [session EXCEPT ![p][s] = SessionInit]
      /\ stored' = [stored EXCEPT ![p].session[s] = NoPickle,
                                  ![p].read[s]    = read[p][s]]
      /\ forgotten' = [forgotten EXCEPT ![p] = @ \cup {SessionId(old)}]
      /\ UNCHANGED <<read, opened, generated, sent>>
  BY DEF Forget
<1>2. /\ \A q \in Device, t \in Slot :
           session'[q][t] = IF q = p /\ t = s THEN SessionInit ELSE session[q][t]
      /\ \A q \in Device, t \in Slot :
           stored'[q].session[t] = IF q = p /\ t = s THEN NoPickle
                                   ELSE stored[q].session[t]
      /\ \A q \in Device, t \in Slot :
           stored'[q].read[t] = IF q = p /\ t = s THEN read[p][s] ELSE stored[q].read[t]
      /\ \A q \in Device : DOMAIN stored'[q].read = DOMAIN stored[q].read
      /\ ~SessionInit.created
  BY <1>1 DEF KeysInv, IInv, Shape, ReadInv, ReadShape, SessionInit
<1>3. \A q \in Device :
        forgotten'[q] = IF q = p THEN forgotten[p] \cup {SessionId(old)} ELSE forgotten[q]
  BY <1>1 DEF ReadInv, ReadShape
<1>4. old \in SessionsOf(p, s)
  BY <1>1, ObjectsGood
<1> HIDE DEF old
<1>5. ForgottenGood'
  <2>1. ASSUME NEW q \in Device, NEW id \in forgotten'[q]
        PROVE  \E o \in Device : OpeningOf(id[1], id[2], id[3], o, opened)
                                  /\ id = <<id[1], id[2], id[3]>>
    <3>1. CASE id \in forgotten[q]
      BY <3>1 DEF ReadInv, ForgottenGood
    <3>2. CASE id = SessionId(old)
      <4>1. GoodId(old, opened)
        BY <1>4, ObjectsGood DEF GoodObject
      <4> QED BY <3>2, <4>1 DEF GoodId, SessionId
    <3> QED BY <1>3, <3>1, <3>2
  <2> QED BY <1>1, <2>1 DEF ForgottenGood
<1>6. ASSUME NEW q \in Device, NEW t \in Slot, NEW x \in SessionsOf(q, t)'
      PROVE  ~(q = p /\ t = s) /\ x \in SessionsOf(q, t)
  BY <1>2 DEF SessionsOf
<1>7. ReadSteps /\ LettersGood'
  BY <1>1, <1>3, <1>6, SamePickled, LettersStay DEF ReadSteps
<1>8. ReadShape'
  BY <1>1, <1>2 DEF ReadInv, ReadShape
<1>9. ASSUME NEW i \in read[p][s]
      PROVE  /\ i \in DOMAIN sent[Peer(p)]
             /\ ReaderGone(KeyOf(Peer(p), i), forgotten'[p], ObjectsOf(p)')
  <2> DEFINE key == KeyOf(Peer(p), i)
  <2>1. /\ i \in DOMAIN sent[Peer(p)]
        /\ Reader(old, key) \/ ReaderGone(key, forgotten[p], ObjectsOf(p))
    BY DEF ReadInv, LiveReads, ReadBy, old
  <2>2. SecondOld(key.chain, generated) /\ Len(key.chain) \in Nat \ {0}
    BY <2>1, KeysOfSent, Devices
  <2> HIDE DEF key
  <2>3. ASSUME Reader(old, key)
        PROVE  ReaderGone(key, forgotten'[p], ObjectsOf(p)')
    <3>1. SecretOf(SessionId(old)) = key.chain[1] /\ SessionId(old) \in forgotten'[p]
      BY <1>3, <2>3 DEF Reader
    <3>2. ASSUME NEW x \in ObjectsOf(p)', SecretOf(SessionId(x)) = key.chain[1]
          PROVE  FALSE
      <4>1. PICK t \in Slot : x \in SessionsOf(p, t)'
        BY DEF ObjectsOf
      <4>2. t # s /\ x \in SessionsOf(p, t)
        BY <1>6, <4>1
      <4> QED BY <1>4, <3>1, <3>2, <4>2, SecretsApart
    <3> QED BY <3>1, <3>2 DEF ReaderGone
  <2>4. ASSUME ReaderGone(key, forgotten[p], ObjectsOf(p))
        PROVE  ReaderGone(key, forgotten'[p], ObjectsOf(p)')
    <3>1. \A x \in ObjectsOf(p)' : x \in ObjectsOf(p)
      BY <1>6 DEF ObjectsOf
    <3>2. \A x \in ObjectsOf(p)' : \E y \in ObjectsOf(p) : Succeeds(x, y, generated)
      BY <3>1, SamePickled
    <3>3. forgotten[p] \subseteq forgotten'[p]
      BY <1>3
    <3> QED BY <2>2, <2>4, <3>2, <3>3, GoneStays
  <2> QED BY <2>1, <2>3, <2>4 DEF key
<1>10. ASSUME NEW q \in Device, NEW t \in Slot
       PROVE  \A i \in read'[q][t] : ReadFrom(i, q, t, session'[q][t].created, session'[q][t])
  <2>1. CASE q = p /\ t = s
    BY <1>1, <1>9, <2>1 DEF ReadFrom
  <2>2. CASE ~(q = p /\ t = s)
    <3>1. read'[q][t] = read[q][t] /\ session'[q][t] = session[q][t]
      BY <1>1, <1>2, <2>2
    <3>2. Succeeds(session[q][t], session[q][t], generated)
      BY SamePickled
    <3> QED BY <3>1, <3>2, LiveKept
  <2> QED BY <2>1, <2>2
<1>11. ASSUME NEW q \in Device, NEW t \in Slot
       PROVE  \A i \in stored'[q].read[t] :
                ReadFrom(i, q, t, stored'[q].session[t] # NoPickle, stored'[q].session[t])
  <2>1. CASE q = p /\ t = s
    BY <1>2, <1>9, <2>1 DEF ReadFrom
  <2>2. CASE ~(q = p /\ t = s)
    BY <1>2, <2>2, StoredKept
  <2> QED BY <2>1, <2>2
<1> QED BY <1>5, <1>7, <1>8, <1>10, <1>11, ReadInvStep

(* A message read in its place among those sent.                           *)
LEMMA GoodLetter ==
    ASSUME KeysInv, ReadInv, NEW q \in Device, NEW i \in DOMAIN sent[q]
    PROVE  /\ GoodBody(sent[q][i].body)
           /\ Old(sent[q][i].body.ratchet_key, generated)
           /\ sent[q][i].body.plaintext = i
<1> DEFINE m == sent[q][i]
<1>1. GoodMessage(m, q, generated, opened)
  BY DEF KeysInv, MessagesGood
<1>2. SentGood(m, i, generated)
  BY DEF ReadInv, LettersGood
<1> HIDE DEF m
<1>3. /\ GoodBody(m.body) /\ Old(m.body.ratchet_key, generated)
      /\ m.body.plaintext = i
  BY <1>1, <1>2 DEF GoodMessage, SentGood, GoodBody
<1> QED BY <1>3 DEF m

(* Of a session that is there: what the lemmas on ratchets start from.     *)
LEMMA ReaderGood ==
    ASSUME KeysInv, ReadInv, NEW p \in Device, NEW s \in Slot, session[p][s].created
    PROVE  /\ session[p][s] \in SessionsOf(p, s)
           /\ GoodRatchet(session[p][s].ratchet, p, generated, opened)
           /\ ReceivesGood(session[p][s], generated)
           /\ generated \in Counts /\ opened \in Counts
<1>1. session[p][s] \in SessionsOf(p, s)
  BY ObjectsGood
<1>2. ReceivesGood(session[p][s], generated)
  BY <1>1 DEF ReadInv, ReceiversGood
<1>3. GoodRatchet(session[p][s].ratchet, p, generated, opened)
  BY <1>1, ObjectsGood DEF GoodObject
<1> QED BY <1>1, <1>2, <1>3 DEF KeysInv, Types

(* _olm_session_decrypt: the session is past the message now.              *)
LEMMA DecryptReads ==
    ASSUME KeysInv, ReadInv, NEW p \in Device, NEW s \in Slot,
           NEW m \in Range(sent[Peer(p)]), Decrypt(p, s, m)
    PROVE  ReadInv'
<1> DEFINE old == session[p][s]
           e   == SessionAfterDecrypt(session[p][s], m)
<1>1. /\ old.created
      /\ Decrypts(old.ratchet, m.body)
      /\ session' = [session EXCEPT ![p][s] = e]
      /\ read' = [read EXCEPT ![p][s] = @ \cup {m.body.plaintext}]
      /\ UNCHANGED <<stored, opened, generated, sent, forgotten>>
  BY DEF Decrypt, SessionDecrypts
<1>2. Peer(p) \in Device
  BY Devices
<1>3. PICK k \in DOMAIN sent[Peer(p)] : m = sent[Peer(p)][k]
  BY DEF Range
<1>4. /\ GoodBody(m.body) /\ Old(m.body.ratchet_key, generated)
      /\ m.body.plaintext = k /\ KeyOf(Peer(p), k) = m.body.mac_key
  BY <1>2, <1>3, GoodLetter DEF KeyOf
<1>5. DOMAIN old = SessionFields
  BY DEF KeysInv, IInv, Shape
<1>6. /\ e.created
      /\ e.ratchet = AfterDecrypt(old.ratchet, m.body)
      /\ SessionId(e) = SessionId(old)
  BY <1>1, <1>5 DEF SessionAfterDecrypt, SessionFields, SessionId
<1> HIDE DEF e
<1>7. /\ \A q \in Device, t \in Slot :
           session'[q][t] = IF q = p /\ t = s THEN e ELSE session[q][t]
      /\ \A q \in Device, t \in Slot :
           read'[q][t] = IF q = p /\ t = s THEN read[p][s] \cup {k} ELSE read[q][t]
      /\ DOMAIN read' = Device /\ \A q \in Device : DOMAIN read'[q] = DOMAIN read[q]
  BY <1>1, <1>4 DEF KeysInv, IInv, Shape, ReadInv, ReadShape
<1>8. Grown(opened, opened')
  BY <1>1 DEF KeysInv, Types, Counts, Grown
<1>9. /\ old \in SessionsOf(p, s)
      /\ GoodRatchet(old.ratchet, p, generated, opened)
      /\ ReceivesGood(old, generated)
      /\ generated \in Counts /\ opened \in Counts
  BY <1>1, ReaderGood
<1> HIDE DEF old
<1>10. /\ Receiving(old.ratchet) /\ SecondOld(old.ratchet.root_key, generated)
       /\ old.ratchet.root_key[1] = SecretOf(SessionId(old))
       /\ FirstChain(old)
  BY <1>9 DEF ReceivesGood
<1>11. ReadsOn(old.ratchet, e.ratchet, m.body, generated)
  BY <1>1, <1>4, <1>6, <1>9, <1>10, DecryptReceiving
<1>12. m.body.mac_key.chain[1] = old.ratchet.root_key[1]
  BY <1>1, <1>4, <1>9, <1>10, NotRead
<1>13. Succeeds(e, old, generated)
  BY <1>6, <1>11 DEF ReadsOn, Succeeds
<1>14. Reader(e, KeyOf(Peer(p), k))
  BY <1>4, <1>6, <1>10, <1>11, <1>12 DEF ReadsOn, Reader
<1>15. ReceivesGood(e, generated)
  <2>1. FirstChain(e)
    BY <1>10, <1>11 DEF ReadsOn, FirstChain
  <2> QED BY <1>6, <1>10, <1>11, <2>1 DEF ReadsOn, ReceivesGood
<1>16. NewSession(e, p, s)
  BY <1>1, <1>9, <1>13, <1>15 DEF NewSession
<1>17. ASSUME NEW q \in Device, NEW t \in Slot, NEW x \in SessionsOf(q, t)'
       PROVE  (\E y \in SessionsOf(q, t) : Same(x, y)) \/ NewSession(x, q, t)
  <2>1. \/ x \in SessionsOf(q, t)
        \/ q = p /\ t = s /\ x = e
    BY <1>1, <1>7 DEF SessionsOf
  <2> QED BY <1>16, <2>1, SamePickled
<1>18. ReadSteps /\ LettersGood' /\ ForgottenGood'
  BY <1>1, <1>8, <1>17, LettersStay, ForgottenStays DEF ReadSteps
<1>19. ReadShape'
  BY <1>1, <1>7 DEF ReadInv, ReadShape
<1>20. ASSUME NEW q \in Device, NEW t \in Slot
       PROVE  \A i \in read'[q][t] : ReadFrom(i, q, t, session'[q][t].created, session'[q][t])
  <2>1. ASSUME q = p, t = s, NEW i \in read'[q][t]
        PROVE  ReadFrom(i, q, t, session'[q][t].created, session'[q][t])
    <3>1. session'[q][t] = e /\ session[q][t] = old
      BY <1>7, <2>1 DEF old
    <3>2. CASE i \in read[q][t]
      BY <1>6, <1>13, <3>1, <3>2 DEF ReadFrom, From
    <3>3. CASE i = k
      BY <1>3, <1>6, <1>14, <2>1, <3>1, <3>3 DEF ReadFrom
    <3> QED BY <1>7, <2>1, <3>2, <3>3
  <2>2. CASE ~(q = p /\ t = s)
    BY <1>7, <2>2, SamePickled, LiveKept
  <2> QED BY <2>1, <2>2
<1>21. ASSUME NEW q \in Device, NEW t \in Slot
       PROVE  \A i \in stored'[q].read[t] :
                ReadFrom(i, q, t, stored'[q].session[t] # NoPickle, stored'[q].session[t])
  BY <1>1, StoredKept
<1> QED BY <1>18, <1>19, <1>20, <1>21, ReadInvStep

(* What a session of p is after it has encrypted.                          *)
EncryptsOn(old, e, m, n, keys, keys2) ==
    /\ ReceivesGood(e, keys2)
    /\ Succeeds(e, old, keys)
    /\ SentGood(m, n, keys2)

(* Encryption brings back no key, and a first message is a pre-key message. *)
LEMMA SessionEncrypts ==
    ASSUME NEW keys \in Counts, NEW opens \in Counts, NEW p \in Device,
           NEW old, GoodRatchet(old.ratchet, p, keys, opens), ReceivesGood(old, keys),
           DOMAIN old = SessionFields,
           NEW keys2 \in Counts, \A d \in Device : keys[d] <= keys2[d],
           old.ratchet.sender_chain = <<>> => keys2[p] = keys[p] + 1,
           old.ratchet.sender_chain # <<>> => keys2 = keys,
           NEW fresh, fresh = <<p, "ratchet", keys[p]>>, NEW n,
           NEW e, e = SessionAfterEncrypt(old, fresh),
           NEW m, m = SessionMessage(old, fresh, n)
    PROVE  EncryptsOn(old, e, m, n, keys, keys2)
<1> DEFINE r == old.ratchet
           f == e.ratchet
           b == EncryptedMessage(r, fresh, n)
<1>1. /\ f = AfterEncrypt(r, fresh)
      /\ SessionId(e) = SessionId(old) /\ e.received_message = old.received_message
  BY DEF SessionAfterEncrypt, SessionFields, SessionId
<1>2. /\ m.body = b
      /\ ~old.received_message => m.type = "PRE_KEY"
      /\ m.type = "PRE_KEY" => /\ m.identity_key = old.alice_identity_key
                               /\ m.base_key = old.alice_base_key
                               /\ m.one_time_key = old.bob_one_time_key
  BY DEF SessionMessage, EncryptMessageType
<1>3. b.plaintext = n /\ b.counter = b.mac_key.index
  BY DEF EncryptedMessage
<1>4. /\ Receiving(r) /\ SecondOld(r.root_key, keys)
      /\ r.root_key[1] = SecretOf(SessionId(old))
      /\ FirstChain(old) /\ GoodRatchet(r, p, keys, opens)
  BY DEF ReceivesGood
<1> HIDE DEF b
<1>5. EncryptedTo(r, f, b, p, keys, keys2, opens)
  <2> HIDE DEF r, f
  <2> QED BY <1>1, <1>4, Encrypted DEF b, r
<1>6. f.sender_chain # <<>> /\ b.mac_key.chain = f.root_key
  <2> HIDE DEF r, f
  <2>1. f.sender_chain # <<>> /\ b.mac_key = [chain |-> f.root_key, index |-> b.mac_key.index]
    BY <1>5 DEF EncryptedTo
  <2>2. [chain |-> f.root_key, index |-> b.mac_key.index].chain = f.root_key
    OBVIOUS
  <2> QED BY <2>1, <2>2
<1>7. /\ Receiving(f)
      /\ SecondOld(f.root_key, keys2)
      /\ f.root_key[1] = r.root_key[1]
      /\ Len(f.root_key) = 1 => r.sender_chain # <<>>
      /\ f.receiver_chains = r.receiver_chains
      /\ \A key : Consumed(r, key) => Consumed(f, key)
      /\ \A key : Diverged(r, key) /\ SecondOld(key.chain, keys) => Diverged(f, key)
  <2>1. r.sender_chain = <<>> => keys2[p] = keys[p] + 1
    OBVIOUS
  <2> HIDE DEF r, f
  <2> QED BY <1>1, <1>4, <1>6, <2>1, EncryptReceiving
<1>8. r.sender_chain # <<>> => f.root_key = r.root_key
  <2> HIDE DEF r, f
  <2> QED BY <1>1, <1>4, EncryptParts
<1>9. ReceivesGood(e, keys2)
  <2>1. FirstChain(e)
    BY <1>1, <1>4, <1>7, <1>8 DEF FirstChain
  <2> QED BY <1>1, <1>4, <1>7, <2>1 DEF ReceivesGood
<1>10. Succeeds(e, old, keys)
  BY <1>1, <1>7 DEF Succeeds
<1>11. SentGood(m, n, keys2)
  <2>1. Len(f.root_key) = 1 => m.type = "PRE_KEY"
    BY <1>2, <1>4, <1>7, <1>8 DEF FirstChain
  <2>2. m.type = "PRE_KEY" =>
           f.root_key[1] = SecretOf(<<m.identity_key, m.base_key, m.one_time_key>>)
    BY <1>2, <1>4, <1>7 DEF SessionId
  <2>3. SecondOld(m.body.mac_key.chain, keys2)
    BY <1>2, <1>6, <1>7
  <2> HIDE DEF r, f
  <2> QED BY <1>2, <1>3, <1>6, <2>1, <2>2, <2>3 DEF SentGood
<1> QED BY <1>9, <1>10, <1>11 DEF EncryptsOn

(* _olm_session_encrypt: the session is pickled with the message.          *)
LEMMA EncryptReads ==
    ASSUME KeysInv, ReadInv, NEW p \in Device, NEW s \in Slot, Encrypt(p, s)
    PROVE  ReadInv'
<1> DEFINE old == session[p][s]
           e   == SessionAfterEncrypt(session[p][s], FreshKey(p))
           m   == NextMessage(p, s)
           n   == Len(sent[p]) + 1
<1>1. /\ old.created
      /\ sent' = [sent EXCEPT ![p] = Append(@, m)]
      /\ session' = [session EXCEPT ![p][s] = e]
      /\ generated' = [generated EXCEPT
                         ![p] = IF old.ratchet.sender_chain = <<>> THEN @ + 1 ELSE @]
      /\ stored' = [stored EXCEPT ![p].session[s] = PickledSession(session'[p][s]),
                                  ![p].read[s]    = read[p][s]]
      /\ UNCHANGED <<read, opened, forgotten>>
  BY DEF Encrypt
<1>2. DOMAIN old = SessionFields
  BY DEF KeysInv, IInv, Shape
<1>3. e.created
  BY <1>1, <1>2 DEF SessionAfterEncrypt, SessionFields
<1>4. /\ old \in SessionsOf(p, s)
      /\ GoodRatchet(old.ratchet, p, generated, opened)
      /\ ReceivesGood(old, generated)
      /\ generated \in Counts /\ opened \in Counts
  BY <1>1, ReaderGood
<1>5. /\ generated' \in Counts /\ \A d \in Device : generated[d] <= generated'[d]
      /\ old.ratchet.sender_chain = <<>> => generated'[p] = generated[p] + 1
      /\ old.ratchet.sender_chain # <<>> => generated' = generated
  BY <1>1, <1>4 DEF Counts
<1>6. EncryptsOn(old, e, m, n, generated, generated')
  <2>1. /\ FreshKey(p) = <<p, "ratchet", generated[p]>>
        /\ e = SessionAfterEncrypt(old, FreshKey(p))
        /\ m = SessionMessage(old, FreshKey(p), n)
    BY DEF FreshKey, NextMessage
  <2> HIDE DEF old, e, m, n
  <2> QED BY <1>2, <1>4, <1>5, <2>1, SessionEncrypts
<1> HIDE DEF e, m
<1>7. /\ \A q \in Device, t \in Slot :
           session'[q][t] = IF q = p /\ t = s THEN e ELSE session[q][t]
      /\ \A q \in Device, t \in Slot :
           stored'[q].session[t] = IF q = p /\ t = s THEN PickledSession(e)
                                   ELSE stored[q].session[t]
      /\ \A q \in Device, t \in Slot :
           stored'[q].read[t] = IF q = p /\ t = s THEN read[p][s] ELSE stored[q].read[t]
      /\ \A q \in Device : DOMAIN stored'[q].read = DOMAIN stored[q].read
  BY <1>1 DEF KeysInv, IInv, Shape, ReadInv, ReadShape
<1>8. /\ IsSequence(sent[p])
      /\ \A q \in Device : sent'[q] = IF q = p THEN Append(sent[q], m) ELSE sent[q]
  BY <1>1 DEF KeysInv, IInv, Shape, IsSequence
<1>9. /\ DOMAIN sent'[p] = 1 .. n
      /\ DOMAIN sent[p] = 1 .. Len(sent[p]) /\ Len(sent[p]) \in Nat
      /\ sent'[p][n] = m
      /\ \A i \in DOMAIN sent[p] : sent'[p][i] = sent[p][i]
  <2>1. /\ IsSequence(Append(sent[p], m))
        /\ Len(sent[p]) \in Nat /\ Len(Append(sent[p], m)) = Len(sent[p]) + 1
        /\ Append(sent[p], m)[Len(sent[p]) + 1] = m
        /\ \A i \in 1 .. Len(sent[p]) : Append(sent[p], m)[i] = sent[p][i]
        /\ DOMAIN sent[p] = 1 .. Len(sent[p])
    BY <1>8, SequenceAppend
  <2>2. DOMAIN Append(sent[p], m) = 1 .. Len(sent[p]) + 1
    BY <2>1 DEF IsSequence
  <2> QED BY <1>8, <2>1, <2>2
<1>10. \A i \in DOMAIN sent'[p] :
          \/ i \in DOMAIN sent[p] /\ sent'[p][i] = sent[p][i]
          \/ i = n /\ sent'[p][i] = m
  BY <1>9
<1> HIDE DEF n
<1>11. Grown(opened, opened') /\ Grown(generated, generated')
  BY <1>1, <1>4, <1>5 DEF Counts, Grown
<1>12. SentStays
  <2> SUFFICES ASSUME NEW q \in Device, NEW i \in DOMAIN sent[q]
               PROVE  i \in DOMAIN sent'[q] /\ sent'[q][i] = sent[q][i]
    BY DEF SentStays, KeyOf
  <2>1. CASE q = p
    <3>1. n \in Nat /\ i \in 1 .. n
      BY <1>9, <2>1 DEF n
    <3> QED BY <1>9, <2>1, <3>1
  <2>2. CASE q # p
    BY <1>8, <2>2
  <2> QED BY <2>1, <2>2
<1>13. LettersGood'
  <2> SUFFICES ASSUME NEW q \in Device, NEW i \in DOMAIN sent'[q]
               PROVE  SentGood(sent'[q][i], i, generated')
    BY DEF LettersGood
  <2>1. ASSUME NEW j \in DOMAIN sent[q]
        PROVE  SentGood(sent[q][j], j, generated')
    <3>1. SentGood(sent[q][j], j, generated)
      BY DEF ReadInv, LettersGood
    <3>2. SecondOld(sent[q][j].body.mac_key.chain, generated')
      <4>1. SecondOld(sent[q][j].body.mac_key.chain, generated)
        BY <3>1 DEF SentGood
      <4> QED BY <1>11, <4>1, SecondStays
    <3> QED BY <3>1, <3>2 DEF SentGood
  <2>2. CASE q = p
    <3>1. CASE i \in DOMAIN sent[p] /\ sent'[p][i] = sent[p][i]
      BY <2>1, <2>2, <3>1
    <3>2. CASE i = n /\ sent'[p][i] = m
      BY <1>6, <2>2, <3>2 DEF EncryptsOn
    <3> QED BY <1>10, <2>2, <3>1, <3>2
  <2>3. CASE q # p
    BY <1>8, <2>1, <2>3
  <2> QED BY <2>2, <2>3
<1> HIDE DEF old
<1>14. ReceivesGood(e, generated') /\ Succeeds(e, old, generated)
  BY <1>6 DEF EncryptsOn
<1>15. ReceivesGood(PickledSession(e), generated') /\ Succeeds(PickledSession(e), old, generated)
  <2>1. Grown(generated', generated')
    BY <1>5 DEF Grown, Counts
  <2>2. ReceivesGood(PickledSession(e), generated')
    BY <1>14, <2>1, SamePickled, SameReceives
  <2>3. Succeeds(PickledSession(e), e, generated)
    BY SamePickled
  <2> QED BY <1>14, <2>2, <2>3 DEF Succeeds
<1>16. ASSUME NEW q \in Device, NEW t \in Slot, NEW x \in SessionsOf(q, t)'
       PROVE  (\E y \in SessionsOf(q, t) : Same(x, y)) \/ NewSession(x, q, t)
  <2>1. \/ x \in SessionsOf(q, t)
        \/ q = p /\ t = s /\ (x = e \/ x = PickledSession(e))
    BY <1>3, <1>7 DEF SessionsOf
  <2>2. NewSession(e, p, s) /\ NewSession(PickledSession(e), p, s)
    BY <1>4, <1>14, <1>15 DEF NewSession
  <2> QED BY <2>1, <2>2, SamePickled
<1>17. ReadSteps /\ ForgottenGood'
  BY <1>1, <1>11, <1>12, <1>16, ForgottenStays DEF ReadSteps
<1>18. ReadShape'
  BY <1>1, <1>7 DEF ReadInv, ReadShape
<1>19. ASSUME NEW q \in Device, NEW t \in Slot
       PROVE  \A i \in read'[q][t] : ReadFrom(i, q, t, session'[q][t].created, session'[q][t])
  <2>1. session[q][t].created => /\ session'[q][t].created
                                 /\ Succeeds(session'[q][t], session[q][t], generated)
    BY <1>3, <1>7, <1>14, SamePickled DEF old
  <2> QED BY <1>1, <2>1, LiveKept
<1>20. ASSUME NEW q \in Device, NEW t \in Slot
       PROVE  \A i \in stored'[q].read[t] :
                ReadFrom(i, q, t, stored'[q].session[t] # NoPickle, stored'[q].session[t])
  <2>1. CASE q = p /\ t = s
    <3>1. /\ stored'[q].read[t] = read[q][t]
          /\ stored'[q].session[t] = PickledSession(e) /\ session[q][t] = old
      BY <1>7, <2>1 DEF old
    <3> QED BY <1>15, <3>1, SamePickled, PickledReads
  <2>2. CASE ~(q = p /\ t = s)
    BY <1>7, <2>2, StoredKept
  <2> QED BY <2>1, <2>2
<1> QED BY <1>13, <1>17, <1>18, <1>19, <1>20, ReadInvStep

(* Initially nothing is read.                                              *)
LEMMA InitReads == Init => ReadInv
<1> SUFFICES ASSUME Init PROVE ReadInv
  OBVIOUS
<1>1. /\ \A p \in Device, s \in Slot :
           /\ session[p][s] = SessionInit /\ stored[p].session[s] = NoPickle
           /\ read[p][s] = {} /\ stored[p].read[s] = {}
      /\ \A p \in Device : sent[p] = <<>> /\ forgotten[p] = {}
      /\ ReadShape
  BY DEF Init, ReadShape
<1>2. \A p \in Device, s \in Slot : SessionsOf(p, s) = {}
  BY <1>1 DEF SessionsOf, SessionInit
<1> QED BY <1>1, <1>2 DEF ReadInv, ReceiversGood, LettersGood, ForgottenGood, LiveReads, StoredReads

(* ReadInv is inductive, relative to KeysInv.                              *)
LEMMA NextReads == KeysInv /\ ReadInv /\ [Next]_vars => ReadInv'
<1> SUFFICES ASSUME KeysInv, ReadInv, [Next]_vars PROVE ReadInv'
  OBVIOUS
<1>1. ASSUME NEW p \in Device, NEW s \in Slot, CreateOutboundSession(p, s) PROVE ReadInv'
  BY <1>1, CreateOutboundReads
<1>2. ASSUME NEW p \in Device, NEW s \in Slot, Encrypt(p, s) PROVE ReadInv'
  BY <1>2, EncryptReads
<1>3. ASSUME NEW p \in Device, NEW s \in Slot, NEW m \in Range(sent[Peer(p)]), Decrypt(p, s, m)
      PROVE  ReadInv'
  BY <1>3, DecryptReads
<1>4. ASSUME NEW p \in Device, NEW s \in Slot, NEW theirs,
             NEW m \in Range(sent[Peer(p)]), CreateInboundSession(p, s, theirs, m)
      PROVE  ReadInv'
  BY <1>4, CreateInboundReads
<1>5. ASSUME NEW p \in Device, NEW s \in Slot, Forget(p, s) PROVE ReadInv'
  BY <1>5, ForgetReads
<1>6. ASSUME NEW p \in Device, Restart(p) PROVE ReadInv'
  BY <1>6, RestartReads
<1>7. ASSUME NEW p \in Device, NEW s \in Slot, PickleSession(p, s) PROVE ReadInv'
  BY <1>7, PickleReads
<1>8. ASSUME \/ \E p \in Device : PickleAccount(p)
             \/ \E p \in Device, s \in Slot : RemoveOneTimeKeys(p, s)
             \/ UNCHANGED vars
      PROVE  ReadInv'
  BY <1>8, OtherReads
<1> QED BY <1>1, <1>2, <1>3, <1>4, <1>5, <1>6, <1>7, <1>8 DEF Next

(* What each session has read, live and pickled, is as ReadInv says in     *)
(* every reachable state.                                                  *)
THEOREM SpecReadInv == Spec => []ReadInv
<1>1. Init => KeysInv /\ ReadInv
  BY InitKeys, InitReads
<1>2. KeysInv /\ ReadInv /\ [Next]_vars => KeysInv' /\ ReadInv'
  BY NextKeys, NextReads
<1> QED BY <1>1, <1>2, PTL DEF Spec

(* Whoever was let in by a pre-key message and has been deleted is among   *)
(* the deleted.                                                            *)
LEMMA GoneIsForgotten ==
    ASSUME KeysInv, ReadInv, NEW p \in Device, NEW i \in DOMAIN sent[Peer(p)], NEW m,
           m = sent[Peer(p)][i], m.type = "PRE_KEY",
           ReaderGone(KeyOf(Peer(p), i), forgotten[p], ObjectsOf(p))
    PROVE  <<m.identity_key, m.base_key, m.one_time_key>> \in forgotten[p]
<1> DEFINE mid == <<m.identity_key, m.base_key, m.one_time_key>>
<1>1. Peer(p) \in Device /\ opened \in Counts
  BY Devices DEF KeysInv, Types
<1>2. PICK id \in forgotten[p] : SecretOf(id) = KeyOf(Peer(p), i).chain[1]
  BY DEF ReaderGone
<1>3. PICK o \in Device : OpeningOf(id[1], id[2], id[3], o, opened) /\ id = <<id[1], id[2], id[3]>>
  BY DEF ReadInv, ForgottenGood
<1>4. KeyOf(Peer(p), i).chain[1] = SecretOf(mid)
  BY <1>1 DEF ReadInv, LettersGood, SentGood, KeyOf
<1>5. PICK w \in Device : OpeningOf(m.identity_key, m.base_key, m.one_time_key, w, opened)
  BY <1>1 DEF KeysInv, MessagesGood, GoodMessage
<1>6. mid[1] = m.identity_key /\ mid[2] = m.base_key /\ mid[3] = m.one_time_key
  OBVIOUS
<1>7. OpeningOf(mid[1], mid[2], mid[3], w, opened) /\ SecretOf(id) = SecretOf(mid)
  BY <1>2, <1>4, <1>5, <1>6
<1>8. id[1] = m.identity_key /\ id[2] = m.base_key /\ id[3] = m.one_time_key
  <2> HIDE DEF mid
  <2> QED BY <1>1, <1>3, <1>6, <1>7, SecretNames
<1> QED BY <1>3, <1>8

(* No session that is there reads a message again, and where the one that  *)
(* did is gone only a pre-key message is read.                             *)
LEMMA ReadsNone ==
    ASSUME KeysInv, ReadInv, NEW p \in Device, NEW i \in DOMAIN sent[Peer(p)],
           NEW s \in Slot, i \in read[p][s],
           NEW t \in Slot, session[p][t].created,
           Decrypts(session[p][t].ratchet, sent[Peer(p)][i].body)
    PROVE  /\ sent[Peer(p)][i].type = "PRE_KEY"
           /\ ReaderGone(KeyOf(Peer(p), i), forgotten[p], ObjectsOf(p))
<1> DEFINE x == session[p][t]
           key == KeyOf(Peer(p), i)
<1>1. Peer(p) \in Device
  BY Devices
<1>2. /\ x \in SessionsOf(p, t) /\ ReceivesGood(x, generated)
      /\ GoodRatchet(x.ratchet, p, generated, opened)
      /\ generated \in Counts /\ opened \in Counts
  BY ReaderGood
<1>3. Receiving(x.ratchet) /\ x.ratchet.root_key[1] = SecretOf(SessionId(x))
  BY <1>2 DEF ReceivesGood
<1>4. GoodBody(sent[Peer(p)][i].body) /\ key = sent[Peer(p)][i].body.mac_key
  BY <1>1, GoodLetter DEF KeyOf
<1>5. ~Consumed(x.ratchet, key) /\ ~Diverged(x.ratchet, key)
      /\ key.chain[1] = SecretOf(SessionId(x))
  <2> HIDE DEF x, key
  <2>1. Decrypts(x.ratchet, sent[Peer(p)][i].body)
    BY DEF x
  <2> QED BY <1>2, <1>3, <1>4, <2>1, NotRead
<1>6. \/ session[p][s].created /\ Reader(session[p][s], key)
      \/ ReaderGone(key, forgotten[p], ObjectsOf(p))
  BY DEF ReadInv, LiveReads, ReadBy
<1>7. ~(session[p][s].created /\ Reader(session[p][s], key))
  <2> SUFFICES ASSUME session[p][s].created, Reader(session[p][s], key) PROVE FALSE
    OBVIOUS
  <2>1. session[p][s] \in SessionsOf(p, s)
    BY ReaderGood
  <2>2. SecretOf(SessionId(session[p][s])) = SecretOf(SessionId(x))
    BY <1>5 DEF Reader
  <2>3. s = t
    <3> HIDE DEF x
    <3> QED BY <1>2, <2>1, <2>2, SecretsApart
  <2> QED BY <1>5, <2>3 DEF Reader
<1>8. ReaderGone(key, forgotten[p], ObjectsOf(p))
  BY <1>6, <1>7
<1>9. Len(key.chain) = 1
  BY <1>2, <1>5, <1>8 DEF ReaderGone, ObjectsOf
<1>10. sent[Peer(p)][i].type = "PRE_KEY"
  BY <1>1, <1>9 DEF ReadInv, LettersGood, SentGood, KeyOf
<1> QED BY <1>8, <1>10

(* A message that was read is not read again, by no session and after no   *)
(* restart, but for a pre-key message of a session that was deleted.       *)
THEOREM SpecReadOnce == Spec => []ReadOnce
<1>1. KeysInv /\ ReadInv => ReadOnce
  <2> SUFFICES ASSUME KeysInv, ReadInv, NEW p \in Device, NEW i \in DOMAIN sent[Peer(p)],
                      NEW s \in Slot, i \in read[p][s], CanRead(p, sent[Peer(p)][i])
               PROVE  LET m == sent[Peer(p)][i]
                      IN  /\ m.type = "PRE_KEY"
                          /\ <<m.identity_key, m.base_key, m.one_time_key>> \in forgotten[p]
    BY DEF ReadOnce
  <2> DEFINE m == sent[Peer(p)][i]
             x == NewInboundSession(SessionInit, Identity(p), LookupKeys(p), NoKey, m)
             key == KeyOf(Peer(p), i)
  <2>1. CASE \E t \in Slot : session[p][t].created /\ SessionDecrypts(session[p][t], m.type, m)
    <3>1. PICK t \in Slot : session[p][t].created /\ Decrypts(session[p][t].ratchet, m.body)
      BY <2>1 DEF SessionDecrypts
    <3>2. m.type = "PRE_KEY" /\ ReaderGone(key, forgotten[p], ObjectsOf(p))
      BY <3>1, ReadsNone
    <3> QED BY <3>2, GoneIsForgotten
  <2>2. CASE MatchingSlots(p, NoKey, m) = {} /\ x.created
    <3>1. m.type = "PRE_KEY"
      <4>1. DOMAIN SessionInit = SessionFields /\ ~SessionInit.created
        BY UnpickledFields
      <4> QED BY <2>2, <4>1, InboundFields DEF CheckMessageFields
    <3>2. \/ session[p][s].created /\ Reader(session[p][s], key)
          \/ ReaderGone(key, forgotten[p], ObjectsOf(p))
      BY DEF ReadInv, LiveReads, ReadBy
    <3>3. ~(session[p][s].created /\ Reader(session[p][s], key))
      <4> SUFFICES ASSUME session[p][s].created, Reader(session[p][s], key) PROVE FALSE
        OBVIOUS
      <4> DEFINE sid == SessionId(session[p][s])
                 mid == <<m.identity_key, m.base_key, m.one_time_key>>
      <4>1. Peer(p) \in Device /\ opened \in Counts
        BY Devices DEF KeysInv, Types
      <4>2. SecretOf(sid) = SecretOf(mid)
        BY <3>1, <4>1 DEF Reader, ReadInv, LettersGood, SentGood, KeyOf
      <4>3. PICK w \in Device : OpeningOf(m.identity_key, m.base_key, m.one_time_key, w, opened)
        BY <3>1, <4>1 DEF KeysInv, MessagesGood, GoodMessage
      <4>4. GoodId(session[p][s], opened)
        BY ObjectsGood DEF GoodObject
      <4>5. /\ sid[1] = session[p][s].alice_identity_key
            /\ sid[2] = session[p][s].alice_base_key
            /\ sid[3] = session[p][s].bob_one_time_key
            /\ mid[1] = m.identity_key /\ mid[2] = m.base_key /\ mid[3] = m.one_time_key
        BY DEF SessionId
      <4>6. PICK o \in Device : OpeningOf(sid[1], sid[2], sid[3], o, opened)
        BY <4>4, <4>5 DEF GoodId
      <4>7. OpeningOf(mid[1], mid[2], mid[3], w, opened)
        BY <4>3, <4>5
      <4>8. sid[1] = mid[1] /\ sid[2] = mid[2] /\ sid[3] = mid[3]
        <5> HIDE DEF sid, mid
        <5> QED BY <4>1, <4>2, <4>6, <4>7, SecretNames
      <4>9. s \in MatchingSlots(p, NoKey, m)
        BY <3>1, <4>5, <4>8 DEF MatchingSlots, MatchesInboundSession, CheckMessageFields
      <4> QED BY <2>2, <4>9
    <3> QED BY <3>1, <3>2, <3>3, GoneIsForgotten
  <2>3. \/ \E t \in Slot : session[p][t].created /\ SessionDecrypts(session[p][t], m.type, m)
        \/ MatchingSlots(p, NoKey, m) = {} /\ x.created
    <3> HIDE DEF x
    <3> QED BY DEF CanRead, MatchingSlots, x
  <2> QED BY <2>1, <2>2, <2>3
<1> QED BY <1>1, SpecKeysInv, SpecReadInv, PTL

-----------------------------------------------------------------------------

(* A party receives on the chain its peer sends on.                        *)
Follows(r, s) ==
    /\ s.sender_chain # <<>>
    /\ r.receiver_chains # <<>>
    /\ r.receiver_chains[1].ratchet_key = s.sender_chain[1].ratchet_key
    /\ r.receiver_chains[1].chain_key.chain = s.root_key
    /\ r.receiver_chains[1].chain_key.index <= s.sender_chain[1].chain_key.index

(* It does, and has not answered yet;                                      *)
Level(r, s) ==
    Follows(r, s) /\ r.sender_chain = <<>> /\ r.root_key = s.root_key

(* or it has, and the peer does not know of its answer.                    *)
Leads(r, s) ==
    /\ Follows(r, s)
    /\ r.sender_chain # <<>>
    /\ r.root_key = Append(s.root_key, {s.sender_chain[1].ratchet_key,
                                        r.sender_chain[1].ratchet_key})
    /\ ~HasReceiverChain(s, r.sender_chain[1].ratchet_key)

InStep(r, s) == Level(r, s) \/ Leads(r, s) \/ Level(s, r) \/ Leads(s, r)

Gone == forgotten[Alice] \cup forgotten[Bob]

LiveIds(p) == {SessionId(session[p][s]) : s \in {t \in Slot : session[p][t].created}}

StoredIds(p) ==
    {SessionId(stored[p].session[s]) : s \in {t \in Slot : stored[p].session[t] # NoPickle}}

MessageId(m) == <<m.identity_key, m.base_key, m.one_time_key>>

(* The ids in sessions, pickles and messages.                              *)
UsedIds ==
    (UNION {{SessionId(x) : x \in ObjectsOf(p)} : p \in Device})
      \cup (UNION {{MessageId(m) : m \in {l \in Range(sent[p]) : l.type = "PRE_KEY"}} :
                    p \in Device})

(* The ratchet key a session is opened with.                               *)
InitialKey(base_key) == <<base_key[1], "initial", base_key[3]>>

(* A session is in step with every session of that id its peer has, live   *)
(* or pickled.                                                             *)
Paired(x, others, gone) ==
    SessionId(x) \notin gone =>
        \A y \in others : SessionId(y) = SessionId(x) => InStep(x.ratchet, y.ratchet)

(* The device that opened a session sends on the first chain until it has  *)
(* an answer.                                                              *)
FirstOne(x, p) ==
    x.alice_identity_key = Identity(p) =>
        /\ Len(x.ratchet.root_key) = 1 =>
              /\ x.ratchet.sender_chain # <<>>
              /\ x.ratchet.sender_chain[1].ratchet_key = InitialKey(x.alice_base_key)
        /\ ~x.received_message => Len(x.ratchet.root_key) = 1

(* Whoever has heard of a session from the peer can rely on its pickle.    *)
Partnered(x, p, gone, ids) ==
    /\ SessionId(x) \notin gone
    /\ x.alice_identity_key = Identity(p) => Len(x.ratchet.root_key) # 1
    => SessionId(x) \in ids

(* A message comes from an earlier chain or from earlier on the chain r    *)
(* sends on.                                                               *)
SentBefore(r, b) ==
    \/ Len(b.mac_key.chain) < Len(r.root_key)
    \/ /\ r.sender_chain # <<>>
       /\ b.mac_key.chain = r.root_key
       /\ b.ratchet_key = r.sender_chain[1].ratchet_key
       /\ b.mac_key.index < r.sender_chain[1].chain_key.index

(* No message of its session is ahead of a ratchet, not even of one that   *)
(* is pickled.                                                             *)
Behind(x, deleted, messages) ==
    SessionId(x) \notin deleted =>
        \A i \in DOMAIN messages :
            messages[i].body.mac_key.chain[1] = SecretOf(SessionId(x))
              => SentBefore(x.ratchet, messages[i].body)

FewOn(r, n) == r.sender_chain # <<>> => r.sender_chain[1].chain_key.index <= n

Reaching(x, p, gone, ids, deleted, messages) ==
    /\ FirstOne(x, p)
    /\ Partnered(x, p, gone, ids)
    /\ Behind(x, deleted, messages)
    /\ FewOn(x.ratchet, Len(messages))

RatchetsReach ==
    \A p \in Device : \A x \in ObjectsOf(p) :
        /\ Reaching(x, p, Gone, StoredIds(Peer(p)), forgotten[p], sent[p])
        /\ Paired(x, ObjectsOf(Peer(p)), Gone)

(* The pre-key messages of the device that opened are of the first chain.  *)
FirstLetter(m, p) ==
    m.type = "PRE_KEY" /\ m.identity_key = Identity(p) =>
        /\ m.body.ratchet_key = InitialKey(m.base_key)
        /\ Len(m.body.mac_key.chain) = 1

LettersReach ==
    \A p \in Device : \A i \in DOMAIN sent[p] :
        /\ FirstLetter(sent[p][i], p)
        /\ \E id \in StoredIds(p) \cup forgotten[p] :
              SecretOf(id) = sent[p][i].body.mac_key.chain[1]

(* A one-time key is used by the one session that claimed it.              *)
KeysClaimed ==
    /\ \A id \in UsedIds : id[3] \in claimed
    /\ \A id, id2 \in UsedIds :
          id[3] = id2[3] => id = id2 \/ \E p \in Device : id[3] = FallbackKey(p)
    /\ \A p \in Device :
          PublishedKeys(p) \ claimed \subseteq one_time_keys[p] \cap stored[p].one_time_keys

(* The device that was sent a session's key still has the key or already   *)
(* the session, and will after a restart.                                  *)
KeysKept ==
    \A p \in Device : \A id \in UsedIds :
        id[1] = Identity(Peer(p)) /\ id \notin Gone =>
            /\ id[3] \in one_time_keys[p] \cup {FallbackKey(p)} \/ id \in LiveIds(p)
            /\ id[3] \in stored[p].one_time_keys \cup {FallbackKey(p)} \/ id \in StoredIds(p)

FewSent == Len(sent[Alice]) + Len(sent[Bob]) <= MaxSends

ReachInv == RatchetsReach /\ LettersReach /\ KeysClaimed /\ KeysKept /\ FewSent

-----------------------------------------------------------------------------

(* What the fields of a ratchet are.                                       *)
LEMMA RatchetParts ==
    ASSUME NEW keys \in Counts, NEW opens \in Counts, NEW p \in Device,
           NEW r, GoodRatchet(r, p, keys, opens), Receiving(r)
    PROVE  /\ DOMAIN r = RatchetFields
           /\ IsSequence(r.root_key) /\ Len(r.root_key) \in Nat \ {0}
           /\ IsSequence(r.receiver_chains)
           /\ DOMAIN r.receiver_chains = 1 .. Len(r.receiver_chains)
           /\ Len(r.receiver_chains) \in Nat
           /\ r.receiver_chains # <<>> => 1 \in DOMAIN r.receiver_chains
           /\ \A i \in DOMAIN r.receiver_chains :
                 /\ r.receiver_chains[i].chain_key.index \in Nat
                 /\ r.receiver_chains[i].chain_key =
                       [chain |-> r.receiver_chains[i].chain_key.chain,
                        index |-> r.receiver_chains[i].chain_key.index]
           /\ r.sender_chain = <<>> => r.receiver_chains # <<>>
           /\ r.sender_chain # <<>> => r.sender_chain[1].chain_key.index \in Nat
<1>1. DOMAIN r = RatchetFields /\ GoodReceiver(r.receiver_chains, keys)
      /\ (r.sender_chain = <<>> => r.receiver_chains # <<>>)
  BY Zenon DEF GoodRatchet
<1>2. IsSequence(r.root_key) /\ Len(r.root_key) >= 1
  BY Zenon DEF GoodRatchet, GoodSender, TurnOf
<1>3. r.sender_chain # <<>> => r.sender_chain[1].chain_key.index \in Nat
  BY Zenon DEF GoodRatchet, GoodSender
<1>4. IsSequence(r.receiver_chains)
  BY <1>1 DEF GoodReceiver
<1>5. /\ DOMAIN r.receiver_chains = 1 .. Len(r.receiver_chains)
      /\ Len(r.receiver_chains) \in Nat
      /\ r.receiver_chains # <<>> => 1 \in DOMAIN r.receiver_chains
  BY <1>4 DEF IsSequence
<1>6. Len(r.root_key) \in Nat \ {0}
  BY <1>2 DEF IsSequence
<1>7. \A i \in DOMAIN r.receiver_chains :
                 /\ r.receiver_chains[i].chain_key.index \in Nat
                 /\ r.receiver_chains[i].chain_key =
                       [chain |-> r.receiver_chains[i].chain_key.chain,
                        index |-> r.receiver_chains[i].chain_key.index]
  BY Zenon DEF Receiving, GoodKey
<1> QED BY <1>1, <1>2, <1>3, <1>4, <1>5, <1>6, <1>7

(* What the next message of a ratchet carries, and the chain it is from.   *)
SendsNext(r, e, b, fresh) ==
    /\ e.sender_chain # <<>>
    /\ r.sender_chain # <<>> =>
          /\ e.sender_chain[1].ratchet_key = r.sender_chain[1].ratchet_key
          /\ b.counter = r.sender_chain[1].chain_key.index
    /\ r.sender_chain = <<>> =>
          e.sender_chain[1].ratchet_key = fresh /\ b.counter = 0
    /\ b.ratchet_key = e.sender_chain[1].ratchet_key
    /\ b.mac_key = [chain |-> e.root_key, index |-> b.counter]
    /\ b.counter \in Nat
    /\ e.sender_chain[1].chain_key.index = b.counter + 1

LEMMA EncryptSends ==
    ASSUME NEW keys \in Counts, NEW opens \in Counts, NEW p \in Device,
           NEW r, GoodRatchet(r, p, keys, opens), NEW fresh, NEW plaintext,
           NEW e, e = AfterEncrypt(r, fresh),
           NEW b, b = EncryptedMessage(r, fresh, plaintext)
    PROVE  SendsNext(r, e, b, fresh)
<1> DEFINE w == WithSenderChain(r, fresh)
           k == IF r.sender_chain # <<>> THEN r.sender_chain[1].ratchet_key ELSE fresh
           n == IF r.sender_chain # <<>> THEN r.sender_chain[1].chain_key.index ELSE 0
<1>1. DOMAIN r = RatchetFields
  BY DEF GoodRatchet
<1>2. /\ DOMAIN w = RatchetFields /\ n \in Nat
      /\ w.sender_chain = <<[ratchet_key |-> k, chain_key |-> [chain |-> w.root_key, index |-> n]]>>
  <2>1. CASE r.sender_chain # <<>>
    <3>1. w = r
      BY <2>1 DEF WithSenderChain
    <3>2. /\ n \in Nat
          /\ r.sender_chain = <<[ratchet_key |-> k, chain_key |-> [chain |-> r.root_key, index |-> n]]>>
      BY <2>1, Zenon DEF GoodRatchet, GoodSender
    <3> QED BY <1>1, <3>1, <3>2
  <2>2. CASE r.sender_chain = <<>>
    <3> DEFINE root == CreateRootKey(r.root_key, fresh, r.receiver_chains[1].ratchet_key)
               link == [ratchet_key |-> fresh, chain_key |-> [chain |-> root, index |-> 0]]
               list == ListInsertFront(<<>>, link, 1)
    <3>1. w = [r EXCEPT !.root_key = root, !.sender_chain = list]
      BY <2>2, Zenon DEF WithSenderChain, NewChainKey
    <3>2. list = <<link>>
      <4>1. list \in Seq({link}) /\ Len(list) = 1 /\ list[1] = link
        BY ListInsertFrontEmpty
      <4> HIDE DEF list, link
      <4> QED BY <4>1
    <3> HIDE DEF list, root, w
    <3>3. DOMAIN w = RatchetFields /\ w.root_key = root /\ w.sender_chain = list
      BY <1>1, <3>1 DEF RatchetFields
    <3> QED BY <2>2, <3>2, <3>3
  <2> QED BY <2>1, <2>2
<1>3. e = [w EXCEPT !.sender_chain[1].chain_key = AdvanceChainKey(@)]
  BY Zenon DEF AfterEncrypt
<1>4. /\ b.ratchet_key = w.sender_chain[1].ratchet_key
      /\ b.counter = w.sender_chain[1].chain_key.index
      /\ b.mac_key = w.sender_chain[1].chain_key
  BY DEF EncryptedMessage
<1> HIDE DEF w, k, n
<1>5. /\ w.sender_chain[1].ratchet_key = k
      /\ w.sender_chain[1].chain_key = [chain |-> w.root_key, index |-> n]
      /\ w.sender_chain[1].chain_key.index = n
  BY <1>2
<1>6. AdvanceChainKey(w.sender_chain[1].chain_key) = [chain |-> w.root_key, index |-> n + 1]
  BY <1>2, <1>5 DEF AdvanceChainKey
<1>7. /\ e.root_key = w.root_key
      /\ e.sender_chain = [w.sender_chain EXCEPT ![1].chain_key = AdvanceChainKey(@)]
  BY <1>2, <1>3 DEF RatchetFields
<1>8. e.sender_chain = <<[ratchet_key |-> k, chain_key |-> [chain |-> w.root_key, index |-> n + 1]]>>
  BY <1>2, <1>6, <1>7
<1>9. /\ e.sender_chain # <<>> /\ e.sender_chain[1].ratchet_key = k
      /\ e.sender_chain[1].chain_key.index = n + 1
  BY <1>8
<1> QED BY <1>2, <1>4, <1>5, <1>7, <1>9 DEF k, n, SendsNext

(* The search finds the newest chain first.                                *)
LEMMA ReceiverChainNewest ==
    ASSUME NEW r, IsSequence(r.receiver_chains), r.receiver_chains # <<>>
    PROVE  /\ HasReceiverChain(r, r.receiver_chains[1].ratchet_key)
           /\ ReceiverChain(r, r.receiver_chains[1].ratchet_key) = 1
<1> DEFINE k == r.receiver_chains[1].ratchet_key
           First(i) == /\ r.receiver_chains[i].ratchet_key = k
                       /\ \A j \in 1 .. i - 1 : r.receiver_chains[j].ratchet_key # k
<1>1. /\ 1 \in DOMAIN r.receiver_chains
      /\ DOMAIN r.receiver_chains \subseteq Nat
      /\ \A i \in DOMAIN r.receiver_chains : i >= 1
  BY DEF IsSequence
<1>2. First(1)
  OBVIOUS
<1>3. \A i \in DOMAIN r.receiver_chains : First(i) => i = 1
  <2> SUFFICES ASSUME NEW i \in DOMAIN r.receiver_chains, First(i), i # 1 PROVE FALSE
    OBVIOUS
  <2>1. 1 \in 1 .. i - 1
    BY <1>1
  <2> QED BY <2>1
<1> HIDE DEF First
<1>4. (CHOOSE i \in DOMAIN r.receiver_chains : First(i)) = 1
  BY <1>1, <1>2, <1>3
<1>5. ReceiverChain(r, k) = 1
  BY <1>4 DEF ReceiverChain, First
<1> QED BY <1>1, <1>5 DEF HasReceiverChain

(* A key that is still to be generated names no receiver chain.            *)
LEMMA FreshHasNoChain ==
    ASSUME NEW keys \in Counts, NEW opens \in Counts, NEW p \in Device, NEW q \in Device,
           NEW r, GoodRatchet(r, q, keys, opens)
    PROVE  ~HasReceiverChain(r, <<p, "ratchet", keys[p]>>)
<1> DEFINE fresh == <<p, "ratchet", keys[p]>>
<1>1. \A i \in DOMAIN r.receiver_chains : Old(r.receiver_chains[i].ratchet_key, keys)
  BY Zenon DEF GoodRatchet, GoodReceiver
<1>2. ~Old(fresh, keys)
  <2>1. keys[p] \in Nat /\ ~(keys[p] \in 0 .. keys[p] - 1)
    BY DEF Counts
  <2>2. fresh[1] = p /\ fresh[2] = "ratchet" /\ fresh[3] = keys[p]
    OBVIOUS
  <2> HIDE DEF fresh
  <2> QED BY <2>1, <2>2 DEF Old
<1> HIDE DEF fresh
<1> QED BY <1>1, <1>2 DEF HasReceiverChain, fresh

(* Encryption keeps two ratchets in step: a new chain leads.               *)
LEMMA EncryptInStep ==
    ASSUME NEW keys \in Counts, NEW opens \in Counts, NEW p \in Device, NEW q \in Device,
           NEW r, GoodRatchet(r, p, keys, opens), Receiving(r),
           NEW s, GoodRatchet(s, q, keys, opens), Receiving(s),
           InStep(r, s),
           NEW e, e = AfterEncrypt(r, <<p, "ratchet", keys[p]>>)
    PROVE  InStep(e, s)
<1> DEFINE fresh == <<p, "ratchet", keys[p]>>
           b     == EncryptedMessage(r, fresh, 0)
<1>1. /\ e.receiver_chains = r.receiver_chains
      /\ r.sender_chain # <<>> => e.root_key = r.root_key
      /\ r.sender_chain = <<>> =>
            e.root_key = Append(r.root_key, {fresh, r.receiver_chains[1].ratchet_key})
  BY EncryptParts
<1>2. /\ e.sender_chain # <<>>
      /\ r.sender_chain # <<>> =>
            /\ e.sender_chain[1].ratchet_key = r.sender_chain[1].ratchet_key
            /\ e.sender_chain[1].chain_key.index = r.sender_chain[1].chain_key.index + 1
      /\ r.sender_chain = <<>> => e.sender_chain[1].ratchet_key = fresh
  <2>1. /\ e = AfterEncrypt(r, fresh) /\ b = EncryptedMessage(r, fresh, 0)
        /\ keys \in Counts /\ opens \in Counts /\ p \in Device
        /\ GoodRatchet(r, p, keys, opens)
    OBVIOUS
  <2> HIDE DEF b, fresh
  <2>2. SendsNext(r, e, b, fresh)
    BY ONLY <2>1, EncryptSends
  <2> QED BY <2>2 DEF SendsNext
<1>3. ~HasReceiverChain(s, fresh)
  BY FreshHasNoChain
<1> HIDE DEF fresh
<1>4. Level(r, s) => Leads(e, s)
  BY <1>1, <1>2, <1>3, Zenon DEF Level, Leads, Follows
<1>5. Leads(r, s) => Leads(e, s)
  BY <1>1, <1>2, Zenon DEF Leads, Follows
<1>6. ASSUME Follows(s, r)
      PROVE  Follows(s, e) /\ r.sender_chain # <<>>
  <2>1. r.sender_chain # <<>> /\ s.receiver_chains # <<>>
    BY <1>6 DEF Follows
  <2>2. /\ s.receiver_chains[1].chain_key.index \in Nat
        /\ r.sender_chain[1].chain_key.index \in Nat
    BY <2>1, RatchetParts
  <2> QED BY <1>1, <1>2, <1>6, <2>1, <2>2 DEF Follows
<1>7. Level(s, r) => Level(s, e)
  BY <1>1, <1>6, Zenon DEF Level
<1>8. Leads(s, r) => Leads(s, e)
  <2>1. \A k : HasReceiverChain(e, k) <=> HasReceiverChain(r, k)
    BY <1>1 DEF HasReceiverChain
  <2> QED BY <1>1, <1>2, <1>6, <2>1, Zenon DEF Leads
<1> QED BY <1>4, <1>5, <1>7, <1>8 DEF InStep

(* What decryption makes of a ratchet's chains: it advances one, or starts *)
(* the one of the message and stops sending, or takes a stored key.        *)
OnOldChain(r, e, b, i) ==
    /\ e.root_key = r.root_key
    /\ e.sender_chain = r.sender_chain
    /\ i \in DOMAIN r.receiver_chains
    /\ b.mac_key.chain = r.receiver_chains[i].chain_key.chain
    /\ e.receiver_chains =
          [r.receiver_chains EXCEPT ![i].chain_key = [chain |-> b.mac_key.chain,
                                                      index |-> b.mac_key.index + 1]]

OnNewChain(r, e, b) ==
    /\ r.sender_chain # <<>>
    /\ b.mac_key.chain = Append(r.root_key, {r.sender_chain[1].ratchet_key, b.ratchet_key})
    /\ e.root_key = b.mac_key.chain
    /\ e.sender_chain = <<>>
    /\ e.receiver_chains # <<>>
    /\ e.receiver_chains[1].ratchet_key = b.ratchet_key
    /\ e.receiver_chains[1].chain_key.chain = e.root_key
    /\ e.receiver_chains[1].chain_key.index = b.mac_key.index + 1

DecryptedTo(r, e, b) ==
    \/ /\ e.root_key = r.root_key
       /\ e.sender_chain = r.sender_chain
       /\ e.receiver_chains = r.receiver_chains
    \/ \E i : OnOldChain(r, e, b, i)
    \/ OnNewChain(r, e, b)

LEMMA DecryptParts ==
    ASSUME NEW keys \in Counts, NEW opens \in Counts, NEW p \in Device,
           NEW r, GoodRatchet(r, p, keys, opens), Receiving(r),
           NEW b, GoodBody(b), Decrypts(r, b),
           NEW e, e = AfterDecrypt(r, b)
    PROVE  DecryptedTo(r, e, b)
<1> DEFINE path == b.mac_key.chain
           c    == b.mac_key.index
           w    == WithReceiverChain(r, b.ratchet_key)
           i    == ReceiverChain(w, b.ratchet_key)
<1>1. /\ DOMAIN r = RatchetFields
      /\ IsSequence(r.receiver_chains)
      /\ GoodReceiver(r.receiver_chains, keys)
  BY Zenon DEF GoodRatchet, GoodReceiver
<1>2. b.mac_key = [chain |-> path, index |-> c] /\ c \in Nat /\ b.counter = c
  BY DEF GoodBody
<1>3. CASE AlreadyAdvanced(r, b)
  <2> DEFINE list == ListErase(r.skipped_message_keys, FirstOf(SkippedKeysFor(r, b)))
  <2>1. e = [r EXCEPT !.skipped_message_keys = list]
    BY <1>3, Zenon DEF AfterDecrypt, AfterDecryptSkipped
  <2> HIDE DEF list
  <2> QED BY <1>1, <2>1 DEF RatchetFields, DecryptedTo
<1>4. ASSUME ~AlreadyAdvanced(r, b),
             DOMAIN w = RatchetFields, i \in DOMAIN w.receiver_chains,
             DOMAIN w.receiver_chains[i] = {"ratchet_key", "chain_key"},
             w.receiver_chains[i].chain_key.chain = path,
             w.receiver_chains[i].chain_key
               = [chain |-> path, index |-> w.receiver_chains[i].chain_key.index]
      PROVE  /\ e.root_key = w.root_key
             /\ e.sender_chain = w.sender_chain
             /\ e.receiver_chains =
                  [w.receiver_chains EXCEPT ![i].chain_key = [chain |-> path, index |-> c + 1]]
  <2> DEFINE link    == w.receiver_chains[i]
             skipped == AfterSkipping(w.skipped_message_keys, link, b.counter)
             key1    == AdvanceChainKey([link.chain_key EXCEPT !.index = b.counter])
  <2> HIDE DEF w, i
  <2>1. e = [w EXCEPT !.skipped_message_keys = skipped, !.receiver_chains[i].chain_key = key1]
    BY <1>4 DEF AfterDecrypt, AfterDecryptOnChain, w, i, RatchetFields
  <2>2. key1 = [chain |-> path, index |-> c + 1]
    <3>1. \A n : [[chain |-> path, index |-> n] EXCEPT !.index = c] = [chain |-> path, index |-> c]
      OBVIOUS
    <3>2. [link.chain_key EXCEPT !.index = b.counter] = [chain |-> path, index |-> c]
      BY <1>2, <1>4, <3>1, Zenon
    <3>3. AdvanceChainKey([chain |-> path, index |-> c]) = [chain |-> path, index |-> c + 1]
      BY DEF AdvanceChainKey
    <3> QED BY <3>2, <3>3, Zenon
  <2> HIDE DEF link, skipped, key1
  <2>3. /\ e.root_key = w.root_key
        /\ e.sender_chain = w.sender_chain
        /\ e.receiver_chains = [w.receiver_chains EXCEPT ![i].chain_key = key1]
    BY <1>4, <2>1 DEF RatchetFields
  <2> QED BY <2>2, <2>3
<1>5. CASE ~AlreadyAdvanced(r, b) /\ ByOldChain(r, b)
  <2>1. w = r
    BY <1>5, Zenon DEF ByOldChain, WithReceiverChain
  <2>2. i \in DOMAIN r.receiver_chains /\ path = r.receiver_chains[i].chain_key.chain
    BY <1>5, <2>1, Zenon DEF ByOldChain
  <2> HIDE DEF w, i
  <2>3. DOMAIN r.receiver_chains[i] = {"ratchet_key", "chain_key"}
    BY <1>1, <2>2, Zenon DEF GoodReceiver
  <2>4. r.receiver_chains[i].chain_key = [chain |-> path, index |-> r.receiver_chains[i].chain_key.index]
    BY <2>2, RatchetParts
  <2>5. /\ e.root_key = r.root_key
        /\ e.sender_chain = r.sender_chain
        /\ e.receiver_chains =
             [r.receiver_chains EXCEPT ![i].chain_key = [chain |-> path, index |-> c + 1]]
    BY <1>1, <1>4, <1>5, <2>1, <2>2, <2>3, <2>4
  <2>6. OnOldChain(r, e, b, i)
    BY <2>2, <2>5, Zenon DEF OnOldChain
  <2> QED BY <2>6, Zenon DEF DecryptedTo
<1>6. CASE ~AlreadyAdvanced(r, b) /\ ByNewChain(r, b)
  <2>1. /\ ~HasReceiverChain(r, b.ratchet_key)
        /\ r.sender_chain # <<>>
        /\ path = Append(r.root_key, {r.sender_chain[1].ratchet_key, b.ratchet_key})
    BY <1>6, Zenon DEF ByNewChain
  <2> HIDE DEF w
  <2>2. /\ DOMAIN w = RatchetFields
        /\ w.root_key = path
        /\ w.sender_chain = <<>>
        /\ IsSequence(w.receiver_chains)
        /\ 1 \in DOMAIN w.receiver_chains
        /\ w.receiver_chains[1] = [ratchet_key |-> b.ratchet_key,
                                   chain_key   |-> [chain |-> path, index |-> 0]]
    <3>1. NewReceiverTo(r, b.ratchet_key, w)
      <4>1. w = WithReceiverChain(r, b.ratchet_key)
        BY DEF w
      <4>2. /\ keys \in Counts /\ opens \in Counts /\ p \in Device
            /\ GoodRatchet(r, p, keys, opens)
        OBVIOUS
      <4> QED BY ONLY <2>1, <4>1, <4>2, NewReceiverParts
    <3> HIDE DEF path
    <3> QED BY <2>1, <3>1, ReceiverChainsAssumption DEF NewReceiverTo
  <2>3. w.receiver_chains # <<>> /\ w.receiver_chains[1].ratchet_key = b.ratchet_key
    BY <2>2
  <2>4. i = 1
    BY <2>2, <2>3, ReceiverChainNewest
  <2> HIDE DEF i
  <2>5. /\ DOMAIN w.receiver_chains[i] = {"ratchet_key", "chain_key"}
        /\ w.receiver_chains[i].chain_key = [chain |-> path, index |-> 0]
    BY <2>2, <2>4
  <2>6. /\ w.receiver_chains[i].chain_key.chain = path
        /\ w.receiver_chains[i].chain_key
             = [chain |-> path, index |-> w.receiver_chains[i].chain_key.index]
    BY <2>5
  <2>7. /\ e.root_key = w.root_key
        /\ e.sender_chain = w.sender_chain
        /\ e.receiver_chains =
             [w.receiver_chains EXCEPT ![i].chain_key = [chain |-> path, index |-> c + 1]]
    BY <1>4, <1>6, <2>2, <2>4, <2>5, <2>6
  <2>8. /\ e.receiver_chains # <<>>
        /\ e.receiver_chains[1].ratchet_key = b.ratchet_key
        /\ e.receiver_chains[1].chain_key = [chain |-> path, index |-> c + 1]
    <3> HIDE DEF path, c
    <3>1. e.receiver_chains[1] = [w.receiver_chains[1] EXCEPT !.chain_key = [chain |-> path, index |-> c + 1]]
          /\ 1 \in DOMAIN e.receiver_chains
      BY <2>2, <2>4, <2>7
    <3>2. e.receiver_chains[1] = [ratchet_key |-> b.ratchet_key, chain_key |-> [chain |-> path, index |-> c + 1]]
      BY <2>2, <3>1
    <3> QED BY <3>1, <3>2
  <2>9. /\ e.receiver_chains[1].chain_key.chain = path
        /\ e.receiver_chains[1].chain_key.index = c + 1
    BY <2>8
  <2>10. OnNewChain(r, e, b)
    BY <2>1, <2>2, <2>7, <2>8, <2>9, Zenon DEF OnNewChain
  <2> QED BY <2>10, Zenon DEF DecryptedTo
<1> QED BY <1>3, <1>5, <1>6, DecryptsBy

(* Decryption keeps two ratchets in step when the peer is not behind the   *)
(* message: a new chain can only be the answer that leads.                 *)
LEMMA DecryptInStep ==
    ASSUME NEW keys \in Counts, NEW opens \in Counts, NEW p \in Device, NEW q \in Device,
           NEW r, GoodRatchet(r, p, keys, opens), Receiving(r),
           NEW s, GoodRatchet(s, q, keys, opens), Receiving(s),
           InStep(r, s),
           NEW b, GoodBody(b), SentBefore(s, b),
           NEW e, DecryptedTo(r, e, b)
    PROVE  InStep(e, s)
<1> DEFINE c == b.mac_key.index
<1>1. /\ Len(r.root_key) \in Nat /\ Len(s.root_key) \in Nat
      /\ IsSequence(r.root_key) /\ IsSequence(s.root_key)
      /\ s.sender_chain # <<>> => s.sender_chain[1].chain_key.index \in Nat
      /\ c \in Nat
  BY RatchetParts DEF GoodBody
<1>2. CASE /\ e.root_key = r.root_key
           /\ e.sender_chain = r.sender_chain
           /\ e.receiver_chains = r.receiver_chains
  <2>1. \A k : HasReceiverChain(e, k) <=> HasReceiverChain(r, k)
    BY <1>2 DEF HasReceiverChain
  <2> QED BY <1>2, <2>1, Zenon DEF InStep, Level, Leads, Follows
<1>3. ASSUME NEW i, OnOldChain(r, e, b, i) PROVE InStep(e, s)
  <2>1. /\ e.root_key = r.root_key
        /\ e.sender_chain = r.sender_chain
        /\ i \in DOMAIN r.receiver_chains
        /\ b.mac_key.chain = r.receiver_chains[i].chain_key.chain
        /\ e.receiver_chains =
              [r.receiver_chains EXCEPT ![i].chain_key = [chain |-> b.mac_key.chain,
                                                          index |-> c + 1]]
    BY <1>3 DEF OnOldChain
  <2> HIDE DEF c
  <2>2. /\ DOMAIN r.receiver_chains = 1 .. Len(r.receiver_chains)
        /\ Len(r.receiver_chains) \in Nat
        /\ GoodReceiver(r.receiver_chains, keys)
    BY RatchetParts DEF GoodRatchet
  <2>3. DOMAIN r.receiver_chains[i] = {"ratchet_key", "chain_key"}
    BY <2>1, <2>2 DEF GoodReceiver
  <2>4. /\ DOMAIN e.receiver_chains = DOMAIN r.receiver_chains
        /\ \A j \in DOMAIN r.receiver_chains :
             j # i => e.receiver_chains[j] = r.receiver_chains[j]
        /\ e.receiver_chains[i] = [r.receiver_chains[i] EXCEPT
                                     !.chain_key = [chain |-> b.mac_key.chain, index |-> c + 1]]
    BY <2>1
  <2>5. /\ e.receiver_chains[i].ratchet_key = r.receiver_chains[i].ratchet_key
        /\ e.receiver_chains[i].chain_key.chain = r.receiver_chains[i].chain_key.chain
        /\ e.receiver_chains[i].chain_key.index = c + 1
    BY <2>1, <2>3, <2>4
  <2>6. \A j \in DOMAIN r.receiver_chains :
          /\ e.receiver_chains[j].ratchet_key = r.receiver_chains[j].ratchet_key
          /\ e.receiver_chains[j].chain_key.chain = r.receiver_chains[j].chain_key.chain
    BY <2>4, <2>5
  <2>7. \A k : HasReceiverChain(e, k) <=> HasReceiverChain(r, k)
    BY <2>4, <2>6 DEF HasReceiverChain
  <2>8. 1 \in DOMAIN r.receiver_chains /\ e.receiver_chains # <<>>
    <3>1. 1 \in DOMAIN r.receiver_chains
      BY <2>1, <2>2
    <3>2. \A x : x = <<>> => DOMAIN x = {}
      OBVIOUS
    <3> QED BY <2>4, <3>1, <3>2
  <2>9. ASSUME Follows(r, s) PROVE Follows(e, s)
    <3>1. s.sender_chain # <<>>
      BY <2>9 DEF Follows
    <3>2. ASSUME i = 1
          PROVE  e.receiver_chains[1].chain_key.index <= s.sender_chain[1].chain_key.index
      <4>1. b.mac_key.chain = s.root_key
        BY <2>1, <2>9, <3>2 DEF Follows
      <4>2. c < s.sender_chain[1].chain_key.index
        BY <1>1, <4>1 DEF SentBefore, c
      <4> QED BY <1>1, <2>5, <3>1, <3>2, <4>2
    <3>3. ASSUME i # 1
          PROVE  e.receiver_chains[1].chain_key.index <= s.sender_chain[1].chain_key.index
      BY <2>4, <2>8, <2>9, <3>3 DEF Follows
    <3>4. e.receiver_chains[1].chain_key.index <= s.sender_chain[1].chain_key.index
      BY <3>2, <3>3
    <3> QED BY <2>6, <2>8, <2>9, <3>4, Zenon DEF Follows
  <2>10. Follows(s, r) => Follows(s, e)
    BY <2>1, Zenon DEF Follows
  <2> QED BY <2>1, <2>7, <2>9, <2>10, Zenon DEF InStep, Level, Leads
<1>4. CASE OnNewChain(r, e, b)
  <2>1. /\ r.sender_chain # <<>>
        /\ e.root_key = Append(r.root_key, {r.sender_chain[1].ratchet_key, b.ratchet_key})
        /\ e.root_key = b.mac_key.chain
        /\ e.sender_chain = <<>>
        /\ e.receiver_chains # <<>>
        /\ e.receiver_chains[1].ratchet_key = b.ratchet_key
        /\ e.receiver_chains[1].chain_key.chain = e.root_key
        /\ e.receiver_chains[1].chain_key.index = c + 1
    BY <1>4, Zenon DEF OnNewChain
  <2>2. Len(e.root_key) = Len(r.root_key) + 1
    BY <1>1, <2>1, SequenceAppend
  <2>3. Leads(r, s) => Len(r.root_key) = Len(s.root_key) + 1
    BY <1>1, SequenceAppend DEF Leads
  <2>4. Leads(s, r) => Len(s.root_key) = Len(r.root_key) + 1
    BY <1>1, SequenceAppend DEF Leads
  <2>5. Level(r, s) \/ Level(s, r) => Len(r.root_key) = Len(s.root_key)
    BY DEF Level
  <2>6. Len(b.mac_key.chain) <= Len(s.root_key)
    BY <1>1, <2>1, <2>2 DEF SentBefore
  <2>7. Leads(s, r)
    BY <1>1, <2>1, <2>2, <2>3, <2>5, <2>6 DEF InStep
  <2>8. /\ s.sender_chain # <<>>
        /\ b.mac_key.chain = s.root_key
        /\ b.ratchet_key = s.sender_chain[1].ratchet_key
        /\ c < s.sender_chain[1].chain_key.index
    BY <1>1, <2>1, <2>2, <2>4, <2>7 DEF SentBefore
  <2>9. c + 1 <= s.sender_chain[1].chain_key.index
    BY <1>1, <2>8
  <2>10. Level(e, s)
    BY <2>1, <2>8, <2>9, Zenon DEF Level, Follows
  <2> QED BY <2>10 DEF InStep
<1> QED BY <1>2, <1>3, <1>4, Zenon DEF DecryptedTo

(* A ratchet in step with another decrypts the next message of that one.   *)
LEMMA NextDecrypts ==
    ASSUME NEW keys \in Counts, NEW opens \in Counts, NEW p \in Device, NEW q \in Device,
           NEW r, GoodRatchet(r, p, keys, opens), Receiving(r),
           NEW s, GoodRatchet(s, q, keys, opens), Receiving(s),
           InStep(r, s), NEW plaintext,
           NEW b, b = EncryptedMessage(r, <<p, "ratchet", keys[p]>>, plaintext),
           b.counter <= MAX_MESSAGE_GAP
    PROVE  Decrypts(s, b)
<1> DEFINE fresh == <<p, "ratchet", keys[p]>>
           e     == AfterEncrypt(r, fresh)
<1>1. SendsNext(r, e, b, fresh)
  <2>1. /\ e = AfterEncrypt(r, fresh) /\ b = EncryptedMessage(r, fresh, plaintext)
        /\ keys \in Counts /\ opens \in Counts /\ p \in Device
        /\ GoodRatchet(r, p, keys, opens)
    OBVIOUS
  <2> HIDE DEF e, fresh
  <2> QED BY ONLY <2>1, EncryptSends
<1>2. /\ r.sender_chain # <<>> => e.root_key = r.root_key
      /\ r.sender_chain = <<>> =>
            e.root_key = Append(r.root_key, {fresh, r.receiver_chains[1].ratchet_key})
  <2>1. e = AfterEncrypt(r, fresh)
    OBVIOUS
  <2> HIDE DEF e, fresh
  <2> QED BY <2>1, EncryptParts
<1>3. ~HasReceiverChain(s, fresh)
  BY FreshHasNoChain
<1> HIDE DEF fresh, e
<1>4. /\ b.mac_key = [chain |-> e.root_key, index |-> b.counter]
      /\ b.counter \in Nat
      /\ r.sender_chain # <<>> => /\ b.ratchet_key = r.sender_chain[1].ratchet_key
                                  /\ b.counter = r.sender_chain[1].chain_key.index
      /\ r.sender_chain = <<>> => b.ratchet_key = fresh
  BY <1>1 DEF SendsNext
<1>5. ASSUME Follows(s, r) PROVE Decrypts(s, b)
  <2> DEFINE key == s.receiver_chains[1].chain_key
  <2>1. /\ r.sender_chain # <<>> /\ s.receiver_chains # <<>>
        /\ s.receiver_chains[1].ratchet_key = b.ratchet_key
        /\ key.chain = r.root_key
        /\ key.index <= b.counter
    BY <1>4, <1>5 DEF Follows
  <2>2. /\ IsSequence(s.receiver_chains)
        /\ key.index \in Nat
        /\ key = [chain |-> key.chain, index |-> key.index]
    BY <2>1, RatchetParts
  <2>3. HasReceiverChain(s, b.ratchet_key) /\ ReceiverChain(s, b.ratchet_key) = 1
    BY <2>1, <2>2, ReceiverChainNewest
  <2> HIDE DEF key
  <2>4. b.mac_key = [key EXCEPT !.index = b.counter]
    BY <1>2, <1>4, <2>1, <2>2
  <2>5. VerifiesOnChain(key, b)
    <3>1. b.counter >= key.index /\ b.counter - key.index <= MAX_MESSAGE_GAP
      BY <1>4, <2>1, <2>2, MessageGapAssumption
    <3> QED BY <2>4, <3>1 DEF VerifiesOnChain
  <2>6. ~AlreadyAdvanced(s, b)
    BY <1>4, <2>1, <2>2, <2>3 DEF AlreadyAdvanced, key
  <2> QED BY <2>3, <2>5, <2>6, Zenon DEF Decrypts, key
<1>6. ASSUME s.sender_chain # <<>>, ~HasReceiverChain(s, b.ratchet_key),
             e.root_key = Append(s.root_key, {s.sender_chain[1].ratchet_key, b.ratchet_key})
      PROVE  Decrypts(s, b)
  <2>1. NextRootKey(s, b.ratchet_key) = e.root_key
    BY <1>6 DEF NextRootKey, CreateRootKey, SharedSecret
  <2>2. VerifiesOnChain(NewChainKey(e.root_key), b)
    BY <1>4 DEF VerifiesOnChain, NewChainKey
  <2> QED BY <1>6, <2>1, <2>2, Zenon DEF Decrypts, VerifiesOnNewChain
<1>7. CASE Leads(r, s)
  BY <1>2, <1>4, <1>6, <1>7 DEF Leads, Follows
<1>8. CASE Level(r, s)
  <2>1. /\ r.sender_chain = <<>> /\ s.sender_chain # <<>>
        /\ r.root_key = s.root_key
        /\ r.receiver_chains[1].ratchet_key = s.sender_chain[1].ratchet_key
    BY <1>8 DEF Level, Follows
  <2>2. e.root_key = Append(s.root_key, {s.sender_chain[1].ratchet_key, b.ratchet_key})
    <3>1. {fresh, r.receiver_chains[1].ratchet_key} = {s.sender_chain[1].ratchet_key, b.ratchet_key}
      BY <1>4, <2>1
    <3> QED BY <1>2, <2>1, <3>1
  <2> QED BY <1>3, <1>4, <1>6, <2>1, <2>2
<1> QED BY <1>5, <1>7, <1>8 DEF InStep, Level, Leads

(* The ratchet a session is created with from a pre-key message follows    *)
(* the sender's, as long as that one is on its first chain.                *)
LEMMA OpenedLevel ==
    ASSUME NEW secret, NEW ratchet_key, NEW r, r = InitialiseAsBob(secret, ratchet_key),
           NEW s, s.root_key = <<secret>>, s.sender_chain # <<>>,
           s.sender_chain[1].ratchet_key = ratchet_key,
           s.sender_chain[1].chain_key.index \in Nat
    PROVE  InStep(r, s)
<1>1. /\ r.root_key = <<secret>> /\ r.sender_chain = <<>>
      /\ r.receiver_chains # <<>>
      /\ r.receiver_chains[1].ratchet_key = ratchet_key
      /\ r.receiver_chains[1].chain_key.chain = <<secret>>
      /\ r.receiver_chains[1].chain_key.index = 0
  BY DEF InitialiseAsBob, NewChainKey
<1>2. 0 <= s.sender_chain[1].chain_key.index
  OBVIOUS
<1> QED BY <1>1, <1>2, Zenon DEF InStep, Level, Follows

(* It decrypts any message of the sender's first chain.                    *)
LEMMA OpenedDecrypts ==
    ASSUME NEW secret, NEW b, b.counter \in Nat, b.counter <= MAX_MESSAGE_GAP,
           b.mac_key = [chain |-> <<secret>>, index |-> b.counter],
           NEW r, r = InitialiseAsBob(secret, b.ratchet_key)
    PROVE  Decrypts(r, b)
<1>1. /\ r.receiver_chains = <<[ratchet_key |-> b.ratchet_key,
                                chain_key   |-> [chain |-> <<secret>>, index |-> 0]]>>
  BY DEF InitialiseAsBob, NewChainKey
<1>2. /\ IsSequence(r.receiver_chains) /\ r.receiver_chains # <<>>
      /\ r.receiver_chains[1].ratchet_key = b.ratchet_key
      /\ r.receiver_chains[1].chain_key = [chain |-> <<secret>>, index |-> 0]
  BY <1>1 DEF IsSequence, Range
<1>3. HasReceiverChain(r, b.ratchet_key) /\ ReceiverChain(r, b.ratchet_key) = 1
  BY <1>2, ReceiverChainNewest
<1>4. VerifiesOnChain(r.receiver_chains[1].chain_key, b)
  BY <1>2 DEF VerifiesOnChain
<1>5. ~AlreadyAdvanced(r, b)
  BY <1>2, <1>3 DEF AlreadyAdvanced
<1> QED BY <1>3, <1>4, <1>5, Zenon DEF Decrypts

-----------------------------------------------------------------------------

(* The ids that sessions have.                                             *)
NamedId(id, opens) ==
    /\ id = <<id[1], id[2], id[3]>>
    /\ \E o \in Device : OpeningOf(id[1], id[2], id[3], o, opens)

(* They are told apart by the secret a session begins with.                *)
LEMMA NamedApart ==
    ASSUME NEW opens \in Counts, NEW id, NamedId(id, opens), NEW id2, NamedId(id2, opens),
           SecretOf(id) = SecretOf(id2)
    PROVE  id = id2
<1>1. PICK o \in Device : OpeningOf(id[1], id[2], id[3], o, opens)
  BY DEF NamedId
<1>2. PICK w \in Device : OpeningOf(id2[1], id2[2], id2[3], w, opens)
  BY DEF NamedId
<1>3. id[1] = id2[1] /\ id[2] = id2[2] /\ id[3] = id2[3]
  BY <1>1, <1>2, SecretNames
<1> QED BY <1>3 DEF NamedId

(* What the earlier invariants say of a session, live or pickled.          *)
LEMMA ObjectParts ==
    ASSUME KeysInv, ReadInv, NEW p \in Device, NEW x \in ObjectsOf(p)
    PROVE  /\ generated \in Counts /\ opened \in Counts
           /\ GoodRatchet(x.ratchet, p, generated, opened)
           /\ Receiving(x.ratchet)
           /\ x.ratchet.root_key[1] = SecretOf(SessionId(x))
           /\ FirstChain(x)
           /\ NamedId(SessionId(x), opened)
<1>1. PICK s \in Slot : x \in SessionsOf(p, s)
  BY DEF ObjectsOf
<1>2. GoodObject(x, p, generated, opened, sent[p])
  BY <1>1, ObjectsGood
<1>3. ReceivesGood(x, generated)
  BY <1>1 DEF ReadInv, ReceiversGood
<1>4. NamedId(SessionId(x), opened)
  <2>1. PICK o \in Device :
           OpeningOf(x.alice_identity_key, x.alice_base_key, x.bob_one_time_key, o, opened)
    BY <1>2 DEF GoodObject, GoodId
  <2>2. /\ SessionId(x)[1] = x.alice_identity_key
        /\ SessionId(x)[2] = x.alice_base_key
        /\ SessionId(x)[3] = x.bob_one_time_key
        /\ SessionId(x) = <<x.alice_identity_key, x.alice_base_key, x.bob_one_time_key>>
    BY DEF SessionId
  <2> QED BY <2>1, <2>2 DEF NamedId
<1>5. generated \in Counts /\ opened \in Counts
  BY DEF KeysInv, Types
<1> QED BY <1>2, <1>3, <1>4, <1>5 DEF GoodObject, ReceivesGood

(* The objects of a device are its live sessions and its pickles.          *)
LEMMA ObjectsAre ==
    ASSUME NEW p \in Device
    PROVE  /\ \A x : x \in ObjectsOf(p) <=>
                 \E s \in Slot : \/ session[p][s].created /\ x = session[p][s]
                                 \/ stored[p].session[s] # NoPickle /\ x = stored[p].session[s]
           /\ \A id : id \in LiveIds(p) <=>
                 \E s \in Slot : session[p][s].created /\ id = SessionId(session[p][s])
           /\ \A id : id \in StoredIds(p) <=>
                 \E s \in Slot : /\ stored[p].session[s] # NoPickle
                                 /\ id = SessionId(stored[p].session[s])
<1>1. \A x : x \in ObjectsOf(p) <=>
                 \E s \in Slot : \/ session[p][s].created /\ x = session[p][s]
                                 \/ stored[p].session[s] # NoPickle /\ x = stored[p].session[s]
  BY DEF ObjectsOf, SessionsOf
<1>2. \A id : id \in LiveIds(p) <=>
                 \E s \in Slot : session[p][s].created /\ id = SessionId(session[p][s])
  BY DEF LiveIds
<1>3. \A id : id \in StoredIds(p) <=>
                 \E s \in Slot : /\ stored[p].session[s] # NoPickle
                                 /\ id = SessionId(stored[p].session[s])
  BY DEF StoredIds
<1> QED BY <1>1, <1>2, <1>3

(* The ids of pickles and of deleted sessions.                             *)
LEMMA DurableIds ==
    ASSUME KeysInv, ReadInv, NEW p \in Device
    PROVE  /\ \A id \in StoredIds(p) \cup forgotten[p] : NamedId(id, opened)
           /\ StoredIds(p) \subseteq LiveIds(p)
<1>1. \A id \in forgotten[p] : NamedId(id, opened)
  BY DEF ReadInv, ForgottenGood, NamedId
<1>2. ASSUME NEW id \in StoredIds(p)
      PROVE  NamedId(id, opened) /\ id \in LiveIds(p)
  <2>1. PICK s \in Slot : stored[p].session[s] # NoPickle /\ id = SessionId(stored[p].session[s])
    BY ObjectsAre
  <2>2. stored[p].session[s] \in ObjectsOf(p)
    BY <2>1, ObjectsAre
  <2>3. session[p][s].created /\ id = SessionId(session[p][s])
    BY <2>1 DEF KeysInv, IInv, PicklesFollow
  <2> QED BY <2>1, <2>2, <2>3, ObjectParts, ObjectsAre
<1> QED BY <1>1, <1>2

(* The same for the messages.                                              *)
LEMMA LetterParts ==
    ASSUME KeysInv, ReadInv, NEW p \in Device, NEW i \in DOMAIN sent[p]
    PROVE  LET m == sent[p][i]
           IN  /\ GoodBody(m.body)
               /\ IsSequence(m.body.mac_key.chain)
               /\ m.type = "PRE_KEY" =>
                     /\ NamedId(MessageId(m), opened)
                     /\ m.body.mac_key.chain[1] = SecretOf(MessageId(m))
<1> DEFINE m == sent[p][i]
<1>1. GoodMessage(m, p, generated, opened)
  BY DEF KeysInv, MessagesGood
<1>2. SentGood(m, i, generated)
  BY DEF ReadInv, LettersGood
<1>3. GoodBody(m.body)
  BY GoodLetter
<1> HIDE DEF m
<1>4. IsSequence(m.body.mac_key.chain)
  BY <1>1, Zenon DEF GoodMessage, TurnOf
<1>5. ASSUME m.type = "PRE_KEY"
      PROVE  /\ NamedId(MessageId(m), opened)
             /\ m.body.mac_key.chain[1] = SecretOf(MessageId(m))
  <2>1. /\ MessageId(m)[1] = m.identity_key
        /\ MessageId(m)[2] = m.base_key
        /\ MessageId(m)[3] = m.one_time_key
        /\ MessageId(m) = <<m.identity_key, m.base_key, m.one_time_key>>
    BY DEF MessageId
  <2>2. NamedId(MessageId(m), opened)
    BY <1>1, <1>5, <2>1 DEF GoodMessage, NamedId
  <2>3. m.body.mac_key.chain[1] = SecretOf(MessageId(m))
    BY <1>2, <1>5, <2>1 DEF SentGood
  <2> QED BY <2>2, <2>3
<1> QED BY <1>3, <1>4, <1>5 DEF m

(* A deletion is one of either device.                                     *)
LEMMA GoneParts ==
    ASSUME NEW p \in Device
    PROVE  Gone = forgotten[p] \cup forgotten[Peer(p)]
  BY Devices DEF Gone, Device

LEMMA InStepBoth ==
    ASSUME NEW r, NEW s, InStep(r, s)
    PROVE  InStep(s, r)
  BY DEF InStep

-----------------------------------------------------------------------------
(* How the invariant carries over a step.                                  *)

(* No message of the session id is sent by q in this step.                 *)
Unsent(id, q) ==
    \A i \in DOMAIN sent'[q] :
        sent'[q][i].body.mac_key.chain[1] = SecretOf(id)
          => i \in DOMAIN sent[q] /\ sent'[q][i] = sent[q][i]

LEMMA SameParts ==
    ASSUME NEW x, NEW y, Same(x, y)
    PROVE  /\ x.ratchet = y.ratchet /\ SessionId(x) = SessionId(y)
           /\ x.received_message = y.received_message
           /\ x.alice_identity_key = y.alice_identity_key
           /\ x.alice_base_key = y.alice_base_key
           /\ x.bob_one_time_key = y.bob_one_time_key
<1>1. x.ratchet = y.ratchet /\ SessionId(x) = SessionId(y)
      /\ x.received_message = y.received_message
  BY DEF Same, Like
<1> QED BY <1>1 DEF SessionId

LEMMA SameReaching ==
    ASSUME NEW x, NEW y, Same(x, y), NEW p \in Device,
           NEW gone, NEW gone2, gone \subseteq gone2,
           NEW ids, NEW ids2, ids \subseteq ids2 \cup gone2,
           NEW deleted, NEW deleted2, deleted \subseteq deleted2,
           NEW messages, NEW messages2,
           Len(messages) \in Nat, Len(messages2) \in Nat, Len(messages) <= Len(messages2),
           \A i \in DOMAIN messages2 :
              messages2[i].body.mac_key.chain[1] = SecretOf(SessionId(y))
                => i \in DOMAIN messages /\ messages2[i] = messages[i],
           y.ratchet.sender_chain # <<>> => y.ratchet.sender_chain[1].chain_key.index \in Nat,
           Reaching(y, p, gone, ids, deleted, messages)
    PROVE  Reaching(x, p, gone2, ids2, deleted2, messages2)
<1>1. /\ x.ratchet = y.ratchet /\ SessionId(x) = SessionId(y)
      /\ x.received_message = y.received_message
      /\ x.alice_identity_key = y.alice_identity_key
      /\ x.alice_base_key = y.alice_base_key
  BY SameParts
<1>2. FirstOne(x, p)
  BY <1>1 DEF Reaching, FirstOne
<1>3. Partnered(x, p, gone2, ids2)
  BY <1>1 DEF Reaching, Partnered
<1>4. Behind(x, deleted2, messages2)
  BY <1>1 DEF Reaching, Behind
<1>5. FewOn(x.ratchet, Len(messages2))
  BY <1>1 DEF Reaching, FewOn
<1> QED BY <1>2, <1>3, <1>4, <1>5 DEF Reaching

(* Each session after a step is one of before, or a new one of p.          *)
LEMMA RatchetsStep ==
    ASSUME KeysInv, ReadInv, RatchetsReach, NEW p \in Device, NEW news,
           \A q \in Device : /\ forgotten[q] \subseteq forgotten'[q]
                             /\ Len(sent[q]) \in Nat /\ Len(sent'[q]) \in Nat
                             /\ Len(sent[q]) <= Len(sent'[q])
                             /\ StoredIds(q) \subseteq StoredIds(q)' \cup forgotten'[q],
           \A q \in Device : \A x \in ObjectsOf(q)' :
              \/ \E y \in ObjectsOf(q) : Same(x, y) /\ Unsent(SessionId(y), q)
              \/ q = p /\ \E y \in news : Same(x, y),
           \A y \in news :
              /\ Reaching(y, p, Gone', StoredIds(Peer(p))', forgotten'[p], sent'[p])
              /\ Paired(y, ObjectsOf(Peer(p)), Gone')
              /\ FewOn(y.ratchet, Len(sent'[p]))
              /\ y.ratchet.sender_chain # <<>> =>
                    y.ratchet.sender_chain[1].chain_key.index \in Nat
    PROVE  RatchetsReach'
<1>1. Gone \subseteq Gone'
  BY Devices DEF Gone
<1>2. \A q \in Device : Peer(q) \in Device /\ forgotten'[q] \subseteq Gone'
  BY Devices, GoneParts DEF Gone, Device
<1>3. ASSUME NEW q \in Device, NEW x \in ObjectsOf(q)'
      PROVE  Reaching(x, q, Gone', StoredIds(Peer(q))', forgotten'[q], sent'[q])
  <2>1. ASSUME NEW y \in ObjectsOf(q), Same(x, y), Unsent(SessionId(y), q)
        PROVE  Reaching(x, q, Gone', StoredIds(Peer(q))', forgotten'[q], sent'[q])
    <3>1. Reaching(y, q, Gone, StoredIds(Peer(q)), forgotten[q], sent[q])
      BY DEF RatchetsReach
    <3>2. \A i \in DOMAIN sent'[q] :
             sent'[q][i].body.mac_key.chain[1] = SecretOf(SessionId(y))
               => i \in DOMAIN sent[q] /\ sent'[q][i] = sent[q][i]
      BY <2>1 DEF Unsent
    <3>3. y.ratchet.sender_chain # <<>> => y.ratchet.sender_chain[1].chain_key.index \in Nat
      <4>1. /\ generated \in Counts /\ opened \in Counts
            /\ GoodRatchet(y.ratchet, q, generated, opened) /\ Receiving(y.ratchet)
        BY ObjectParts
      <4> QED BY <4>1, RatchetParts
    <3>4. StoredIds(Peer(q)) \subseteq StoredIds(Peer(q))' \cup Gone'
      BY <1>2
    <3>5. /\ forgotten[q] \subseteq forgotten'[q]
          /\ Len(sent[q]) \in Nat /\ Len(sent'[q]) \in Nat /\ Len(sent[q]) <= Len(sent'[q])
      OBVIOUS
    <3> QED BY <1>1, <2>1, <3>1, <3>2, <3>3, <3>4, <3>5, SameReaching
  <2>2. ASSUME q = p, NEW y \in news, Same(x, y)
        PROVE  Reaching(x, q, Gone', StoredIds(Peer(q))', forgotten'[q], sent'[q])
    <3>1. Reaching(y, q, Gone', StoredIds(Peer(q))', forgotten'[q], sent'[q])
      BY <2>2
    <3>2. y.ratchet.sender_chain # <<>> => y.ratchet.sender_chain[1].chain_key.index \in Nat
      OBVIOUS
    <3>3. Len(sent'[q]) \in Nat /\ Len(sent'[q]) <= Len(sent'[q])
      OBVIOUS
    <3>4. \A i \in DOMAIN sent'[q] : i \in DOMAIN sent'[q] /\ sent'[q][i] = sent'[q][i]
      OBVIOUS
    <3> QED BY <2>2, <3>1, <3>2, <3>3, <3>4, SameReaching
  <2> QED BY <2>1, <2>2
<1>4. ASSUME NEW q \in Device, NEW x \in ObjectsOf(q)', NEW y \in ObjectsOf(Peer(q))',
             SessionId(x) \notin Gone', SessionId(y) = SessionId(x)
      PROVE  InStep(x.ratchet, y.ratchet)
  <2>0. Peer(q) \in Device /\ Peer(q) # q /\ Peer(Peer(q)) = q
    BY Devices
  <2>1. ASSUME NEW v \in ObjectsOf(q), Same(x, v), NEW w \in ObjectsOf(Peer(q)), Same(y, w)
        PROVE  InStep(x.ratchet, y.ratchet)
    <3>1. /\ x.ratchet = v.ratchet /\ SessionId(x) = SessionId(v)
          /\ y.ratchet = w.ratchet /\ SessionId(y) = SessionId(w)
      BY <2>1, SameParts
    <3>2. Paired(v, ObjectsOf(Peer(q)), Gone)
      BY DEF RatchetsReach
    <3> QED BY <1>1, <1>4, <3>1, <3>2 DEF Paired
  <2>2. ASSUME q = p, NEW v \in news, Same(x, v), NEW w \in ObjectsOf(Peer(q)), Same(y, w)
        PROVE  InStep(x.ratchet, y.ratchet)
    <3>1. /\ x.ratchet = v.ratchet /\ SessionId(x) = SessionId(v)
          /\ y.ratchet = w.ratchet /\ SessionId(y) = SessionId(w)
      BY <2>2, SameParts
    <3>2. Paired(v, ObjectsOf(Peer(q)), Gone')
      BY <2>2
    <3> QED BY <1>4, <3>1, <3>2 DEF Paired
  <2>3. ASSUME Peer(q) = p, NEW v \in news, Same(y, v), NEW w \in ObjectsOf(q), Same(x, w)
        PROVE  InStep(x.ratchet, y.ratchet)
    <3>1. /\ x.ratchet = w.ratchet /\ SessionId(x) = SessionId(w)
          /\ y.ratchet = v.ratchet /\ SessionId(y) = SessionId(v)
      BY <2>3, SameParts
    <3>2. Paired(v, ObjectsOf(q), Gone')
      BY <2>0, <2>3
    <3>3. InStep(y.ratchet, x.ratchet)
      BY <1>4, <3>1, <3>2 DEF Paired
    <3> QED BY <3>3, InStepBoth
  <2> QED BY <2>0, <2>1, <2>2, <2>3
<1>5. \A q \in Device : \A x \in ObjectsOf(q)' : Paired(x, ObjectsOf(Peer(q))', Gone')
  BY <1>4 DEF Paired
<1> QED BY <1>3, <1>5 DEF RatchetsReach

(* A step that sends nothing.                                              *)
LEMMA LettersKept ==
    ASSUME LettersReach, UNCHANGED sent,
           \A q \in Device :
              StoredIds(q) \cup forgotten[q] \subseteq StoredIds(q)' \cup forgotten'[q]
    PROVE  LettersReach'
  BY DEF LettersReach

(* A step that neither claims nor removes a key nor uses another id.       *)
LEMMA KeysStay ==
    ASSUME KeysClaimed, KeysKept, UNCHANGED <<claimed, one_time_keys>>,
           \A q \in Device : stored'[q].one_time_keys = stored[q].one_time_keys,
           UsedIds' \subseteq UsedIds, Gone \subseteq Gone',
           \A q \in Device : /\ LiveIds(q) \subseteq LiveIds(q)' \cup Gone'
                             /\ StoredIds(q) \subseteq StoredIds(q)' \cup Gone'
    PROVE  KeysClaimed' /\ KeysKept'
<1>1. KeysClaimed'
  BY DEF KeysClaimed
<1>2. KeysKept'
  BY DEF KeysKept
<1> QED BY <1>1, <1>2

(* The ids there are, one by one.                                          *)
UsedParts ==
    \A id : id \in UsedIds <=>
       \/ \E q \in Device : \E x \in ObjectsOf(q) : id = SessionId(x)
       \/ \E q \in Device : \E i \in DOMAIN sent[q] :
             sent[q][i].type = "PRE_KEY" /\ id = MessageId(sent[q][i])

LEMMA UsedAre == UsedParts
<1> DEFINE ofSessions == UNION {{SessionId(x) : x \in ObjectsOf(q)} : q \in Device}
           letters(q) == {l \in Range(sent[q]) : l.type = "PRE_KEY"}
           ofLetters == UNION {{MessageId(m) : m \in letters(q)} : q \in Device}
<1>1. \A id : id \in ofSessions <=> \E q \in Device : \E x \in ObjectsOf(q) : id = SessionId(x)
  OBVIOUS
<1>2. \A q : \A m : m \in letters(q) <=>
         \E i \in DOMAIN sent[q] : m = sent[q][i] /\ sent[q][i].type = "PRE_KEY"
  BY DEF Range
<1> HIDE DEF letters
<1>3. \A id : id \in ofLetters <=> \E q \in Device : \E m \in letters(q) : id = MessageId(m)
  OBVIOUS
<1>4. \A id : id \in ofLetters <=>
         \E q \in Device : \E i \in DOMAIN sent[q] :
             sent[q][i].type = "PRE_KEY" /\ id = MessageId(sent[q][i])
  BY <1>2, <1>3
<1>5. UsedIds = ofSessions \cup ofLetters
  BY Zenon DEF UsedIds, letters
<1> HIDE DEF ofSessions, ofLetters
<1> QED BY <1>1, <1>4, <1>5 DEF UsedParts

(* Whose opening it is and whose one-time key it took.                     *)
LEMMA NamedParts ==
    ASSUME NEW opens \in Counts, NEW id, NamedId(id, opens), NEW p \in Device
    PROVE  /\ id[1] = Identity(p) \/ id[1] = Identity(Peer(p))
           /\ id[1] = Identity(Peer(p)) <=> id[3] \in KeysOf(p)
           /\ id[1] = Identity(p) => id[1] # Identity(Peer(p)) /\ id[3] \in KeysOf(Peer(p))
<1>1. PICK o \in Device : id[1] = Identity(o) /\ id[3] \in KeysOf(Peer(o))
  BY DEF NamedId, OpeningOf
<1>2. o = p \/ o = Peer(p)
  BY Devices
<1>3. Peer(p) # p /\ Peer(Peer(p)) = p
  BY Devices
<1>4. \A d, c : Identity(d) = Identity(c) => d = c
  BY DEF Identity
<1>5. \A d, key : key \in KeysOf(d) => key[1] = d
  BY DEF KeysOf, PublishedKeys, FallbackKey
<1> QED BY <1>1, <1>2, <1>3, <1>4, <1>5

(* A step that makes no session, no message and no opening.                *)
LEMMA NothingNewReach ==
    ASSUME KeysInv, ReadInv, ReachInv, UNCHANGED <<sent, claimed>>,
           \A q \in Device : /\ forgotten[q] \subseteq forgotten'[q]
                             /\ StoredIds(q) \subseteq StoredIds(q)' \cup forgotten'[q],
           \A q \in Device : \A x \in ObjectsOf(q)' : \E y \in ObjectsOf(q) : Same(x, y)
    PROVE  /\ RatchetsReach' /\ LettersReach' /\ FewSent'
           /\ UsedIds' \subseteq UsedIds
           /\ Gone \subseteq Gone'
<1>1. FewSent'
  BY DEF ReachInv, FewSent
<1>2. LettersReach'
  BY LettersKept DEF ReachInv
<1>3. Gone \subseteq Gone'
  BY Devices DEF Gone
<1>4. UsedIds' \subseteq UsedIds
  <2> SUFFICES ASSUME NEW id \in UsedIds' PROVE id \in UsedIds
    OBVIOUS
  <2>1. \/ \E q \in Device : \E x \in ObjectsOf(q)' : id = SessionId(x)
        \/ \E q \in Device : \E i \in DOMAIN sent[q] :
              sent[q][i].type = "PRE_KEY" /\ id = MessageId(sent[q][i])
    <3>1. \/ \E q \in Device : \E x \in ObjectsOf(q)' : id = SessionId(x)
          \/ \E q \in Device : \E i \in DOMAIN sent'[q] :
                sent'[q][i].type = "PRE_KEY" /\ id = MessageId(sent'[q][i])
      <4>1. UsedParts'
        BY UsedAre, PTL
      <4> QED BY <4>1 DEF UsedParts
    <3> QED BY <3>1
  <2>2. ASSUME NEW q \in Device, NEW x \in ObjectsOf(q)', id = SessionId(x)
        PROVE  id \in UsedIds
    BY <2>2, SameParts, UsedAre DEF UsedParts
  <2> QED BY <2>1, <2>2, UsedAre DEF UsedParts
<1>5. RatchetsReach'
  <2> DEFINE news == {}
  <2>1. \A q \in Device : Len(sent[q]) \in Nat
    BY DEF KeysInv, IInv, Shape
  <2>2. \A q \in Device : /\ forgotten[q] \subseteq forgotten'[q]
                          /\ Len(sent[q]) \in Nat /\ Len(sent'[q]) \in Nat
                          /\ Len(sent[q]) <= Len(sent'[q])
                          /\ StoredIds(q) \subseteq StoredIds(q)' \cup forgotten'[q]
    BY <2>1
  <2>3. \A q \in Device : \A x \in ObjectsOf(q)' :
              \/ \E y \in ObjectsOf(q) : Same(x, y) /\ Unsent(SessionId(y), q)
              \/ q = Alice /\ \E y \in news : Same(x, y)
    BY DEF Unsent
  <2>4. \A y \in news :
              /\ Reaching(y, Alice, Gone', StoredIds(Peer(Alice))', forgotten'[Alice], sent'[Alice])
              /\ Paired(y, ObjectsOf(Peer(Alice)), Gone')
              /\ FewOn(y.ratchet, Len(sent'[Alice]))
              /\ y.ratchet.sender_chain # <<>> =>
                    y.ratchet.sender_chain[1].chain_key.index \in Nat
    OBVIOUS
  <2>5. Alice \in Device /\ KeysInv /\ ReadInv /\ RatchetsReach
    BY Devices DEF ReachInv
  <2> HIDE DEF news
  <2> QED BY ONLY <2>2, <2>3, <2>4, <2>5, RatchetsStep
<1> QED BY <1>1, <1>2, <1>3, <1>4, <1>5

(* _olm_session_pickle.                                                    *)
LEMMA PickleReach ==
    ASSUME KeysInv, ReadInv, ReachInv, NEW p \in Device, NEW s \in Slot, PickleSession(p, s)
    PROVE  ReachInv'
<1>1. /\ session[p][s].created
      /\ stored' = [stored EXCEPT ![p].session[s] = PickledSession(session[p][s]),
                                  ![p].read[s]    = read[p][s]]
      /\ UNCHANGED <<one_time_keys, session, claimed, opened, sent, forgotten>>
  BY DEF PickleSession
<1>2. /\ \A q \in Device, t \in Slot :
           stored'[q].session[t] = IF q = p /\ t = s THEN PickledSession(session[p][s])
                                   ELSE stored[q].session[t]
      /\ \A q \in Device : stored'[q].one_time_keys = stored[q].one_time_keys
  BY <1>1 DEF KeysInv, IInv, Shape
<1>3. \A q \in Device : LiveIds(q)' = LiveIds(q)
  BY <1>1 DEF LiveIds
<1>4. SessionId(PickledSession(session[p][s])) = SessionId(session[p][s])
      /\ PickledSession(session[p][s]) # NoPickle
  BY UnpickledFields, SamePickled
<1>5. ASSUME NEW q \in Device, NEW id \in StoredIds(q) PROVE id \in StoredIds(q)'
  <2>1. PICK t \in Slot : stored[q].session[t] # NoPickle /\ id = SessionId(stored[q].session[t])
    BY ObjectsAre
  <2>2. stored'[q].session[t] # NoPickle /\ id = SessionId(stored'[q].session[t])
    BY <1>2, <1>4, <2>1 DEF KeysInv, IInv, PicklesFollow
  <2> QED BY <2>2 DEF StoredIds, NoPickle
<1>6. ASSUME NEW q \in Device, NEW x \in ObjectsOf(q)'
      PROVE  \E y \in ObjectsOf(q) : Same(x, y)
  <2>1. PICK t \in Slot : x \in SessionsOf(q, t)'
    BY DEF ObjectsOf
  <2>2. \/ x = session[q][t] /\ x.created
        \/ x = stored'[q].session[t] /\ x # NoPickle
    BY <1>1, <2>1 DEF SessionsOf, NoPickle
  <2>3. \/ x \in SessionsOf(q, t)
        \/ q = p /\ t = s /\ x = PickledSession(session[p][s])
    BY <1>2, <2>2 DEF SessionsOf
  <2>4. session[p][s] \in ObjectsOf(p) /\ (x \in SessionsOf(q, t) => x \in ObjectsOf(q))
    BY <1>1 DEF ObjectsOf, SessionsOf
  <2> QED BY <2>3, <2>4, SamePickled
<1>7. /\ RatchetsReach' /\ LettersReach' /\ FewSent'
      /\ UsedIds' \subseteq UsedIds /\ Gone \subseteq Gone'
  <2>1. \A q \in Device : /\ forgotten[q] \subseteq forgotten'[q]
                          /\ StoredIds(q) \subseteq StoredIds(q)' \cup forgotten'[q]
    BY <1>1, <1>5
  <2> QED BY <1>1, <1>6, <2>1, NothingNewReach
<1>8. KeysClaimed' /\ KeysKept'
  <2>1. \A q \in Device : /\ LiveIds(q) \subseteq LiveIds(q)' \cup Gone'
                          /\ StoredIds(q) \subseteq StoredIds(q)' \cup Gone'
    BY <1>3, <1>5
  <2> QED BY <1>1, <1>2, <1>7, <2>1, KeysStay DEF ReachInv
<1> QED BY <1>7, <1>8 DEF ReachInv

(* The application deletes a session: all that may miss it is about its id. *)
LEMMA ForgetReach ==
    ASSUME KeysInv, ReadInv, ReachInv, NEW p \in Device, NEW s \in Slot, Forget(p, s)
    PROVE  ReachInv'
<1> DEFINE old == session[p][s]
<1>1. /\ old.created
      /\ session' = [session EXCEPT ![p][s] = SessionInit]
      /\ stored' = [stored EXCEPT ![p].session[s] = NoPickle,
                                  ![p].read[s]    = read[p][s]]
      /\ forgotten' = [forgotten EXCEPT ![p] = @ \cup {SessionId(old)}]
      /\ UNCHANGED <<one_time_keys, claimed, opened, sent>>
  BY DEF Forget
<1>2. /\ \A q \in Device, t \in Slot :
           session'[q][t] = IF q = p /\ t = s THEN SessionInit ELSE session[q][t]
      /\ \A q \in Device, t \in Slot :
           stored'[q].session[t] = IF q = p /\ t = s THEN NoPickle
                                   ELSE stored[q].session[t]
      /\ \A q \in Device : stored'[q].one_time_keys = stored[q].one_time_keys
      /\ ~SessionInit.created
  BY <1>1 DEF KeysInv, IInv, Shape, SessionInit
<1>3. \A q \in Device :
        forgotten'[q] = IF q = p THEN forgotten[p] \cup {SessionId(old)} ELSE forgotten[q]
  BY <1>1 DEF ReadInv, ReadShape
<1>4. SessionId(old) \in Gone' /\ \A q \in Device : forgotten'[q] \subseteq Gone'
  BY <1>3, GoneParts, Devices DEF Gone, Device
<1>5. ASSUME NEW q \in Device, NEW id \in LiveIds(q) PROVE id \in LiveIds(q)' \cup Gone'
  <2>1. PICK t \in Slot : session[q][t].created /\ id = SessionId(session[q][t])
    BY ObjectsAre
  <2>2. CASE q = p /\ t = s
    BY <1>4, <2>1, <2>2
  <2>3. CASE ~(q = p /\ t = s)
    BY <1>2, <2>1, <2>3 DEF LiveIds
  <2> QED BY <2>2, <2>3
<1>6. ASSUME NEW q \in Device, NEW id \in StoredIds(q)
      PROVE  id \in StoredIds(q)' \cup forgotten'[q]
  <2>1. PICK t \in Slot : stored[q].session[t] # NoPickle /\ id = SessionId(stored[q].session[t])
    BY ObjectsAre
  <2>2. CASE q = p /\ t = s
    <3>1. id = SessionId(old)
      BY <2>1, <2>2 DEF KeysInv, IInv, PicklesFollow
    <3> QED BY <1>3, <2>2, <3>1
  <2>3. CASE ~(q = p /\ t = s)
    BY <1>2, <2>1, <2>3 DEF StoredIds, NoPickle
  <2> QED BY <2>2, <2>3
<1>7. ASSUME NEW q \in Device, NEW x \in ObjectsOf(q)'
      PROVE  \E y \in ObjectsOf(q) : Same(x, y)
  <2>1. x \in ObjectsOf(q)
    BY <1>2 DEF ObjectsOf, SessionsOf
  <2> QED BY <2>1, SamePickled
<1> HIDE DEF old
<1>8. \A q \in Device : forgotten[q] \subseteq forgotten'[q]
  BY <1>3
<1>9. /\ RatchetsReach' /\ LettersReach' /\ FewSent'
      /\ UsedIds' \subseteq UsedIds /\ Gone \subseteq Gone'
  <2>1. \A q \in Device : /\ forgotten[q] \subseteq forgotten'[q]
                          /\ StoredIds(q) \subseteq StoredIds(q)' \cup forgotten'[q]
    BY <1>6, <1>8
  <2> QED BY <1>1, <1>7, <2>1, NothingNewReach
<1>10. KeysClaimed' /\ KeysKept'
  <2>1. \A q \in Device : /\ LiveIds(q) \subseteq LiveIds(q)' \cup Gone'
                          /\ StoredIds(q) \subseteq StoredIds(q)' \cup Gone'
    BY <1>4, <1>5, <1>6
  <2> QED BY <1>1, <1>2, <1>9, <2>1, KeysStay DEF ReachInv
<1> QED BY <1>9, <1>10 DEF ReachInv

(* A step that leaves the sessions alone.                                  *)
LEMMA SessionsLeft ==
    ASSUME KeysInv, ReadInv, ReachInv, UNCHANGED <<session, sent, claimed, forgotten>>,
           \A q \in Device : stored'[q].session = stored[q].session
    PROVE  /\ RatchetsReach' /\ LettersReach' /\ FewSent'
           /\ UsedIds' \subseteq UsedIds
           /\ Gone' = Gone
           /\ \A q \in Device : LiveIds(q)' = LiveIds(q) /\ StoredIds(q)' = StoredIds(q)
<1>1. \A q \in Device : /\ LiveIds(q)' = LiveIds(q) /\ StoredIds(q)' = StoredIds(q)
                        /\ ObjectsOf(q)' = ObjectsOf(q)
  BY DEF LiveIds, StoredIds, ObjectsOf, SessionsOf, NoPickle
<1>2. Gone' = Gone
  BY DEF Gone
<1>3. /\ \A q \in Device : /\ forgotten[q] \subseteq forgotten'[q]
                           /\ StoredIds(q) \subseteq StoredIds(q)' \cup forgotten'[q]
      /\ \A q \in Device : \A x \in ObjectsOf(q)' : \E y \in ObjectsOf(q) : Same(x, y)
  BY <1>1, SamePickled
<1> QED BY <1>1, <1>2, <1>3, NothingNewReach

(* A one-time key is no fallback key.                                      *)
LEMMA NoFallback ==
    ASSUME NEW p, NEW q, NEW key \in PublishedKeys(p)
    PROVE  key # FallbackKey(q)
  BY DEF PublishedKeys, FallbackKey

(* olm_remove_one_time_keys: only its own session has use for the key.     *)
LEMMA RemoveReach ==
    ASSUME KeysInv, ReadInv, ReachInv, NEW p \in Device, NEW s \in Slot, RemoveOneTimeKeys(p, s)
    PROVE  ReachInv'
<1> DEFINE x   == session[p][s]
           key == x.bob_one_time_key
<1>1. /\ x.created /\ key \in one_time_keys[p]
      /\ one_time_keys' = [one_time_keys EXCEPT ![p] = @ \ {key}]
      /\ UNCHANGED <<session, stored, claimed, sent, forgotten>>
  BY DEF RemoveOneTimeKeys
<1>2. \A q \in Device : one_time_keys'[q] = IF q = p THEN one_time_keys[q] \ {key}
                                            ELSE one_time_keys[q]
  BY <1>1 DEF KeysInv, Types
<1>3. x \in ObjectsOf(p) /\ SessionId(x) \in LiveIds(p) /\ SessionId(x)[3] = key
  BY <1>1, ObjectsAre DEF SessionId
<1> HIDE DEF x, key
<1>4. key \in PublishedKeys(p)
  BY <1>1 DEF KeysInv, Types
<1>5. \A q : key # FallbackKey(q)
  BY <1>4, NoFallback
<1>6. SessionId(x) \in UsedIds
  BY <1>3, UsedAre DEF UsedParts
<1>7. /\ RatchetsReach' /\ LettersReach' /\ FewSent'
      /\ UsedIds' \subseteq UsedIds /\ Gone' = Gone
      /\ \A q \in Device : LiveIds(q)' = LiveIds(q) /\ StoredIds(q)' = StoredIds(q)
  BY <1>1, SessionsLeft
<1>8. key \in claimed
  BY <1>3, <1>6 DEF ReachInv, KeysClaimed
<1>9. KeysClaimed'
  <2>1. \A q \in Device :
           PublishedKeys(q) \ claimed \subseteq one_time_keys'[q] \cap stored[q].one_time_keys
    BY <1>2, <1>8 DEF ReachInv, KeysClaimed
  <2> QED BY <1>1, <1>7, <2>1 DEF ReachInv, KeysClaimed
<1>10. KeysKept'
  <2> SUFFICES ASSUME NEW q \in Device, NEW id \in UsedIds,
                      id[1] = Identity(Peer(q)), id \notin Gone
               PROVE  /\ id[3] \in one_time_keys'[q] \cup {FallbackKey(q)} \/ id \in LiveIds(q)
                      /\ id[3] \in stored[q].one_time_keys \cup {FallbackKey(q)}
                            \/ id \in StoredIds(q)
    BY <1>1, <1>7 DEF KeysKept
  <2>1. /\ id[3] \in one_time_keys[q] \cup {FallbackKey(q)} \/ id \in LiveIds(q)
        /\ id[3] \in stored[q].one_time_keys \cup {FallbackKey(q)} \/ id \in StoredIds(q)
    BY DEF ReachInv, KeysKept
  <2>2. q = p /\ id[3] = key => id \in LiveIds(q)
    BY <1>3, <1>5, <1>6 DEF ReachInv, KeysClaimed
  <2> QED BY <1>2, <2>1, <2>2
<1> QED BY <1>7, <1>9, <1>10 DEF ReachInv

(* _olm_account pickled: what is no longer in it is in a session's pickle. *)
LEMMA AccountReach ==
    ASSUME KeysInv, ReadInv, ReachInv, NEW p \in Device, PickleAccount(p)
    PROVE  ReachInv'
<1>1. /\ NeededKeysLeft(p)
      /\ stored' = [stored EXCEPT ![p].one_time_keys = one_time_keys[p]]
      /\ UNCHANGED <<one_time_keys, session, claimed, sent, forgotten>>
  BY DEF PickleAccount
<1>2. /\ \A q \in Device : stored'[q].session = stored[q].session
      /\ \A q \in Device : stored'[q].one_time_keys = IF q = p THEN one_time_keys[q]
                                                      ELSE stored[q].one_time_keys
  BY <1>1 DEF KeysInv, IInv, Shape
<1>3. /\ RatchetsReach' /\ LettersReach' /\ FewSent'
      /\ UsedIds' \subseteq UsedIds /\ Gone' = Gone
      /\ \A q \in Device : LiveIds(q)' = LiveIds(q) /\ StoredIds(q)' = StoredIds(q)
  BY <1>1, <1>2, SessionsLeft
<1>4. KeysClaimed'
  <2>1. \A q \in Device :
           PublishedKeys(q) \ claimed \subseteq one_time_keys[q] \cap stored'[q].one_time_keys
    BY <1>2 DEF ReachInv, KeysClaimed
  <2> QED BY <1>1, <1>3, <2>1 DEF ReachInv, KeysClaimed
<1>5. KeysKept'
  <2> SUFFICES ASSUME NEW q \in Device, NEW id \in UsedIds,
                      id[1] = Identity(Peer(q)), id \notin Gone
               PROVE  /\ id[3] \in one_time_keys[q] \cup {FallbackKey(q)} \/ id \in LiveIds(q)
                      /\ id[3] \in stored'[q].one_time_keys \cup {FallbackKey(q)}
                            \/ id \in StoredIds(q)
    BY <1>1, <1>3 DEF KeysKept
  <2>1. /\ id[3] \in one_time_keys[q] \cup {FallbackKey(q)} \/ id \in LiveIds(q)
        /\ id[3] \in stored[q].one_time_keys \cup {FallbackKey(q)} \/ id \in StoredIds(q)
    BY DEF ReachInv, KeysKept
  <2>2. ASSUME q = p, id \in LiveIds(q)
        PROVE  id[3] \in one_time_keys[q] \cup {FallbackKey(q)} \/ id \in StoredIds(q)
    <3>1. PICK t \in Slot : session[q][t].created /\ id = SessionId(session[q][t])
      BY <2>2, ObjectsAre
    <3>2. CASE stored[q].session[t] # NoPickle
      <4>1. SessionId(stored[q].session[t]) = id
        BY <3>1, <3>2 DEF KeysInv, IInv, PicklesFollow
      <4> QED BY <3>2, <4>1, ObjectsAre
    <3>3. CASE stored[q].session[t] = NoPickle
      <4>1. \/ session[q][t].bob_one_time_key \in LookupKeys(q)
            \/ session[q][t].alice_identity_key = Identity(q)
        BY <1>1, <2>2, <3>1, <3>3 DEF NeededKeysLeft
      <4>2. id[3] = session[q][t].bob_one_time_key /\ id[1] = session[q][t].alice_identity_key
        BY <3>1 DEF SessionId
      <4>3. Identity(Peer(q)) # Identity(q)
        BY Devices DEF Identity
      <4> QED BY <4>1, <4>2, <4>3 DEF LookupKeys
    <3> QED BY <3>2, <3>3
  <2> QED BY <1>2, <2>1, <2>2
<1> QED BY <1>3, <1>4, <1>5 DEF ReachInv

(* A restart: what is kept is kept for that.                               *)
LEMMA RestartReach ==
    ASSUME KeysInv, ReadInv, ReachInv, NEW p \in Device, Restart(p)
    PROVE  ReachInv'
<1>1. /\ one_time_keys' = [one_time_keys EXCEPT ![p] = stored[p].one_time_keys]
      /\ session' = [session EXCEPT ![p] = [s \in Slot |->
                        IF stored[p].session[s] = NoPickle
                          THEN SessionInit
                          ELSE UnpickledSession(stored[p].session[s])]]
      /\ UNCHANGED <<stored, claimed, sent, forgotten>>
  BY DEF Restart
<1>2. /\ \A t \in Slot :
           session'[p][t] = IF stored[p].session[t] = NoPickle
                              THEN SessionInit
                              ELSE UnpickledSession(stored[p].session[t])
      /\ \A q \in Device \ {p} : session'[q] = session[q]
      /\ ~SessionInit.created
      /\ \A q \in Device : one_time_keys'[q] = IF q = p THEN stored[q].one_time_keys
                                               ELSE one_time_keys[q]
  BY <1>1 DEF KeysInv, IInv, Shape, Types, SessionInit
<1>3. \A q \in Device : StoredIds(q)' = StoredIds(q)
  BY <1>1 DEF StoredIds
<1>4. \A q \in Device : q # p => LiveIds(q)' = LiveIds(q)
  BY <1>2 DEF LiveIds
<1>5. StoredIds(p) \subseteq LiveIds(p)'
  <2> SUFFICES ASSUME NEW id \in StoredIds(p) PROVE id \in LiveIds(p)'
    OBVIOUS
  <2>1. PICK t \in Slot : stored[p].session[t] # NoPickle /\ id = SessionId(stored[p].session[t])
    BY ObjectsAre
  <2>2. session'[p][t].created /\ id = SessionId(session'[p][t])
    BY <1>2, <2>1, SamePickled, UnpickledFields
  <2> QED BY <2>2 DEF LiveIds
<1>6. ASSUME NEW q \in Device, NEW x \in ObjectsOf(q)'
      PROVE  \E y \in ObjectsOf(q) : Same(x, y)
  <2>1. PICK t \in Slot : x \in SessionsOf(q, t)'
    BY DEF ObjectsOf
  <2>2. \/ x \in SessionsOf(q, t)
        \/ /\ q = p /\ stored[p].session[t] # NoPickle
           /\ x = UnpickledSession(stored[p].session[t])
    BY <1>1, <1>2, <2>1 DEF SessionsOf
  <2>3. stored[p].session[t] # NoPickle => stored[p].session[t] \in ObjectsOf(p)
    BY ObjectsAre
  <2>4. x \in SessionsOf(q, t) => x \in ObjectsOf(q)
    BY DEF ObjectsOf
  <2> QED BY <2>2, <2>3, <2>4, SamePickled
<1>7. /\ RatchetsReach' /\ LettersReach' /\ FewSent'
      /\ UsedIds' \subseteq UsedIds
  BY <1>1, <1>3, <1>6, NothingNewReach
<1>8. Gone' = Gone
  BY <1>1 DEF Gone
<1>9. KeysClaimed'
  <2>1. \A q \in Device :
           PublishedKeys(q) \ claimed \subseteq one_time_keys'[q] \cap stored[q].one_time_keys
    BY <1>2 DEF ReachInv, KeysClaimed
  <2> QED BY <1>1, <1>7, <2>1 DEF ReachInv, KeysClaimed
<1>10. KeysKept'
  <2> SUFFICES ASSUME NEW q \in Device, NEW id \in UsedIds,
                      id[1] = Identity(Peer(q)), id \notin Gone
               PROVE  /\ id[3] \in one_time_keys'[q] \cup {FallbackKey(q)} \/ id \in LiveIds(q)'
                      /\ id[3] \in stored[q].one_time_keys \cup {FallbackKey(q)}
                            \/ id \in StoredIds(q)
    BY <1>1, <1>3, <1>7, <1>8 DEF KeysKept
  <2>1. /\ id[3] \in one_time_keys[q] \cup {FallbackKey(q)} \/ id \in LiveIds(q)
        /\ id[3] \in stored[q].one_time_keys \cup {FallbackKey(q)} \/ id \in StoredIds(q)
    BY DEF ReachInv, KeysKept
  <2> QED BY <1>2, <1>4, <1>5, <2>1
<1> QED BY <1>7, <1>9, <1>10 DEF ReachInv

-----------------------------------------------------------------------------

(* A step that sends nothing and adds a session to p's.                    *)
LEMMA OneNewReach ==
    ASSUME KeysInv, ReadInv, ReachInv, NEW p \in Device, NEW e,
           UNCHANGED <<stored, sent, forgotten>>,
           \A q \in Device : \A x \in ObjectsOf(q)' :
              (\E y \in ObjectsOf(q) : Same(x, y)) \/ (q = p /\ x = e),
           Reaching(e, p, Gone, StoredIds(Peer(p)), forgotten[p], sent[p]),
           Paired(e, ObjectsOf(Peer(p)), Gone),
           e.ratchet.sender_chain # <<>> => e.ratchet.sender_chain[1].chain_key.index \in Nat
    PROVE  /\ RatchetsReach' /\ LettersReach' /\ FewSent'
           /\ UsedIds' \subseteq UsedIds \cup {SessionId(e)}
           /\ Gone' = Gone
           /\ \A q \in Device : StoredIds(q)' = StoredIds(q)
<1>1. \A q \in Device : StoredIds(q)' = StoredIds(q)
  BY DEF StoredIds
<1>2. Gone' = Gone
  BY DEF Gone
<1>3. FewSent'
  BY DEF ReachInv, FewSent
<1>4. LettersReach'
  BY <1>1, LettersKept DEF ReachInv
<1>5. UsedIds' \subseteq UsedIds \cup {SessionId(e)}
  <2> SUFFICES ASSUME NEW id \in UsedIds' PROVE id \in UsedIds \cup {SessionId(e)}
    OBVIOUS
  <2>1. UsedParts'
    BY UsedAre, PTL
  <2>2. \/ \E q \in Device : \E x \in ObjectsOf(q)' : id = SessionId(x)
        \/ \E q \in Device : \E i \in DOMAIN sent[q] :
              sent[q][i].type = "PRE_KEY" /\ id = MessageId(sent[q][i])
    BY <2>1 DEF UsedParts
  <2>3. ASSUME NEW q \in Device, NEW x \in ObjectsOf(q)', id = SessionId(x)
        PROVE  id \in UsedIds \cup {SessionId(e)}
    BY <2>3, SameParts, UsedAre DEF UsedParts
  <2> QED BY <2>2, <2>3, UsedAre DEF UsedParts
<1>6. RatchetsReach'
  <2> DEFINE news == {e}
  <2>1. \A q \in Device : Len(sent[q]) \in Nat
    BY DEF KeysInv, IInv, Shape
  <2>2. \A q \in Device : /\ forgotten[q] \subseteq forgotten'[q]
                          /\ Len(sent[q]) \in Nat /\ Len(sent'[q]) \in Nat
                          /\ Len(sent[q]) <= Len(sent'[q])
                          /\ StoredIds(q) \subseteq StoredIds(q)' \cup forgotten'[q]
    BY <1>1, <2>1
  <2>3. \A q \in Device : \A x \in ObjectsOf(q)' :
              \/ \E y \in ObjectsOf(q) : Same(x, y) /\ Unsent(SessionId(y), q)
              \/ q = p /\ \E y \in news : Same(x, y)
    BY SamePickled DEF Unsent
  <2>4. \A y \in news :
              /\ Reaching(y, p, Gone', StoredIds(Peer(p))', forgotten'[p], sent'[p])
              /\ Paired(y, ObjectsOf(Peer(p)), Gone')
              /\ FewOn(y.ratchet, Len(sent'[p]))
              /\ y.ratchet.sender_chain # <<>> =>
                    y.ratchet.sender_chain[1].chain_key.index \in Nat
    BY <1>1, <1>2, Devices DEF Reaching
  <2>5. p \in Device /\ KeysInv /\ ReadInv /\ RatchetsReach
    BY DEF ReachInv
  <2> HIDE DEF news
  <2> QED BY ONLY <2>2, <2>3, <2>4, <2>5, RatchetsStep
<1> QED BY <1>1, <1>2, <1>3, <1>4, <1>5, <1>6

(* An opening is of a base key that is in no id of before.                 *)
LEMMA OpeningIsNew ==
    ASSUME NEW opens \in Counts, NEW p \in Device, NEW key \in KeysOf(Peer(p)),
           NEW id, id = <<Identity(p), <<p, "base", opens[p]>>, key>>,
           NEW id2, NamedId(id2, opens)
    PROVE  id # id2 /\ SecretOf(id) # SecretOf(id2)
<1> DEFINE opens2 == [opens EXCEPT ![p] = @ + 1]
           base   == <<p, "base", opens[p]>>
<1>1. /\ opens2 \in Counts /\ \A d \in Device : opens[d] <= opens2[d]
      /\ opens[p] \in 0 .. opens2[p] - 1
  BY DEF Counts
<1> HIDE DEF opens2
<1>2. id2 # id
  <2>1. PICK o \in Device : \E n \in 0 .. opens[o] - 1 : id2[2] = <<o, "base", n>>
    BY DEF NamedId, OpeningOf
  <2>2. PICK n \in 0 .. opens[o] - 1 : id2[2] = <<o, "base", n>>
    BY <2>1
  <2>3. n # opens[o]
    BY DEF Counts
  <2>4. id[2] = base
    OBVIOUS
  <2> QED BY <2>2, <2>3, <2>4
<1>3. NamedId(id2, opens2)
  <2>1. PICK o \in Device : OpeningOf(id2[1], id2[2], id2[3], o, opens)
    BY DEF NamedId
  <2>2. OpeningOf(id2[1], id2[2], id2[3], o, opens2)
    BY <1>1, <2>1, BegunStays
  <2> QED BY <2>2 DEF NamedId
<1>4. NamedId(id, opens2)
  <2>1. id[1] = Identity(p) /\ id[2] = <<p, "base", opens[p]>> /\ id[3] = key
    OBVIOUS
  <2>2. OpeningOf(id[1], id[2], id[3], p, opens2)
    BY <1>1, <2>1 DEF OpeningOf
  <2> QED BY <2>1, <2>2 DEF NamedId
<1> QED BY <1>1, <1>2, <1>3, <1>4, NamedApart

(* _olm_session_create_outbound: there is no message and no session of the *)
(* peer's yet, and the peer has the key the server gives away.             *)
LEMMA CreateOutboundReach ==
    ASSUME KeysInv, ReadInv, ReachInv, NEW p \in Device, NEW s \in Slot,
           CreateOutboundSession(p, s)
    PROVE  ReachInv'
<1>1. PICK key \in Claimable(Peer(p)) :
        /\ session' = [session EXCEPT ![p][s] =
                          NewOutboundSession(@, Identity(p), Identity(Peer(p)), key,
                                             <<p, "base", opened[p]>>,
                                             <<p, "initial", opened[p]>>)]
        /\ claimed' = claimed \cup {key}
  BY DEF CreateOutboundSession
<1> DEFINE e == NewOutboundSession(session[p][s], Identity(p), Identity(Peer(p)), key,
                                   <<p, "base", opened[p]>>, <<p, "initial", opened[p]>>)
           secret == TripleDH(Identity(p), <<p, "base", opened[p]>>, Identity(Peer(p)), key)
           id == <<Identity(p), <<p, "base", opened[p]>>, key>>
<1>2. /\ ~session[p][s].created
      /\ UNCHANGED <<one_time_keys, stored, sent, forgotten>>
  BY DEF CreateOutboundSession
<1>3. Peer(p) \in Device /\ opened \in Counts
  BY Devices DEF KeysInv, Types
<1>4. \/ key = FallbackKey(Peer(p))
      \/ key \in PublishedKeys(Peer(p)) /\ key \notin claimed
  BY <1>1 DEF Claimable
<1>5. DOMAIN session[p][s] = SessionFields
  BY <1>2 DEF KeysInv, IInv, Shape
<1>6. /\ e.created /\ ~e.received_message
      /\ e.ratchet = InitialiseAsAlice(secret, <<p, "initial", opened[p]>>)
      /\ e.alice_identity_key = Identity(p)
      /\ e.alice_base_key = <<p, "base", opened[p]>>
      /\ SessionId(e) = id
  <2> HIDE DEF secret
  <2> QED BY <1>5 DEF NewOutboundSession, SessionFields, SessionId, secret
<1> HIDE DEF e, secret
<1>7. /\ e.ratchet.root_key = <<secret>>
      /\ e.ratchet.sender_chain =
           <<[ratchet_key |-> <<p, "initial", opened[p]>>,
              chain_key   |-> [chain |-> <<secret>>, index |-> 0]]>>
  BY <1>6 DEF InitialiseAsAlice, NewChainKey
<1>8. /\ Len(e.ratchet.root_key) = 1
      /\ e.ratchet.sender_chain # <<>>
      /\ e.ratchet.sender_chain[1].ratchet_key = <<p, "initial", opened[p]>>
      /\ e.ratchet.sender_chain[1].chain_key.index = 0
  BY <1>7
<1>9. \A q \in Device, t \in Slot :
        session'[q][t] = IF q = p /\ t = s THEN e ELSE session[q][t]
  BY <1>1 DEF KeysInv, IInv, Shape, e
<1>10. key \in KeysOf(Peer(p))
  BY <1>4 DEF KeysOf
<1>11. \A id2 : NamedId(id2, opened) => id # id2 /\ SecretOf(id) # SecretOf(id2)
  BY <1>3, <1>10, OpeningIsNew
<1> HIDE DEF id
<1>12. Reaching(e, p, Gone, StoredIds(Peer(p)), forgotten[p], sent[p])
  <2>1. FirstOne(e, p)
    BY <1>6, <1>8 DEF FirstOne, InitialKey
  <2>2. Partnered(e, p, Gone, StoredIds(Peer(p)))
    BY <1>6, <1>8 DEF Partnered
  <2>3. Behind(e, forgotten[p], sent[p])
    <3>1. \A i \in DOMAIN sent[p] : sent[p][i].body.mac_key.chain[1] # SecretOf(id)
      <4> SUFFICES ASSUME NEW i \in DOMAIN sent[p]
                   PROVE  sent[p][i].body.mac_key.chain[1] # SecretOf(id)
        OBVIOUS
      <4>1. PICK id2 \in StoredIds(p) \cup forgotten[p] :
               SecretOf(id2) = sent[p][i].body.mac_key.chain[1]
        BY DEF ReachInv, LettersReach
      <4> QED BY <1>11, <4>1, DurableIds
    <3> QED BY <1>6, <3>1 DEF Behind
  <2>4. FewOn(e.ratchet, Len(sent[p]))
    <3>1. Len(sent[p]) \in Nat
      BY DEF KeysInv, IInv, Shape
    <3> QED BY <1>8, <3>1 DEF FewOn
  <2> QED BY <2>1, <2>2, <2>3, <2>4 DEF Reaching
<1>13. Paired(e, ObjectsOf(Peer(p)), Gone)
  <2>1. \A y \in ObjectsOf(Peer(p)) : SessionId(y) # id
    BY <1>3, <1>11, ObjectParts
  <2> QED BY <1>6, <2>1 DEF Paired
<1>14. \A q \in Device : \A x \in ObjectsOf(q)' :
          (\E y \in ObjectsOf(q) : Same(x, y)) \/ (q = p /\ x = e)
  <2>1. \A q \in Device : \A x \in ObjectsOf(q)' : x \in ObjectsOf(q) \/ (q = p /\ x = e)
    BY <1>2, <1>9 DEF ObjectsOf, SessionsOf
  <2> QED BY <2>1, SamePickled
<1>15. /\ RatchetsReach' /\ LettersReach' /\ FewSent'
       /\ UsedIds' \subseteq UsedIds \cup {id}
       /\ Gone' = Gone
       /\ \A q \in Device : StoredIds(q)' = StoredIds(q)
  <2>1. /\ KeysInv /\ ReadInv /\ ReachInv /\ p \in Device
        /\ UNCHANGED <<stored, sent, forgotten>>
        /\ e.ratchet.sender_chain # <<>> => e.ratchet.sender_chain[1].chain_key.index \in Nat
    BY <1>2, <1>8
  <2>2. /\ RatchetsReach' /\ LettersReach' /\ FewSent'
        /\ UsedIds' \subseteq UsedIds \cup {SessionId(e)}
        /\ Gone' = Gone
        /\ \A q \in Device : StoredIds(q)' = StoredIds(q)
    BY ONLY <1>12, <1>13, <1>14, <2>1, OneNewReach
  <2> QED BY <1>6, <2>2
<1>16. \A q \in Device : LiveIds(q) \subseteq LiveIds(q)'
  <2> SUFFICES ASSUME NEW q \in Device, NEW id2 \in LiveIds(q) PROVE id2 \in LiveIds(q)'
    OBVIOUS
  <2>1. PICK t \in Slot : session[q][t].created /\ id2 = SessionId(session[q][t])
    BY ObjectsAre
  <2>2. session'[q][t] = session[q][t]
    BY <1>2, <1>9, <2>1
  <2> QED BY <2>1, <2>2 DEF LiveIds
<1>17. id[1] = Identity(p) /\ id[3] = key
  BY DEF id
<1>18. KeysClaimed'
  <2>1. \A id2 \in UsedIds' : id2[3] \in claimed'
    BY <1>1, <1>15, <1>17 DEF ReachInv, KeysClaimed
  <2>2. \A id2 \in UsedIds : id2[3] = key => \E q \in Device : key = FallbackKey(q)
    BY <1>3, <1>4 DEF ReachInv, KeysClaimed
  <2>3. \A id2, id3 \in UsedIds' :
           id2[3] = id3[3] => id2 = id3 \/ \E q \in Device : id2[3] = FallbackKey(q)
    BY <1>15, <1>17, <2>2 DEF ReachInv, KeysClaimed
  <2>4. \A q \in Device :
           PublishedKeys(q) \ claimed' \subseteq one_time_keys[q] \cap stored[q].one_time_keys
    BY <1>1 DEF ReachInv, KeysClaimed
  <2> QED BY <1>2, <2>1, <2>3, <2>4 DEF KeysClaimed
<1>19. KeysKept'
  <2> SUFFICES ASSUME NEW q \in Device, NEW id2 \in UsedIds \cup {id},
                      id2[1] = Identity(Peer(q)), id2 \notin Gone
               PROVE  /\ id2[3] \in one_time_keys[q] \cup {FallbackKey(q)} \/ id2 \in LiveIds(q)
                      /\ id2[3] \in stored[q].one_time_keys \cup {FallbackKey(q)}
                            \/ id2 \in StoredIds(q)
    BY <1>2, <1>15, <1>16 DEF KeysKept
  <2>1. CASE id2 \in UsedIds
    BY <2>1 DEF ReachInv, KeysKept
  <2>2. CASE id2 = id
    <3>1. q = Peer(p)
      <4>1. Identity(Peer(q)) = Identity(p)
        BY <1>17, <2>2
      <4>2. Peer(q) = p
        BY <4>1 DEF Identity
      <4> QED BY <4>2, Devices
    <3> QED BY <1>4, <1>17, <2>2, <3>1 DEF ReachInv, KeysClaimed
  <2> QED BY <2>1, <2>2
<1> QED BY <1>15, <1>18, <1>19 DEF ReachInv

(* A message belongs to a session that its sender has pickled or deleted.  *)
LEMMA LetterOf ==
    ASSUME KeysInv, ReadInv, LettersReach, NEW p \in Device, NEW i \in DOMAIN sent[p],
           NEW id, NamedId(id, opened), sent[p][i].body.mac_key.chain[1] = SecretOf(id)
    PROVE  id \in StoredIds(p) \cup forgotten[p]
<1>1. PICK id2 \in StoredIds(p) \cup forgotten[p] :
         SecretOf(id2) = sent[p][i].body.mac_key.chain[1]
  BY DEF LettersReach
<1>2. NamedId(id2, opened) /\ opened \in Counts
  BY DurableIds DEF KeysInv, Types
<1> QED BY <1>1, <1>2, NamedApart

(* _olm_session_create_inbound: the one who sent the message is on the     *)
(* first chain still, and the device has sent nothing with the session.    *)
LEMMA InboundReach ==
    ASSUME KeysInv, ReadInv, ReachInv, NEW p \in Device, NEW s \in Slot, NEW theirs,
           NEW m \in Range(sent[Peer(p)]),
           CreateInboundSession(p, s, theirs, m),
           NEW e,
           e = NewInboundSession(session[p][s], Identity(p), LookupKeys(p), theirs, m),
           e.created
    PROVE  /\ Reaching(e, p, Gone, StoredIds(Peer(p)), forgotten[p], sent[p])
           /\ Paired(e, ObjectsOf(Peer(p)), Gone)
           /\ e.ratchet.sender_chain = <<>>
           /\ SessionId(e) \in UsedIds
<1> DEFINE secret == TripleDH(m.identity_key, m.base_key, Identity(p), m.one_time_key)
           id     == MessageId(m)
<1>1. /\ ~session[p][s].created
      /\ MatchingSlots(p, theirs, m) = {}
  BY DEF CreateInboundSession
<1>2. DOMAIN session[p][s] = SessionFields
  BY <1>1 DEF KeysInv, IInv, Shape
<1>3. Peer(p) \in Device /\ Peer(Peer(p)) = p /\ opened \in Counts
  BY Devices DEF KeysInv, Types
<1>4. /\ m.type = "PRE_KEY" /\ m.one_time_key \in LookupKeys(p)
      /\ SameIdentity(theirs, m)
      /\ e.ratchet = InitialiseAsBob(secret, m.body.ratchet_key)
      /\ SessionId(e) = id
      /\ e.alice_identity_key = m.identity_key
  <2> HIDE DEF secret
  <2> QED BY <1>1, <1>2 DEF NewInboundSession, WithKeysOf, SessionFields, CheckMessageFields,
                            SessionId, MessageId, secret
<1>5. PICK i \in DOMAIN sent[Peer(p)] : m = sent[Peer(p)][i]
  BY DEF Range
<1>6. /\ NamedId(id, opened)
      /\ m.body.mac_key.chain[1] = SecretOf(id)
  BY <1>3, <1>4, <1>5, LetterParts
<1>7. id[1] = m.identity_key /\ id[2] = m.base_key /\ id[3] = m.one_time_key
  BY DEF MessageId
<1>8. id[1] = Identity(Peer(p)) /\ Identity(Peer(p)) # Identity(p)
  <2>1. m.one_time_key \in KeysOf(p)
    BY <1>4 DEF LookupKeys, KeysOf, KeysInv, Types
  <2> HIDE DEF id
  <2> QED BY <1>3, <1>6, <1>7, <2>1, NamedParts
<1>9. secret = SecretOf(id)
  <2>1. id[1][1] = Peer(p)
    BY <1>8 DEF Identity
  <2> HIDE DEF id
  <2> QED BY <1>3, <1>7, <2>1, Zenon DEF SecretOf, secret
<1> HIDE DEF secret
<1>10. id \notin LiveIds(p)
  <2> SUFFICES ASSUME NEW t \in Slot, session[p][t].created, id = SessionId(session[p][t])
               PROVE  FALSE
    BY ObjectsAre
  <2>1. MatchesInboundSession(session[p][t], theirs, m)
    BY <1>4, <1>7 DEF MatchesInboundSession, SessionId, SameIdentity, CheckMessageFields
  <2> QED BY <1>1, <2>1 DEF MatchingSlots
<1>11. id \notin StoredIds(p)
  BY <1>10, DurableIds
<1>12. e.ratchet.sender_chain = <<>>
  BY <1>4 DEF InitialiseAsBob
<1>13. id \in UsedIds
  BY <1>3, <1>4, <1>5, UsedAre DEF UsedParts
<1>14. Partnered(e, p, Gone, StoredIds(Peer(p)))
  <2>1. id \in StoredIds(Peer(p)) \cup forgotten[Peer(p)]
    <3> HIDE DEF id
    <3> QED BY <1>3, <1>5, <1>6, LetterOf DEF ReachInv
  <2>2. forgotten[Peer(p)] \subseteq Gone
    BY GoneParts
  <2> QED BY <1>4, <2>1, <2>2 DEF Partnered
<1>15. Behind(e, forgotten[p], sent[p])
  <2> HIDE DEF id
  <2>1. ASSUME NEW j \in DOMAIN sent[p], sent[p][j].body.mac_key.chain[1] = SecretOf(id)
        PROVE  id \in forgotten[p]
    BY <1>6, <1>11, <2>1, LetterOf DEF ReachInv
  <2> QED BY <1>4, <2>1 DEF Behind
<1>16. FirstOne(e, p)
  BY <1>4, <1>7, <1>8 DEF FirstOne
<1>17. FewOn(e.ratchet, Len(sent[p]))
  BY <1>12 DEF FewOn
<1>18. ASSUME NEW y \in ObjectsOf(Peer(p)), SessionId(y) = id, id \notin Gone
       PROVE  InStep(e.ratchet, y.ratchet)
  <2>1. /\ FirstOne(y, Peer(p))
        /\ Partnered(y, Peer(p), Gone, StoredIds(p))
    BY <1>3 DEF ReachInv, RatchetsReach, Reaching
  <2>2. y.alice_identity_key = Identity(Peer(p)) /\ y.alice_base_key = m.base_key
    BY <1>7, <1>8, <1>18 DEF SessionId
  <2>3. Len(y.ratchet.root_key) = 1
    BY <1>11, <1>18, <2>1, <2>2 DEF Partnered
  <2>4. /\ y.ratchet.sender_chain # <<>>
        /\ y.ratchet.sender_chain[1].ratchet_key = InitialKey(m.base_key)
    BY <2>1, <2>2, <2>3 DEF FirstOne
  <2>5. m.body.ratchet_key = InitialKey(m.base_key)
    BY <1>3, <1>4, <1>5, <1>7, <1>8 DEF ReachInv, LettersReach, FirstLetter
  <2>6. /\ GoodRatchet(y.ratchet, Peer(p), generated, opened) /\ Receiving(y.ratchet)
        /\ generated \in Counts
        /\ y.ratchet.root_key[1] = SecretOf(id)
    BY <1>3, <1>18, ObjectParts
  <2>7. /\ IsSequence(y.ratchet.root_key)
        /\ y.ratchet.sender_chain[1].chain_key.index \in Nat
    BY <1>3, <2>4, <2>6, RatchetParts
  <2>8. y.ratchet.root_key = <<secret>>
    BY <1>9, <2>3, <2>6, <2>7 DEF IsSequence
  <2> HIDE DEF id
  <2> QED BY <1>4, <2>4, <2>5, <2>7, <2>8, OpenedLevel
<1> HIDE DEF id
<1>19. Paired(e, ObjectsOf(Peer(p)), Gone)
  BY <1>4, <1>18 DEF Paired
<1> QED BY <1>4, <1>12, <1>13, <1>14, <1>15, <1>16, <1>17, <1>19 DEF Reaching

LEMMA CreateInboundReach ==
    ASSUME KeysInv, ReadInv, ReachInv, NEW p \in Device, NEW s \in Slot, NEW theirs,
           NEW m \in Range(sent[Peer(p)]),
           CreateInboundSession(p, s, theirs, m)
    PROVE  ReachInv'
<1> DEFINE e == NewInboundSession(session[p][s], Identity(p), LookupKeys(p), theirs, m)
<1>1. /\ ~session[p][s].created
      /\ session' = [session EXCEPT ![p][s] = e]
      /\ UNCHANGED <<one_time_keys, stored, claimed, sent, forgotten>>
  BY DEF CreateInboundSession
<1>2. e.created =>
        /\ Reaching(e, p, Gone, StoredIds(Peer(p)), forgotten[p], sent[p])
        /\ Paired(e, ObjectsOf(Peer(p)), Gone)
        /\ e.ratchet.sender_chain = <<>>
        /\ SessionId(e) \in UsedIds
  BY InboundReach
<1> HIDE DEF e
<1>3. \A q \in Device, t \in Slot :
        session'[q][t] = IF q = p /\ t = s THEN e ELSE session[q][t]
  BY <1>1 DEF KeysInv, IInv, Shape
<1>4. \A q \in Device : \A x \in ObjectsOf(q)' : x \in ObjectsOf(q) \/ (q = p /\ x = e /\ e.created)
  BY <1>1, <1>3 DEF ObjectsOf, SessionsOf
<1>5. \A q \in Device : LiveIds(q) \subseteq LiveIds(q)' /\ StoredIds(q)' = StoredIds(q)
  <2>1. \A q \in Device : StoredIds(q)' = StoredIds(q)
    BY <1>1 DEF StoredIds
  <2> SUFFICES ASSUME NEW q \in Device, NEW id \in LiveIds(q) PROVE id \in LiveIds(q)'
    BY <2>1
  <2>2. PICK t \in Slot : session[q][t].created /\ id = SessionId(session[q][t])
    BY ObjectsAre
  <2>3. session'[q][t] = session[q][t]
    BY <1>1, <1>3, <2>2
  <2> QED BY <2>2, <2>3 DEF LiveIds
<1>6. RatchetsReach' /\ LettersReach' /\ FewSent' /\ UsedIds' \subseteq UsedIds
  <2>1. CASE e.created
    <3>1. /\ KeysInv /\ ReadInv /\ ReachInv /\ p \in Device
          /\ UNCHANGED <<stored, sent, forgotten>>
          /\ e.ratchet.sender_chain # <<>> => e.ratchet.sender_chain[1].chain_key.index \in Nat
          /\ Reaching(e, p, Gone, StoredIds(Peer(p)), forgotten[p], sent[p])
          /\ Paired(e, ObjectsOf(Peer(p)), Gone)
      BY <1>1, <1>2, <2>1
    <3>2. \A q \in Device : \A x \in ObjectsOf(q)' :
             (\E y \in ObjectsOf(q) : Same(x, y)) \/ (q = p /\ x = e)
      BY <1>4, SamePickled
    <3>3. /\ RatchetsReach' /\ LettersReach' /\ FewSent'
          /\ UsedIds' \subseteq UsedIds \cup {SessionId(e)}
      BY ONLY <3>1, <3>2, OneNewReach
    <3> QED BY <1>2, <2>1, <3>3
  <2>2. CASE ~e.created
    <3>1. \A q \in Device : \A x \in ObjectsOf(q)' : \E y \in ObjectsOf(q) : Same(x, y)
      BY <1>4, <2>2, SamePickled
    <3> QED BY <1>1, <1>5, <3>1, NothingNewReach
  <2> QED BY <2>1, <2>2
<1>7. Gone' = Gone
  BY <1>1 DEF Gone
<1>8. KeysClaimed' /\ KeysKept'
  <2>1. /\ \A q \in Device : stored'[q].one_time_keys = stored[q].one_time_keys
        /\ Gone \subseteq Gone'
        /\ \A q \in Device : /\ LiveIds(q) \subseteq LiveIds(q)' \cup Gone'
                             /\ StoredIds(q) \subseteq StoredIds(q)' \cup Gone'
    BY <1>1, <1>5, <1>7
  <2> QED BY <1>1, <1>6, <2>1, KeysStay DEF ReachInv
<1> QED BY <1>6, <1>8 DEF ReachInv

(* _olm_session_decrypt: the message was sent by a session that is ahead.  *)
LEMMA DecryptReach ==
    ASSUME KeysInv, ReadInv, ReachInv, NEW p \in Device, NEW s \in Slot,
           NEW m \in Range(sent[Peer(p)]), Decrypt(p, s, m)
    PROVE  ReachInv'
<1> DEFINE old == session[p][s]
           e   == SessionAfterDecrypt(session[p][s], m)
<1>1. /\ old.created
      /\ Decrypts(old.ratchet, m.body)
      /\ session' = [session EXCEPT ![p][s] = e]
      /\ UNCHANGED <<one_time_keys, stored, claimed, opened, sent, forgotten>>
  BY DEF Decrypt, SessionDecrypts
<1>2. Peer(p) \in Device /\ Peer(Peer(p)) = p
  BY Devices
<1>3. PICK k \in DOMAIN sent[Peer(p)] : m = sent[Peer(p)][k]
  BY DEF Range
<1>4. GoodBody(m.body)
  BY <1>2, <1>3, LetterParts
<1>5. DOMAIN old = SessionFields
  BY DEF KeysInv, IInv, Shape
<1>6. /\ e.created /\ e.received_message
      /\ e.ratchet = AfterDecrypt(old.ratchet, m.body)
      /\ SessionId(e) = SessionId(old)
      /\ e.alice_identity_key = old.alice_identity_key
      /\ e.alice_base_key = old.alice_base_key
  BY <1>1, <1>5 DEF SessionAfterDecrypt, SessionFields, SessionId
<1> HIDE DEF e
<1>7. \A q \in Device, t \in Slot :
        session'[q][t] = IF q = p /\ t = s THEN e ELSE session[q][t]
  BY <1>1 DEF KeysInv, IInv, Shape
<1>8. old \in ObjectsOf(p)
  BY <1>1, ObjectsAre
<1> HIDE DEF old
<1> DEFINE r  == old.ratchet
           id == SessionId(old)
<1>9. /\ generated \in Counts /\ opened \in Counts
      /\ GoodRatchet(r, p, generated, opened)
      /\ Receiving(r)
      /\ r.root_key[1] = SecretOf(id)
      /\ NamedId(id, opened)
  BY <1>8, ObjectParts
<1>10. /\ FirstOne(old, p)
       /\ Partnered(old, p, Gone, StoredIds(Peer(p)))
       /\ Behind(old, forgotten[p], sent[p])
       /\ FewOn(r, Len(sent[p]))
       /\ Paired(old, ObjectsOf(Peer(p)), Gone)
  BY <1>8 DEF ReachInv, RatchetsReach, Reaching
<1>11. /\ IsSequence(r.root_key) /\ Len(r.root_key) \in Nat \ {0}
       /\ r.sender_chain # <<>> => r.sender_chain[1].chain_key.index \in Nat
  BY <1>9, RatchetParts
<1>12. DecryptedTo(r, e.ratchet, m.body)
  BY <1>1, <1>4, <1>6, <1>9, DecryptParts
<1>13. m.body.mac_key.chain[1] = SecretOf(id)
  <2>1. m.body.mac_key.chain[1] = r.root_key[1]
    BY <1>1, <1>4, <1>9, NotRead
  <2> QED BY <1>9, <2>1
<1> HIDE DEF r, id
<1>14. id \in StoredIds(Peer(p)) \cup forgotten[Peer(p)]
  BY <1>2, <1>3, <1>9, <1>13, LetterOf DEF ReachInv
<1>15. \/ /\ e.ratchet.root_key = r.root_key /\ e.ratchet.sender_chain = r.sender_chain
       \/ /\ e.ratchet.sender_chain = <<>>
          /\ Len(e.ratchet.root_key) = Len(r.root_key) + 1
  <2>1. CASE OnNewChain(r, e.ratchet, m.body)
    <3>1. /\ e.ratchet.sender_chain = <<>>
          /\ e.ratchet.root_key =
               Append(r.root_key, {r.sender_chain[1].ratchet_key, m.body.ratchet_key})
      BY <2>1, Zenon DEF OnNewChain
    <3> QED BY <1>11, <3>1, SequenceAppend
  <2> QED BY <1>12, <2>1, Zenon DEF DecryptedTo, OnOldChain
<1>16. Partnered(e, p, Gone, StoredIds(Peer(p)))
  <2>1. forgotten[Peer(p)] \subseteq Gone
    BY GoneParts
  <2> QED BY <1>6, <1>14, <2>1 DEF Partnered, id
<1>17. FirstOne(e, p)
  <2>1. Len(e.ratchet.root_key) = 1 =>
           e.ratchet.root_key = r.root_key /\ e.ratchet.sender_chain = r.sender_chain
    BY <1>11, <1>15
  <2> QED BY <1>6, <1>10, <2>1 DEF FirstOne, r
<1>18. Behind(e, forgotten[p], sent[p])
  <2>1. ASSUME NEW b, Len(b.mac_key.chain) \in Nat, SentBefore(r, b) PROVE SentBefore(e.ratchet, b)
    <3>1. Len(b.mac_key.chain) <= Len(r.root_key)
      BY <1>11, <2>1 DEF SentBefore
    <3> QED BY <1>11, <1>15, <2>1, <3>1 DEF SentBefore
  <2>2. \A i \in DOMAIN sent[p] : Len(sent[p][i].body.mac_key.chain) \in Nat
    BY LetterParts DEF IsSequence
  <2> QED BY <1>6, <1>10, <2>1, <2>2 DEF Behind, r
<1>19. FewOn(e.ratchet, Len(sent[p]))
  BY <1>10, <1>15 DEF FewOn
<1>20. Paired(e, ObjectsOf(Peer(p)), Gone)
  <2> SUFFICES ASSUME NEW y \in ObjectsOf(Peer(p)), SessionId(y) = id, id \notin Gone
               PROVE  InStep(e.ratchet, y.ratchet)
    BY <1>6 DEF Paired, id
  <2>1. InStep(r, y.ratchet)
    BY <1>10 DEF Paired, r, id
  <2>2. /\ GoodRatchet(y.ratchet, Peer(p), generated, opened) /\ Receiving(y.ratchet)
    BY <1>2, ObjectParts
  <2>3. SentBefore(y.ratchet, m.body)
    <3>1. Behind(y, forgotten[Peer(p)], sent[Peer(p)])
      BY <1>2 DEF ReachInv, RatchetsReach, Reaching
    <3>2. id \notin forgotten[Peer(p)]
      BY GoneParts
    <3> QED BY <1>3, <1>13, <3>1, <3>2 DEF Behind
  <2> QED BY <1>2, <1>4, <1>9, <1>12, <2>1, <2>2, <2>3, DecryptInStep
<1>21. Reaching(e, p, Gone, StoredIds(Peer(p)), forgotten[p], sent[p])
  BY <1>16, <1>17, <1>18, <1>19 DEF Reaching
<1>22. \A q \in Device : \A x \in ObjectsOf(q)' :
             (\E y \in ObjectsOf(q) : Same(x, y)) \/ (q = p /\ x = e)
  <2>1. \A q \in Device : \A x \in ObjectsOf(q)' : x \in ObjectsOf(q) \/ (q = p /\ x = e)
    BY <1>1, <1>7 DEF ObjectsOf, SessionsOf
  <2> QED BY <2>1, SamePickled
<1>23. e.ratchet.sender_chain # <<>> => e.ratchet.sender_chain[1].chain_key.index \in Nat
  BY <1>11, <1>15
<1>24. /\ RatchetsReach' /\ LettersReach' /\ FewSent'
       /\ UsedIds' \subseteq UsedIds \cup {SessionId(e)}
       /\ Gone' = Gone
       /\ \A q \in Device : StoredIds(q)' = StoredIds(q)
  <2>1. /\ KeysInv /\ ReadInv /\ ReachInv /\ p \in Device
        /\ UNCHANGED <<stored, sent, forgotten>>
    BY <1>1
  <2> QED BY ONLY <1>20, <1>21, <1>22, <1>23, <2>1, OneNewReach
<1>25. SessionId(e) \in UsedIds
  BY <1>6, <1>8, UsedAre DEF UsedParts
<1>26. \A q \in Device : LiveIds(q) \subseteq LiveIds(q)'
  <2> SUFFICES ASSUME NEW q \in Device, NEW id2 \in LiveIds(q) PROVE id2 \in LiveIds(q)'
    OBVIOUS
  <2>1. PICK t \in Slot : session[q][t].created /\ id2 = SessionId(session[q][t])
    BY ObjectsAre
  <2>2. session'[q][t].created /\ id2 = SessionId(session'[q][t])
    BY <1>6, <1>7, <2>1 DEF old
  <2> QED BY <2>2 DEF LiveIds
<1>27. KeysClaimed' /\ KeysKept'
  <2>1. /\ \A q \in Device : stored'[q].one_time_keys = stored[q].one_time_keys
        /\ Gone \subseteq Gone' /\ UsedIds' \subseteq UsedIds
        /\ \A q \in Device : /\ LiveIds(q) \subseteq LiveIds(q)' \cup Gone'
                             /\ StoredIds(q) \subseteq StoredIds(q)' \cup Gone'
    BY <1>1, <1>24, <1>25, <1>26
  <2> QED BY <1>1, <2>1, KeysStay DEF ReachInv
<1> QED BY <1>24, <1>27 DEF ReachInv

-----------------------------------------------------------------------------

(* What encryption makes of a session for p, which sends m with it.        *)
EncryptReaches(old, e, m, p, messages, messages2) ==
    /\ FirstOne(e, p)
    /\ \A gone, ids : Partnered(old, p, gone, ids) => Partnered(e, p, gone, ids)
    /\ \A deleted : Behind(old, deleted, messages) => Behind(e, deleted, messages2)
    /\ FewOn(e.ratchet, Len(messages2))
    /\ e.ratchet.sender_chain # <<>> /\ e.ratchet.sender_chain[1].chain_key.index \in Nat
    /\ FirstLetter(m, p)
    /\ m.body.mac_key.chain[1] = SecretOf(SessionId(old))

LEMMA EncryptAhead ==
    ASSUME NEW keys \in Counts, NEW opens \in Counts, NEW p \in Device, NEW old,
           DOMAIN old = SessionFields, GoodRatchet(old.ratchet, p, keys, opens),
           Receiving(old.ratchet), FirstOne(old, p),
           old.ratchet.root_key[1] = SecretOf(SessionId(old)),
           NEW fresh, NEW n, NEW e, e = SessionAfterEncrypt(old, fresh),
           NEW m, m = SessionMessage(old, fresh, n),
           NEW messages, IsSequence(messages), FewOn(old.ratchet, Len(messages)),
           \A i \in DOMAIN messages : /\ Len(messages[i].body.mac_key.chain) \in Nat
                                     /\ messages[i].body.mac_key.index \in Nat,
           NEW messages2, messages2 = Append(messages, m)
    PROVE  EncryptReaches(old, e, m, p, messages, messages2)
<1> DEFINE r == old.ratchet
           f == e.ratchet
           b == m.body
<1>1. /\ f = AfterEncrypt(r, fresh)
      /\ SessionId(e) = SessionId(old)
      /\ e.received_message = old.received_message
      /\ e.alice_identity_key = old.alice_identity_key
      /\ e.alice_base_key = old.alice_base_key
  BY DEF SessionAfterEncrypt, SessionFields, SessionId
<1>2. /\ b = EncryptedMessage(r, fresh, n)
      /\ m.type = "PRE_KEY" => /\ ~old.received_message
                               /\ m.identity_key = old.alice_identity_key
                               /\ m.base_key = old.alice_base_key
  BY DEF SessionMessage, EncryptMessageType
<1> HIDE DEF r, f, b
<1>3. GoodRatchet(r, p, keys, opens) /\ Receiving(r) /\ FewOn(r, Len(messages))
  BY DEF r
<1>4. SendsNext(r, f, b, fresh)
  BY <1>1, <1>2, <1>3, EncryptSends
<1>5. /\ r.sender_chain # <<>> => f.root_key = r.root_key
      /\ r.sender_chain = <<>> =>
            f.root_key = Append(r.root_key, {fresh, r.receiver_chains[1].ratchet_key})
  BY <1>1, <1>3, EncryptParts
<1>6. /\ IsSequence(r.root_key) /\ Len(r.root_key) \in Nat \ {0}
      /\ r.sender_chain # <<>> => r.sender_chain[1].chain_key.index \in Nat
  BY <1>3, RatchetParts
<1>7. /\ r.sender_chain = <<>> => Len(f.root_key) = Len(r.root_key) + 1
      /\ f.root_key[1] = r.root_key[1]
  <2> DEFINE link == {fresh, r.receiver_chains[1].ratchet_key}
  <2>1. 1 \in 1 .. Len(r.root_key)
    BY <1>6
  <2> HIDE DEF link
  <2>2. /\ Len(Append(r.root_key, link)) = Len(r.root_key) + 1
        /\ Append(r.root_key, link)[1] = r.root_key[1]
    BY <1>6, <2>1, SequenceAppend
  <2> QED BY <1>5, <2>2 DEF link
<1>8. /\ f.sender_chain # <<>>
      /\ r.sender_chain # <<>> =>
            /\ f.sender_chain[1].ratchet_key = r.sender_chain[1].ratchet_key
            /\ f.sender_chain[1].chain_key.index = r.sender_chain[1].chain_key.index + 1
      /\ f.sender_chain[1].chain_key.index \in Nat
      /\ b.ratchet_key = f.sender_chain[1].ratchet_key
      /\ b.mac_key.chain = f.root_key
      /\ b.mac_key.index < f.sender_chain[1].chain_key.index
      /\ r.sender_chain = <<>> => f.sender_chain[1].chain_key.index = 1
  <2>1. b.mac_key = [chain |-> f.root_key, index |-> b.counter]
        /\ b.counter \in Nat /\ f.sender_chain[1].chain_key.index = b.counter + 1
    BY <1>4 DEF SendsNext
  <2>2. b.mac_key.chain = f.root_key /\ b.mac_key.index = b.counter
    BY <2>1
  <2>3. /\ f.sender_chain # <<>>
        /\ r.sender_chain # <<>> =>
              /\ f.sender_chain[1].ratchet_key = r.sender_chain[1].ratchet_key
              /\ b.counter = r.sender_chain[1].chain_key.index
        /\ r.sender_chain = <<>> => b.counter = 0
        /\ b.ratchet_key = f.sender_chain[1].ratchet_key
    BY <1>4 DEF SendsNext
  <2> QED BY <2>1, <2>2, <2>3
<1>9. /\ Len(messages) \in Nat /\ Len(messages2) = Len(messages) + 1
      /\ DOMAIN messages = 1 .. Len(messages)
      /\ \A i \in DOMAIN messages2 :
            (i \in DOMAIN messages /\ messages2[i] = messages[i]) \/ messages2[i] = m
  <2>1. /\ IsSequence(messages2)
        /\ Len(messages) \in Nat /\ Len(messages2) = Len(messages) + 1
        /\ messages2[Len(messages) + 1] = m
        /\ \A i \in 1 .. Len(messages) : messages2[i] = messages[i]
        /\ DOMAIN messages = 1 .. Len(messages)
    BY SequenceAppend
  <2>2. DOMAIN messages2 = 1 .. Len(messages) + 1
    BY <2>1 DEF IsSequence
  <2> QED BY <2>1, <2>2
<1>10. FirstOne(e, p)
  <2> SUFFICES ASSUME e.alice_identity_key = Identity(p)
               PROVE  /\ Len(f.root_key) = 1 =>
                            f.sender_chain[1].ratchet_key = InitialKey(e.alice_base_key)
                      /\ ~e.received_message => Len(f.root_key) = 1
    BY <1>8 DEF FirstOne, f
  <2>1. /\ Len(r.root_key) = 1 =>
             /\ r.sender_chain # <<>>
             /\ r.sender_chain[1].ratchet_key = InitialKey(old.alice_base_key)
        /\ ~old.received_message => Len(r.root_key) = 1
    BY <1>1 DEF FirstOne, r
  <2>2. Len(f.root_key) = 1 <=> Len(r.root_key) = 1
    <3>1. CASE r.sender_chain = <<>>
      <4>1. Len(f.root_key) = Len(r.root_key) + 1 /\ Len(r.root_key) # 1
        BY <1>7, <2>1, <3>1
      <4> QED BY <1>6, <4>1
    <3>2. CASE r.sender_chain # <<>>
      BY <1>5, <3>2
    <3> QED BY <3>1, <3>2
  <2> QED BY <1>1, <1>8, <2>1, <2>2
<1>11. ASSUME NEW gone, NEW ids, Partnered(old, p, gone, ids)
       PROVE  Partnered(e, p, gone, ids)
  <2>1. old.alice_identity_key = Identity(p) /\ Len(r.root_key) = 1 => Len(f.root_key) = 1
    BY <1>5 DEF FirstOne, r
  <2> QED BY <1>1, <1>11, <2>1 DEF Partnered, r, f
<1>12. ASSUME NEW deleted, Behind(old, deleted, messages)
       PROVE  Behind(e, deleted, messages2)
  <2> SUFFICES ASSUME SessionId(old) \notin deleted, NEW i \in DOMAIN messages2,
                      messages2[i].body.mac_key.chain[1] = SecretOf(SessionId(old))
               PROVE  SentBefore(f, messages2[i].body)
    BY <1>1 DEF Behind, f
  <2>1. SentBefore(f, b)
    BY <1>8 DEF SentBefore
  <2>2. ASSUME i \in DOMAIN messages, messages2[i] = messages[i]
        PROVE  SentBefore(f, messages[i].body)
    <3>1. SentBefore(r, messages[i].body)
      BY <1>12, <2>2 DEF Behind, r
    <3>2. /\ Len(messages[i].body.mac_key.chain) \in Nat
          /\ messages[i].body.mac_key.index \in Nat
      BY <2>2
    <3>3. CASE r.sender_chain = <<>>
      <4>1. Len(messages[i].body.mac_key.chain) < Len(f.root_key)
        <5>1. /\ Len(messages[i].body.mac_key.chain) < Len(r.root_key)
              /\ Len(f.root_key) = Len(r.root_key) + 1
          BY <1>7, <3>1, <3>3 DEF SentBefore
        <5>2. \A a, c \in Nat : a < c => a < c + 1
          OBVIOUS
        <5>3. Len(r.root_key) \in Nat
          BY <1>6
        <5> QED BY <3>2, <5>1, <5>2, <5>3
      <4> QED BY <4>1 DEF SentBefore
    <3>4. CASE r.sender_chain # <<>>
      <4>1. CASE Len(messages[i].body.mac_key.chain) < Len(r.root_key)
        BY <1>5, <3>4, <4>1 DEF SentBefore
      <4>2. CASE /\ messages[i].body.mac_key.chain = r.root_key
                 /\ messages[i].body.ratchet_key = r.sender_chain[1].ratchet_key
                 /\ messages[i].body.mac_key.index < r.sender_chain[1].chain_key.index
        <5>1. /\ messages[i].body.mac_key.chain = f.root_key
              /\ messages[i].body.ratchet_key = f.sender_chain[1].ratchet_key
          BY <1>5, <1>8, <3>4, <4>2
        <5>2. messages[i].body.mac_key.index < f.sender_chain[1].chain_key.index
          BY <1>6, <1>8, <3>2, <3>4, <4>2
        <5> QED BY <1>8, <5>1, <5>2 DEF SentBefore
      <4> QED BY <3>1, <4>1, <4>2 DEF SentBefore
    <3> QED BY <3>3, <3>4
  <2> QED BY <1>9, <2>1, <2>2 DEF b
<1>13. FewOn(f, Len(messages2))
  BY <1>3, <1>6, <1>8, <1>9 DEF FewOn
<1>14. FirstLetter(m, p)
  <2> SUFFICES ASSUME m.type = "PRE_KEY", m.identity_key = Identity(p)
               PROVE  b.ratchet_key = InitialKey(m.base_key) /\ Len(b.mac_key.chain) = 1
    BY DEF FirstLetter, b
  <2>1. /\ Len(r.root_key) = 1
        /\ r.sender_chain # <<>>
        /\ r.sender_chain[1].ratchet_key = InitialKey(m.base_key)
    BY <1>2 DEF FirstOne, r
  <2> QED BY <1>5, <1>8, <2>1
<1>15. b.mac_key.chain[1] = SecretOf(SessionId(old))
  BY <1>7, <1>8 DEF r
<1> QED BY <1>8, <1>10, <1>11, <1>12, <1>13, <1>14, <1>15 DEF EncryptReaches, f, b

(* _olm_session_encrypt: the session is pickled ahead of its message.      *)
LEMMA EncryptReach ==
    ASSUME KeysInv, ReadInv, ReachInv, NEW p \in Device, NEW s \in Slot, Encrypt(p, s)
    PROVE  ReachInv'
<1> DEFINE old == session[p][s]
           e   == SessionAfterEncrypt(session[p][s], FreshKey(p))
           m   == NextMessage(p, s)
           n   == Len(sent[p]) + 1
<1>1. /\ old.created
      /\ Len(sent[Alice]) + Len(sent[Bob]) < MaxSends
      /\ sent' = [sent EXCEPT ![p] = Append(@, m)]
      /\ session' = [session EXCEPT ![p][s] = e]
      /\ stored' = [stored EXCEPT ![p].session[s] = PickledSession(session'[p][s]),
                                  ![p].read[s]    = read[p][s]]
      /\ UNCHANGED <<one_time_keys, claimed, opened, forgotten>>
  BY DEF Encrypt
<1>2. DOMAIN old = SessionFields
  BY DEF KeysInv, IInv, Shape
<1>3. /\ e.created /\ SessionId(e) = SessionId(old)
      /\ e.ratchet = AfterEncrypt(old.ratchet, FreshKey(p))
  BY <1>1, <1>2 DEF SessionAfterEncrypt, SessionFields, SessionId
<1>4. old \in ObjectsOf(p) /\ old \in SessionsOf(p, s)
  BY <1>1, ObjectsAre, ObjectsGood
<1>5. m.type = "PRE_KEY" => MessageId(m) = SessionId(old)
  BY DEF NextMessage, SessionMessage, MessageId, SessionId
<1>6. /\ generated \in Counts /\ opened \in Counts
      /\ GoodRatchet(old.ratchet, p, generated, opened)
      /\ Receiving(old.ratchet)
      /\ old.ratchet.root_key[1] = SecretOf(SessionId(old))
      /\ NamedId(SessionId(old), opened)
  BY <1>4, ObjectParts
<1>7. /\ FirstOne(old, p)
      /\ Partnered(old, p, Gone, StoredIds(Peer(p)))
      /\ Behind(old, forgotten[p], sent[p])
      /\ FewOn(old.ratchet, Len(sent[p]))
      /\ Paired(old, ObjectsOf(Peer(p)), Gone)
  BY <1>4 DEF ReachInv, RatchetsReach, Reaching
<1>8. IsSequence(sent[p]) /\ \A q \in Device : Len(sent[q]) \in Nat
  BY DEF KeysInv, IInv, Shape, IsSequence
<1>9. \A i \in DOMAIN sent[p] : /\ Len(sent[p][i].body.mac_key.chain) \in Nat
                                /\ sent[p][i].body.mac_key.index \in Nat
  <2> SUFFICES ASSUME NEW i \in DOMAIN sent[p]
               PROVE  /\ Len(sent[p][i].body.mac_key.chain) \in Nat
                      /\ sent[p][i].body.mac_key.index \in Nat
    OBVIOUS
  <2>1. GoodBody(sent[p][i].body) /\ IsSequence(sent[p][i].body.mac_key.chain)
    BY LetterParts
  <2> QED BY <2>1 DEF IsSequence, GoodBody
<1>10. EncryptReaches(old, e, m, p, sent[p], Append(sent[p], m))
  <2>1. /\ e = SessionAfterEncrypt(old, FreshKey(p))
        /\ m = SessionMessage(old, FreshKey(p), n)
        /\ Append(sent[p], m) = Append(sent[p], m)
    BY DEF NextMessage
  <2> HIDE DEF old, e, m, n
  <2> QED BY <1>2, <1>6, <1>7, <1>8, <1>9, <2>1, EncryptAhead
<1>11. \A y \in ObjectsOf(Peer(p)) : InStep(old.ratchet, y.ratchet) => InStep(e.ratchet, y.ratchet)
  <2> SUFFICES ASSUME NEW y \in ObjectsOf(Peer(p)), InStep(old.ratchet, y.ratchet)
               PROVE  InStep(e.ratchet, y.ratchet)
    OBVIOUS
  <2>1. Peer(p) \in Device
    BY Devices
  <2>2. GoodRatchet(y.ratchet, Peer(p), generated, opened) /\ Receiving(y.ratchet)
    BY <2>1, ObjectParts
  <2>3. e.ratchet = AfterEncrypt(old.ratchet, <<p, "ratchet", generated[p]>>)
    BY <1>3 DEF FreshKey
  <2> HIDE DEF old, e
  <2> QED BY <1>6, <2>1, <2>2, <2>3, EncryptInStep
<1> HIDE DEF e, m
<1>12. /\ \A q \in Device, t \in Slot :
            session'[q][t] = IF q = p /\ t = s THEN e ELSE session[q][t]
       /\ \A q \in Device, t \in Slot :
            stored'[q].session[t] = IF q = p /\ t = s THEN PickledSession(e)
                                    ELSE stored[q].session[t]
       /\ \A q \in Device : stored'[q].one_time_keys = stored[q].one_time_keys
  BY <1>1 DEF KeysInv, IInv, Shape
<1>13. \A q \in Device : sent'[q] = IF q = p THEN Append(sent[q], m) ELSE sent[q]
  BY <1>1 DEF KeysInv, IInv, Shape
<1>14. /\ Len(sent'[p]) = n
       /\ \A i \in DOMAIN sent'[p] :
            \/ i \in DOMAIN sent[p] /\ sent'[p][i] = sent[p][i]
            \/ i = n /\ sent'[p][i] = m
  <2>1. /\ IsSequence(Append(sent[p], m))
        /\ Len(sent[p]) \in Nat /\ Len(Append(sent[p], m)) = Len(sent[p]) + 1
        /\ Append(sent[p], m)[Len(sent[p]) + 1] = m
        /\ \A i \in 1 .. Len(sent[p]) : Append(sent[p], m)[i] = sent[p][i]
        /\ DOMAIN sent[p] = 1 .. Len(sent[p])
    BY <1>8, SequenceAppend
  <2>2. DOMAIN Append(sent[p], m) = 1 .. Len(sent[p]) + 1
    BY <2>1 DEF IsSequence
  <2>3. sent'[p] = Append(sent[p], m)
    BY <1>13
  <2>4. \A i \in 1 .. Len(sent[p]) + 1 : i \in 1 .. Len(sent[p]) \/ i = Len(sent[p]) + 1
    BY <2>1
  <2> QED BY <2>1, <2>2, <2>3, <2>4, Zenon
<1>15. \A q \in Device : Len(sent'[q]) \in Nat /\ Len(sent[q]) <= Len(sent'[q])
  BY <1>8, <1>13, <1>14
<1> HIDE DEF old
<1> DEFINE id == SessionId(old)
<1>16. /\ \A q \in Device : LiveIds(q) \subseteq LiveIds(q)'
       /\ \A q \in Device : StoredIds(q) \subseteq StoredIds(q)'
       /\ id \in StoredIds(p)'
       /\ StoredIds(Peer(p))' = StoredIds(Peer(p))
  <2>1. ASSUME NEW q \in Device, NEW i \in LiveIds(q) PROVE i \in LiveIds(q)'
    <3>1. PICK t \in Slot : session[q][t].created /\ i = SessionId(session[q][t])
      BY ObjectsAre
    <3>2. session'[q][t].created /\ i = SessionId(session'[q][t])
      BY <1>3, <1>12, <3>1 DEF old
    <3> QED BY <3>2 DEF LiveIds
  <2>2. PickledSession(e) # NoPickle /\ SessionId(PickledSession(e)) = id
    BY <1>3, SamePickled, UnpickledFields
  <2>3. ASSUME NEW q \in Device, NEW i \in StoredIds(q) PROVE i \in StoredIds(q)'
    <3>1. PICK t \in Slot : stored[q].session[t] # NoPickle /\ i = SessionId(stored[q].session[t])
      BY ObjectsAre
    <3>2. stored'[q].session[t] # NoPickle /\ i = SessionId(stored'[q].session[t])
      BY <1>12, <2>2, <3>1 DEF KeysInv, IInv, PicklesFollow, old
    <3> QED BY <3>2 DEF StoredIds, NoPickle
  <2>4. id \in StoredIds(p)'
    <3>1. stored'[p].session[s] # NoPickle /\ id = SessionId(stored'[p].session[s])
      BY <1>12, <2>2
    <3> HIDE DEF id
    <3> QED BY <3>1 DEF StoredIds, NoPickle
  <2>5. StoredIds(Peer(p))' = StoredIds(Peer(p))
    BY <1>12, Devices DEF StoredIds, NoPickle
  <2> QED BY <2>1, <2>3, <2>4, <2>5
<1>17. ASSUME NEW q \in Device, NEW x \in ObjectsOf(q)'
       PROVE  \/ \E y \in ObjectsOf(q) : Same(x, y) /\ Unsent(SessionId(y), q)
              \/ q = p /\ \E y \in {e} : Same(x, y)
  <2>1. PICK t \in Slot : x \in SessionsOf(q, t)'
    BY DEF ObjectsOf
  <2>2. CASE q = p /\ t = s
    <3>1. x = e \/ x = PickledSession(e)
      BY <1>12, <2>1, <2>2 DEF SessionsOf
    <3> QED BY <2>2, <3>1, SamePickled
  <2>3. CASE ~(q = p /\ t = s)
    <3>1. x \in SessionsOf(q, t)
      BY <1>12, <2>1, <2>3 DEF SessionsOf, NoPickle
    <3>2. Unsent(SessionId(x), q)
      <4>1. CASE q # p
        BY <1>13, <4>1 DEF Unsent
      <4>2. CASE q = p
        <5>1. SecretOf(SessionId(x)) # SecretOf(id)
          BY <1>4, <2>3, <3>1, <4>2, SecretsApart
        <5>2. m.body.mac_key.chain[1] = SecretOf(id)
          BY <1>10 DEF EncryptReaches
        <5> HIDE DEF id
        <5> QED BY <1>14, <4>2, <5>1, <5>2 DEF Unsent
      <4> QED BY <4>1, <4>2
    <3> QED BY <3>1, <3>2, SamePickled DEF ObjectsOf
  <2> QED BY <2>2, <2>3
<1>18. Gone' = Gone
  BY <1>1 DEF Gone
<1>19. RatchetsReach'
  <2> DEFINE news == {e}
  <2>1. \A q \in Device : /\ forgotten[q] \subseteq forgotten'[q]
                          /\ Len(sent[q]) \in Nat /\ Len(sent'[q]) \in Nat
                          /\ Len(sent[q]) <= Len(sent'[q])
                          /\ StoredIds(q) \subseteq StoredIds(q)' \cup forgotten'[q]
    BY <1>1, <1>8, <1>15, <1>16
  <2>2. \A q \in Device : \A x \in ObjectsOf(q)' :
              \/ \E y \in ObjectsOf(q) : Same(x, y) /\ Unsent(SessionId(y), q)
              \/ q = p /\ \E y \in news : Same(x, y)
    BY <1>17
  <2>3. sent'[p] = Append(sent[p], m)
    BY <1>13
  <2>4. Reaching(e, p, Gone', StoredIds(Peer(p))', forgotten'[p], sent'[p])
    BY <1>1, <1>7, <1>10, <1>16, <1>18, <2>3 DEF EncryptReaches, Reaching
  <2>5. Paired(e, ObjectsOf(Peer(p)), Gone')
    BY <1>3, <1>7, <1>11, <1>18 DEF Paired
  <2>6. \A y \in news :
              /\ Reaching(y, p, Gone', StoredIds(Peer(p))', forgotten'[p], sent'[p])
              /\ Paired(y, ObjectsOf(Peer(p)), Gone')
              /\ FewOn(y.ratchet, Len(sent'[p]))
              /\ y.ratchet.sender_chain # <<>> =>
                    y.ratchet.sender_chain[1].chain_key.index \in Nat
    BY <1>10, <2>4, <2>5 DEF Reaching, EncryptReaches
  <2>7. p \in Device /\ KeysInv /\ ReadInv /\ RatchetsReach
    BY DEF ReachInv
  <2> HIDE DEF news
  <2> QED BY ONLY <2>1, <2>2, <2>6, <2>7, RatchetsStep
<1>20. LettersReach'
  <2> SUFFICES ASSUME NEW q \in Device, NEW i \in DOMAIN sent'[q]
               PROVE  /\ FirstLetter(sent'[q][i], q)
                      /\ \E d \in StoredIds(q)' \cup forgotten'[q] :
                            SecretOf(d) = sent'[q][i].body.mac_key.chain[1]
    BY DEF LettersReach
  <2>1. CASE i \in DOMAIN sent[q] /\ sent'[q][i] = sent[q][i]
    BY <1>1, <1>16, <2>1 DEF ReachInv, LettersReach
  <2>2. CASE q = p /\ sent'[q][i] = m
    <3>1. FirstLetter(m, p) /\ m.body.mac_key.chain[1] = SecretOf(id)
      BY <1>10 DEF EncryptReaches
    <3> HIDE DEF id
    <3> QED BY <1>16, <2>2, <3>1
  <2> QED BY <1>13, <1>14, <2>1, <2>2
<1>21. FewSent'
  <2> DEFINE a  == Len(sent[Alice])
             b  == Len(sent[Bob])
             a2 == Len(sent'[Alice])
             b2 == Len(sent'[Bob])
  <2>1. /\ a \in Nat /\ b \in Nat /\ MaxSends \in Nat
        /\ a + b < MaxSends
    BY <1>1, <1>8, Devices, BoundsAssumption
  <2>2. (a2 = a + 1 /\ b2 = b) \/ (a2 = a /\ b2 = b + 1)
    <3>1. p = Alice \/ p = Bob
      BY DEF Device
    <3>2. Alice # Bob /\ Alice \in Device /\ Bob \in Device
      BY Devices, DevicesAssumption
    <3> QED BY <1>13, <1>14, <3>1, <3>2
  <2> HIDE DEF a, b, a2, b2
  <2>3. a2 + b2 <= MaxSends
    BY <2>1, <2>2
  <2> QED BY <2>3 DEF FewSent, a2, b2
<1>22. UsedIds' \subseteq UsedIds
  <2> SUFFICES ASSUME NEW i \in UsedIds' PROVE i \in UsedIds
    OBVIOUS
  <2>1. UsedParts'
    BY UsedAre, PTL
  <2>2. \/ \E q \in Device : \E x \in ObjectsOf(q)' : i = SessionId(x)
        \/ \E q \in Device : \E k \in DOMAIN sent'[q] :
              sent'[q][k].type = "PRE_KEY" /\ i = MessageId(sent'[q][k])
    BY <2>1 DEF UsedParts
  <2>3. id \in UsedIds
    BY <1>4, UsedAre DEF UsedParts
  <2>4. ASSUME NEW q \in Device, NEW x \in ObjectsOf(q)', i = SessionId(x)
        PROVE  i \in UsedIds
    <3>1. CASE \E y \in ObjectsOf(q) : Same(x, y)
      BY <2>4, <3>1, SameParts, UsedAre DEF UsedParts
    <3>2. CASE Same(x, e)
      BY <1>3, <2>3, <2>4, <3>2, SameParts
    <3> QED BY <1>17, <3>1, <3>2
  <2>5. ASSUME NEW q \in Device, NEW k \in DOMAIN sent'[q],
               sent'[q][k].type = "PRE_KEY", i = MessageId(sent'[q][k])
        PROVE  i \in UsedIds
    <3>1. CASE k \in DOMAIN sent[q] /\ sent'[q][k] = sent[q][k]
      BY <2>5, <3>1, UsedAre DEF UsedParts
    <3>2. CASE sent'[q][k] = m
      BY <1>5, <2>3, <2>5, <3>2
    <3> QED BY <1>13, <1>14, <3>1, <3>2
  <2> QED BY <2>2, <2>4, <2>5
<1>23. KeysClaimed' /\ KeysKept'
  <2>1. \A q \in Device : /\ LiveIds(q) \subseteq LiveIds(q)' \cup Gone'
                          /\ StoredIds(q) \subseteq StoredIds(q)' \cup Gone'
    BY <1>16
  <2> QED BY <1>1, <1>12, <1>18, <1>22, <2>1, KeysStay DEF ReachInv
<1> QED BY <1>19, <1>20, <1>21, <1>23 DEF ReachInv

-----------------------------------------------------------------------------

(* Initially there is no session and no message, and all keys are there.   *)
LEMMA InitReach == Init => ReachInv
<1> SUFFICES ASSUME Init PROVE ReachInv
  OBVIOUS
<1>1. /\ \A p \in Device, s \in Slot :
           session[p][s] = SessionInit /\ stored[p].session[s] = NoPickle
      /\ \A p \in Device : /\ sent[p] = <<>>
                           /\ one_time_keys[p] = PublishedKeys(p)
                           /\ stored[p].one_time_keys = PublishedKeys(p)
  BY DEF Init
<1>2. \A p \in Device, s \in Slot : SessionsOf(p, s) = {}
  BY <1>1 DEF SessionsOf, SessionInit
<1>3. \A p \in Device : ObjectsOf(p) = {}
  BY <1>2 DEF ObjectsOf
<1>4. \A p \in Device : DOMAIN sent[p] = {} /\ Len(sent[p]) = 0
  BY <1>1
<1>5. \A id : id \notin UsedIds
  BY <1>3, <1>4, UsedAre DEF UsedParts
<1>6. RatchetsReach /\ LettersReach /\ KeysKept
  BY <1>3, <1>4, <1>5 DEF RatchetsReach, LettersReach, KeysKept
<1>7. KeysClaimed
  BY <1>1, <1>5 DEF KeysClaimed
<1>8. FewSent
  <2>1. Len(sent[Alice]) = 0 /\ Len(sent[Bob]) = 0
    BY <1>4, Devices
  <2> QED BY <2>1, BoundsAssumption DEF FewSent
<1> QED BY <1>6, <1>7, <1>8 DEF ReachInv

(* ReachInv is inductive, relative to KeysInv and ReadInv.                 *)
LEMMA NextReach == KeysInv /\ ReadInv /\ ReachInv /\ [Next]_vars => ReachInv'
<1> SUFFICES ASSUME KeysInv, ReadInv, ReachInv, [Next]_vars PROVE ReachInv'
  OBVIOUS
<1>1. ASSUME NEW p \in Device, NEW s \in Slot, CreateOutboundSession(p, s) PROVE ReachInv'
  BY <1>1, CreateOutboundReach
<1>2. ASSUME NEW p \in Device, NEW s \in Slot, NEW theirs,
             NEW m \in Range(sent[Peer(p)]), CreateInboundSession(p, s, theirs, m)
      PROVE  ReachInv'
  BY <1>2, CreateInboundReach
<1>3. ASSUME NEW p \in Device, NEW s \in Slot, RemoveOneTimeKeys(p, s) PROVE ReachInv'
  BY <1>3, RemoveReach
<1>4. ASSUME NEW p \in Device, NEW s \in Slot, Encrypt(p, s) PROVE ReachInv'
  BY <1>4, EncryptReach
<1>5. ASSUME NEW p \in Device, NEW s \in Slot, NEW m \in Range(sent[Peer(p)]), Decrypt(p, s, m)
      PROVE  ReachInv'
  BY <1>5, DecryptReach
<1>6. ASSUME NEW p \in Device, NEW s \in Slot, PickleSession(p, s) PROVE ReachInv'
  BY <1>6, PickleReach
<1>7. ASSUME NEW p \in Device, PickleAccount(p) PROVE ReachInv'
  BY <1>7, AccountReach
<1>8. ASSUME NEW p \in Device, Restart(p) PROVE ReachInv'
  BY <1>8, RestartReach
<1>9. ASSUME NEW p \in Device, NEW s \in Slot, Forget(p, s) PROVE ReachInv'
  BY <1>9, ForgetReach
<1>10. CASE UNCHANGED vars
  <2>1. /\ UNCHANGED <<session, sent, claimed, forgotten, one_time_keys>>
        /\ \A q \in Device : /\ stored'[q].session = stored[q].session
                             /\ stored'[q].one_time_keys = stored[q].one_time_keys
    BY <1>10 DEF vars
  <2>2. /\ RatchetsReach' /\ LettersReach' /\ FewSent'
        /\ UsedIds' \subseteq UsedIds
        /\ Gone' = Gone
        /\ \A q \in Device : LiveIds(q)' = LiveIds(q) /\ StoredIds(q)' = StoredIds(q)
    BY <2>1, SessionsLeft
  <2>3. \A q \in Device : /\ LiveIds(q) \subseteq LiveIds(q)' \cup Gone'
                          /\ StoredIds(q) \subseteq StoredIds(q)' \cup Gone'
    BY <2>2
  <2>4. KeysClaimed' /\ KeysKept'
    BY <2>1, <2>2, <2>3, KeysStay DEF ReachInv
  <2> QED BY <2>2, <2>4 DEF ReachInv
<1> QED BY <1>1, <1>2, <1>3, <1>4, <1>5, <1>6, <1>7, <1>8, <1>9, <1>10 DEF Next

(* The sessions of the two devices are in step, and the keys that open     *)
(* them are kept, in every reachable state.                                *)
THEOREM SpecReachInv == Spec => []ReachInv
<1>1. Init => KeysInv /\ ReadInv /\ ReachInv
  BY InitKeys, InitReads, InitReach
<1>2. KeysInv /\ ReadInv /\ ReachInv /\ [Next]_vars => KeysInv' /\ ReadInv' /\ ReachInv'
  BY NextKeys, NextReads, NextReach
<1> QED BY <1>1, <1>2, PTL DEF Spec

(* The peer reads the next message of a session it has,                    *)
LEMMA PeerReads ==
    ASSUME KeysInv, ReadInv, ReachInv, MaxSends <= MAX_MESSAGE_GAP,
           NEW p \in Device, NEW s \in Slot, session[p][s].created,
           SessionId(session[p][s]) \notin Gone,
           NEW m, m = NextMessage(p, s)
    PROVE  /\ m.body.counter \in Nat /\ m.body.counter <= MAX_MESSAGE_GAP
           /\ \A t \in Slot :
                 /\ session[Peer(p)][t].created
                 /\ SessionId(session[Peer(p)][t]) = SessionId(session[p][s])
                 => Decrypts(session[Peer(p)][t].ratchet, m.body)
<1> DEFINE x == session[p][s]
           b == m.body
           n == Len(sent[p]) + 1
           fresh == <<p, "ratchet", generated[p]>>
<1>1. b = EncryptedMessage(x.ratchet, fresh, n)
  BY DEF NextMessage, SessionMessage, FreshKey
<1>2. x \in ObjectsOf(p)
  BY ObjectsAre
<1> HIDE DEF x, b, n
<1>3. /\ generated \in Counts /\ opened \in Counts
      /\ GoodRatchet(x.ratchet, p, generated, opened) /\ Receiving(x.ratchet)
  BY <1>2, ObjectParts
<1>4. FewOn(x.ratchet, Len(sent[p])) /\ Paired(x, ObjectsOf(Peer(p)), Gone)
  BY <1>2 DEF ReachInv, RatchetsReach, Reaching
<1>5. Len(sent[p]) \in Nat /\ Len(sent[p]) <= MAX_MESSAGE_GAP
  <2> DEFINE a == Len(sent[Alice])
             c == Len(sent[Bob])
  <2>1. a \in Nat /\ c \in Nat /\ a + c <= MaxSends
    BY Devices DEF KeysInv, IInv, Shape, ReachInv, FewSent
  <2>2. MaxSends \in Nat /\ MAX_MESSAGE_GAP \in Nat
    BY BoundsAssumption, MessageGapAssumption
  <2> HIDE DEF a, c
  <2>3. a <= MAX_MESSAGE_GAP /\ c <= MAX_MESSAGE_GAP
    BY <2>1, <2>2
  <2> QED BY <2>1, <2>3 DEF Device, a, c
<1>6. b.counter \in Nat /\ b.counter <= MAX_MESSAGE_GAP
  <2> DEFINE e == AfterEncrypt(x.ratchet, fresh)
  <2>1. e = AfterEncrypt(x.ratchet, fresh)
    OBVIOUS
  <2> HIDE DEF e, fresh
  <2>2. SendsNext(x.ratchet, e, b, fresh)
    BY <1>1, <1>3, <2>1, EncryptSends
  <2>3. b.counter \in Nat /\ (b.counter = 0 \/ b.counter <= Len(sent[p]))
    BY <1>4, <2>2 DEF SendsNext, FewOn
  <2> QED BY <1>5, <2>3, MessageGapAssumption
<1>7. ASSUME NEW t \in Slot, session[Peer(p)][t].created,
             SessionId(session[Peer(p)][t]) = SessionId(x)
      PROVE  Decrypts(session[Peer(p)][t].ratchet, b)
  <2> DEFINE y == session[Peer(p)][t]
  <2>1. Peer(p) \in Device
    BY Devices
  <2>2. y \in ObjectsOf(Peer(p))
    BY <1>7, <2>1, ObjectsAre
  <2>3. SessionId(y) = SessionId(x)
    BY <1>7
  <2> HIDE DEF y
  <2>4. InStep(x.ratchet, y.ratchet)
    BY <1>4, <2>2, <2>3 DEF Paired, x
  <2>5. GoodRatchet(y.ratchet, Peer(p), generated, opened) /\ Receiving(y.ratchet)
    BY <2>1, <2>2, ObjectParts
  <2>6. Decrypts(y.ratchet, b)
    BY <1>1, <1>3, <1>6, <2>1, <2>4, <2>5, NextDecrypts
  <2> QED BY <2>6 DEF y
<1> QED BY <1>6, <1>7 DEF x, b

(* and the next message of one it has not opens it.                        *)
LEMMA PeerOpens ==
    ASSUME KeysInv, ReadInv, ReachInv, MaxSends <= MAX_MESSAGE_GAP,
           NEW p \in Device, NEW s \in Slot, session[p][s].created,
           SessionId(session[p][s]) \notin Gone,
           SessionId(session[p][s]) \notin LiveIds(Peer(p)),
           NEW m, m = NextMessage(p, s), m.type = "PRE_KEY",
           NEW e, e = NewInboundSession(SessionInit, Identity(Peer(p)), LookupKeys(Peer(p)),
                                        NoKey, m)
    PROVE  e.created /\ Decrypts(e.ratchet, m.body)
<1> DEFINE x == session[p][s]
           b == m.body
           id == SessionId(x)
           n == Len(sent[p]) + 1
           fresh == <<p, "ratchet", generated[p]>>
           f == AfterEncrypt(x.ratchet, fresh)
           secret == TripleDH(m.identity_key, m.base_key, Identity(Peer(p)), m.one_time_key)
<1>1. /\ b = EncryptedMessage(x.ratchet, fresh, n)
      /\ m.identity_key = id[1] /\ m.base_key = id[2] /\ m.one_time_key = id[3]
  BY DEF NextMessage, SessionMessage, FreshKey, SessionId
<1>2. x \in ObjectsOf(p) /\ Peer(p) \in Device /\ Peer(Peer(p)) = p
  BY ObjectsAre, Devices
<1>3. id \notin Gone /\ id \notin LiveIds(Peer(p)) /\ id[1] = x.alice_identity_key
  BY DEF SessionId
<1>4. b.counter \in Nat /\ b.counter <= MAX_MESSAGE_GAP
  BY PeerReads
<1>5. f = AfterEncrypt(x.ratchet, fresh)
  OBVIOUS
<1> HIDE DEF x, b, n, f, fresh
<1>6. /\ generated \in Counts /\ opened \in Counts
      /\ GoodRatchet(x.ratchet, p, generated, opened) /\ Receiving(x.ratchet)
      /\ x.ratchet.root_key[1] = SecretOf(id)
  BY <1>2, ObjectParts
<1>7. FirstOne(x, p) /\ Partnered(x, p, Gone, StoredIds(Peer(p)))
  BY <1>2 DEF ReachInv, RatchetsReach, Reaching
<1>8. x.alice_identity_key = Identity(p) /\ Len(x.ratchet.root_key) = 1
  <2>1. id \notin StoredIds(Peer(p))
    BY <1>2, <1>3, DurableIds
  <2> QED BY <1>3, <1>7, <2>1 DEF Partnered
<1>9. x.ratchet.sender_chain # <<>>
  BY <1>7, <1>8 DEF FirstOne
<1>10. m.one_time_key \in LookupKeys(Peer(p))
  <2>1. id \in UsedIds
    BY <1>2, UsedAre DEF UsedParts
  <2> QED BY <1>1, <1>2, <1>3, <1>8, <2>1 DEF ReachInv, KeysKept, LookupKeys
<1>11. e.created /\ e.ratchet = InitialiseAsBob(secret, b.ratchet_key)
  <2> HIDE DEF secret
  <2> QED BY <1>10 DEF NewInboundSession, WithKeysOf, SessionInit, CheckMessageFields,
                       SameIdentity, secret, b
<1>12. secret = SecretOf(id)
  <2>1. id[1][1] = p
    BY <1>3, <1>8 DEF Identity
  <2> HIDE DEF id
  <2> QED BY <1>1, <2>1, Zenon DEF SecretOf, secret
<1> HIDE DEF secret, id
<1>13. x.ratchet.root_key = <<secret>>
  <2>1. IsSequence(x.ratchet.root_key)
    BY <1>6, RatchetParts
  <2> QED BY <1>6, <1>8, <1>12, <2>1 DEF IsSequence
<1>14. b.mac_key = [chain |-> <<secret>>, index |-> b.counter]
  <2>1. SendsNext(x.ratchet, f, b, fresh)
    BY <1>1, <1>5, <1>6, EncryptSends
  <2>2. f.root_key = x.ratchet.root_key
    BY <1>5, <1>6, <1>9, EncryptParts
  <2> QED BY <1>13, <2>1, <2>2 DEF SendsNext
<1>15. Decrypts(e.ratchet, b)
  BY <1>4, <1>11, <1>14, OpenedDecrypts
<1> QED BY <1>11, <1>15 DEF b

(* A session never breaks down: the next message of each session can be    *)
(* read by the other device, with a session it has or with one that the    *)
(* message opens, unless one of the two has deleted the session.  No more  *)
(* messages are taken to be sent than a receiver chain can skip at once.   *)
THEOREM SpecAlwaysReachable ==
    ASSUME MaxSends <= MAX_MESSAGE_GAP
    PROVE  Spec => []AlwaysReachable
<1>1. KeysInv /\ ReadInv /\ ReachInv => AlwaysReachable
  <2> SUFFICES ASSUME KeysInv, ReadInv, ReachInv, NEW p \in Device, NEW s \in Slot,
                      session[p][s].created, SessionId(session[p][s]) \notin Gone
               PROVE  CanRead(Peer(p), NextMessage(p, s))
    BY DEF AlwaysReachable, Gone
  <2> DEFINE x  == session[p][s]
             m  == NextMessage(p, s)
             q  == Peer(p)
             id == SessionId(x)
             e  == NewInboundSession(SessionInit, Identity(q), LookupKeys(q), NoKey, m)
  <2>1. q \in Device /\ x \in ObjectsOf(p)
    BY ObjectsAre, Devices
  <2>2. \A t \in Slot : session[q][t].created /\ SessionId(session[q][t]) = id
                          => Decrypts(session[q][t].ratchet, m.body)
    BY PeerReads
  <2>3. /\ m.type = "MESSAGE" => x.received_message
        /\ m.type # "MESSAGE" =>
              /\ m.type = "PRE_KEY"
              /\ id = <<m.identity_key, m.base_key, m.one_time_key>>
    BY DEF NextMessage, SessionMessage, EncryptMessageType, SessionId
  <2>4. m.type = "PRE_KEY" /\ id \notin LiveIds(q) => e.created /\ Decrypts(e.ratchet, m.body)
    BY PeerOpens
  <2> HIDE DEF m, q, e
  <2>5. CASE m.type = "MESSAGE"
    <3>1. FirstOne(x, p) /\ Partnered(x, p, Gone, StoredIds(q)) /\ FirstChain(x)
      BY <2>1, ObjectParts DEF ReachInv, RatchetsReach, Reaching, q
    <3>2. id \in StoredIds(q)
      BY <2>3, <2>5, <3>1 DEF FirstOne, Partnered, FirstChain
    <3>3. PICK t \in Slot : session[q][t].created /\ id = SessionId(session[q][t])
      BY <2>1, <3>2, DurableIds, ObjectsAre
    <3>4. SessionDecrypts(session[q][t], m.type, m)
      BY <2>2, <3>3 DEF SessionDecrypts
    <3>5. CanRead(q, m)
      BY <2>5, <3>3, <3>4 DEF CanRead
    <3> QED BY <3>5 DEF q, m
  <2>6. CASE m.type # "MESSAGE" /\ MatchingSlots(q, NoKey, m) # {}
    <3>1. PICK t \in MatchingSlots(q, NoKey, m) : TRUE
      BY <2>6
    <3>2. t \in Slot /\ session[q][t].created /\ SessionId(session[q][t]) = id
      BY <2>3, <2>6, <3>1 DEF MatchingSlots, MatchesInboundSession, SessionId
    <3>3. SessionDecrypts(session[q][t], m.type, m)
      BY <2>2, <3>2 DEF SessionDecrypts
    <3>4. CanRead(q, m)
      BY <2>6, <3>1, <3>3 DEF CanRead
    <3> QED BY <3>4 DEF q, m
  <2>7. CASE m.type # "MESSAGE" /\ MatchingSlots(q, NoKey, m) = {}
    <3>1. id \notin LiveIds(q)
      <4> SUFFICES ASSUME NEW t \in Slot, session[q][t].created, id = SessionId(session[q][t])
                   PROVE  FALSE
        BY <2>1, ObjectsAre
      <4>1. MatchesInboundSession(session[q][t], NoKey, m)
        BY <2>3, <2>7 DEF MatchesInboundSession, SessionId, CheckMessageFields
      <4> QED BY <2>7, <4>1 DEF MatchingSlots
    <3>2. e.created /\ SessionDecrypts(e, m.type, m)
      BY <2>3, <2>4, <2>7, <3>1 DEF SessionDecrypts
    <3>3. CanRead(q, m)
      BY <2>7, <3>2, Zenon DEF CanRead, e
    <3> QED BY <3>3 DEF q, m
  <2> QED BY <2>5, <2>6, <2>7
<1> QED BY <1>1, SpecKeysInv, SpecReadInv, SpecReachInv, PTL

=============================================================================

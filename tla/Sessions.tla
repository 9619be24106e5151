------------------------------- MODULE Sessions -------------------------------
(***************************************************************************)
(* Two devices that open sessions with each other (src/session.c behind    *)
(* src/olm.c), over a transport that loses, repeats and reorders.  Both    *)
(* may open at the same time; either may crash at any moment and is then   *)
(* restored from what it pickled last.                                     *)
(*                                                                         *)
(* The application is not part of the library.  It is taken to             *)
(*   - look for a session that matches a pre-key message before it creates *)
(*     a new one, which is what olm.h offers the matching functions for;   *)
(*   - pickle a session before it lets go of a message made with it: a     *)
(*     message whose session was lost first is as if it was never made;    *)
(*   - pickle an account that has lost a one-time key after the session    *)
(*     made with that key.                                                 *)
(***************************************************************************)
EXTENDS Session, FiniteSets, SequencesExt

CONSTANTS
    Alice, Bob,     \* the two devices
    Slot,           \* session objects of each device
    OneTimeKeys,    \* one-time keys each device has published
    MaxOpens,       \* bound: sessions the two open together
    MaxSends,       \* bound: messages the two encrypt together
    MaxForgets      \* bound: sessions the two delete together

ASSUME DevicesAssumption == Alice # Bob
ASSUME BoundsAssumption ==
    OneTimeKeys \in Nat /\ MaxOpens \in Nat /\ MaxSends \in Nat /\ MaxForgets \in Nat

VARIABLES
    one_time_keys,  \* one_time_keys[p]: those the account of p still has
    session,        \* session[p][s]: the OlmSession in object s of p
    read,           \* read[p][s]: the plaintexts p has got out of it
    stored,         \* stored[p]: what p would be restored from
    claimed,        \* the one-time keys the server has given away
    opened,         \* opened[p]: how many sessions p has opened
    generated,      \* generated[p]: ratchet key pairs p generated to encrypt
    sent,           \* sent[p]: the messages p encrypted, in that order
    forgotten       \* forgotten[p]: ids of sessions p has deleted

vars == <<one_time_keys, session, read, stored, claimed, opened, generated, sent,
          forgotten>>

Device == {Alice, Bob}

Peer(p) == IF p = Alice THEN Bob ELSE Alice

Identity(p) == <<p, "identity", 0>>

FallbackKey(p) == <<p, "fallback", 0>>

(* What is stored for an object that was never pickled.                   *)
NoPickle == <<>>

PublishedKeys(p) == {<<p, "one-time", i>> : i \in 1 .. OneTimeKeys}

(* What _olm_account_lookup_key finds.                                     *)
LookupKeys(p) == one_time_keys[p] \cup {FallbackKey(p)}

Init ==
    /\ one_time_keys = [p \in Device |-> PublishedKeys(p)]
    /\ session = [p \in Device |-> [s \in Slot |-> SessionInit]]
    /\ read = [p \in Device |-> [s \in Slot |-> {}]]
    /\ stored = [p \in Device |-> [one_time_keys |-> one_time_keys[p],
                                   session |-> [s \in Slot |-> NoPickle],
                                   read    |-> read[p]]]
    /\ claimed = {}
    /\ opened = [p \in Device |-> 0]
    /\ generated = [p \in Device |-> 0]
    /\ sent = [p \in Device |-> <<>>]
    /\ forgotten = [p \in Device |-> {}]

-----------------------------------------------------------------------------
(* The server gives each one-time key away once and then falls back.       *)
Claimable(p) ==
    LET left == PublishedKeys(p) \ claimed
    IN  IF left = {} THEN {FallbackKey(p)} ELSE {CHOOSE key \in left : TRUE}

CreateOutboundSession(p, s) ==
    /\ ~session[p][s].created
    /\ opened[Alice] + opened[Bob] < MaxOpens
    /\ \E key \in Claimable(Peer(p)) :
         /\ session' = [session EXCEPT ![p][s] =
                          NewOutboundSession(@, Identity(p), Identity(Peer(p)), key,
                                             <<p, "base", opened[p]>>,
                                             <<p, "initial", opened[p]>>)]
         /\ claimed' = claimed \cup {key}
    /\ opened' = [opened EXCEPT ![p] = @ + 1]
    /\ UNCHANGED <<one_time_keys, read, stored, generated, sent, forgotten>>

MatchingSlots(p, their_identity_key, m) ==
    {s \in Slot : /\ session[p][s].created
                  /\ MatchesInboundSession(session[p][s], their_identity_key, m)}

(* The application may name the sender, rightly or wrongly, or leave it to *)
(* the message; and it may take a normal message for a pre-key message.    *)
CreateInboundSession(p, s, their_identity_key, m) ==
    /\ ~session[p][s].created
    /\ MatchingSlots(p, their_identity_key, m) = {}
    /\ session' = [session EXCEPT ![p][s] =
                     NewInboundSession(@, Identity(p), LookupKeys(p),
                                       their_identity_key, m)]
    /\ UNCHANGED <<one_time_keys, read, stored, claimed, opened, generated, sent, forgotten>>

(* A fallback key is found and stays.                                      *)
RemoveOneTimeKeys(p, s) ==
    /\ session[p][s].created
    /\ session[p][s].bob_one_time_key \in one_time_keys[p]
    /\ one_time_keys' = [one_time_keys EXCEPT ![p] = @ \ {session[p][s].bob_one_time_key}]
    /\ UNCHANGED <<session, read, stored, claimed, opened, generated, sent, forgotten>>

FreshKey(p) == <<p, "ratchet", generated[p]>>

NextMessage(p, s) ==
    SessionMessage(session[p][s], FreshKey(p), Len(sent[p]) + 1)

Encrypt(p, s) ==
    /\ session[p][s].created
    /\ Len(sent[Alice]) + Len(sent[Bob]) < MaxSends
    /\ sent' = [sent EXCEPT ![p] = Append(@, NextMessage(p, s))]
    /\ session' = [session EXCEPT ![p][s] = SessionAfterEncrypt(@, FreshKey(p))]
    /\ generated' = [generated EXCEPT
                       ![p] = IF session[p][s].ratchet.sender_chain = <<>>
                                THEN @ + 1 ELSE @]
    /\ stored' = [stored EXCEPT ![p].session[s] = PickledSession(session'[p][s]),
                                ![p].read[s]    = read[p][s]]
    /\ UNCHANGED <<one_time_keys, read, claimed, opened, forgotten>>

Decrypt(p, s, m) ==
    /\ session[p][s].created
    /\ m.type = "PRE_KEY" => s \in MatchingSlots(p, NoKey, m)
    /\ SessionDecrypts(session[p][s], m.type, m)
    /\ session' = [session EXCEPT ![p][s] = SessionAfterDecrypt(@, m)]
    /\ read' = [read EXCEPT ![p][s] = @ \cup {m.body.plaintext}]
    /\ UNCHANGED <<one_time_keys, stored, claimed, opened, generated, sent, forgotten>>

PickleSession(p, s) ==
    /\ session[p][s].created
    /\ stored' = [stored EXCEPT ![p].session[s] = PickledSession(session[p][s]),
                                ![p].read[s]    = read[p][s]]
    /\ UNCHANGED <<one_time_keys, session, read, claimed, opened, generated, sent, forgotten>>

(* A session that was not pickled yet still has its one-time key in the    *)
(* account, unless it is one that p opened, with a key of its peer.        *)
NeededKeysLeft(p) ==
    \A s \in Slot :
        session[p][s].created /\ stored[p].session[s] = NoPickle
          => \/ session[p][s].bob_one_time_key \in LookupKeys(p)
             \/ session[p][s].alice_identity_key = Identity(p)

PickleAccount(p) ==
    /\ NeededKeysLeft(p)
    /\ stored' = [stored EXCEPT ![p].one_time_keys = one_time_keys[p]]
    /\ UNCHANGED <<one_time_keys, session, read, claimed, opened, generated, sent, forgotten>>

Restart(p) ==
    /\ one_time_keys' = [one_time_keys EXCEPT ![p] = stored[p].one_time_keys]
    /\ session' = [session EXCEPT ![p] = [s \in Slot |->
                     IF stored[p].session[s] = NoPickle
                       THEN SessionInit
                       ELSE UnpickledSession(stored[p].session[s])]]
    /\ read' = [read EXCEPT ![p] = stored[p].read]
    /\ UNCHANGED <<stored, claimed, opened, generated, sent, forgotten>>

(* The application deletes a session for good, and clears the object.       *)
Forget(p, s) ==
    /\ session[p][s].created
    /\ Cardinality(forgotten[Alice]) + Cardinality(forgotten[Bob]) < MaxForgets
    /\ session' = [session EXCEPT ![p][s] = SessionInit]
    /\ stored' = [stored EXCEPT ![p].session[s] = NoPickle,
                                ![p].read[s]    = read[p][s]]
    /\ forgotten' = [forgotten EXCEPT ![p] = @ \cup {SessionId(session[p][s])}]
    /\ UNCHANGED <<one_time_keys, read, claimed, opened, generated, sent>>

Next ==
    \E p \in Device :
        \/ \E s \in Slot :
             \/ CreateOutboundSession(p, s)
             \/ RemoveOneTimeKeys(p, s)
             \/ Encrypt(p, s)
             \/ PickleSession(p, s)
             \/ Forget(p, s)
             \/ \E m \in Range(sent[Peer(p)]) :
                  \/ Decrypt(p, s, m)
                  \/ \E id \in {NoKey, Identity(Alice), Identity(Bob)} :
                       CreateInboundSession(p, s, id, m)
        \/ PickleAccount(p)
        \/ Restart(p)

Spec == Init /\ [][Next]_vars

-----------------------------------------------------------------------------
(* Can p read message m now, with a session it has or one m opens?         *)
CanRead(p, m) ==
    IF m.type = "MESSAGE"
      THEN \E s \in Slot : /\ session[p][s].created
                           /\ SessionDecrypts(session[p][s], m.type, m)
      ELSE IF MatchingSlots(p, NoKey, m) # {}
        THEN \E s \in MatchingSlots(p, NoKey, m) :
               SessionDecrypts(session[p][s], m.type, m)
        ELSE LET s == NewInboundSession(SessionInit, Identity(p), LookupKeys(p),
                                        NoKey, m)
             IN  s.created /\ SessionDecrypts(s, m.type, m)

(* Type invariant.  An object the application was told is a session has a  *)
(* ratchet with a chain, and one it was told is none, fresh or left behind *)
(* by a creation that failed, has nothing it could decrypt with.           *)
TypeOK ==
    /\ claimed \subseteq UNION {LookupKeys(p) \cup PublishedKeys(p) : p \in Device}
    /\ \A p \in Device :
         /\ one_time_keys[p] \subseteq PublishedKeys(p)
         /\ stored[p].one_time_keys \subseteq PublishedKeys(p)
         /\ opened[p] \in Nat /\ generated[p] \in Nat
         /\ \A s \in Slot :
              LET r == session[p][s].ratchet
              IN  /\ session[p][s].created
                       <=> r.sender_chain # <<>> \/ r.receiver_chains # <<>>
                  /\ session[p][s].received_message => session[p][s].created
                  /\ Len(r.sender_chain) <= 1
                  /\ Len(r.receiver_chains) <= OLM_MAX_RECEIVER_CHAINS

(* A session never breaks down: whatever was lost, reordered or repeated,  *)
(* whichever side crashed, and however many sessions the two have, the     *)
(* next message of each session can be read by the other device, with a    *)
(* session it has or with one that the message opens.  Only where one of   *)
(* the two has deleted the session nothing is promised.                    *)
AlwaysReachable ==
    \A p \in Device, s \in Slot :
        \/ ~session[p][s].created
        \/ SessionId(session[p][s]) \in forgotten[Alice] \cup forgotten[Bob]
        \/ CanRead(Peer(p), NextMessage(p, s))

(* A message that was read is not read again, neither by the session that  *)
(* read it nor by another or a new one, and not after a restart either as  *)
(* long as the restart remembers that it was read.  The one exception is a *)
(* pre-key message of a session the device has deleted.                    *)
ReadOnce ==
    \A p \in Device : \A i \in DOMAIN sent[Peer(p)] :
        LET m == sent[Peer(p)][i]
        IN  (\E s \in Slot : i \in read[p][s]) /\ CanRead(p, m)
              => /\ m.type = "PRE_KEY"
                 /\ <<m.identity_key, m.base_key, m.one_time_key>> \in forgotten[p]

(* Repeated pre-key messages, several before the first answer, a restart   *)
(* that brings a used one-time key back: none of them makes a device open  *)
(* a second session for one opening.                                       *)
OneSessionPerId ==
    \A p \in Device : \A s, t \in Slot :
        /\ session[p][s].created
        /\ session[p][t].created
        /\ SessionId(session[p][s]) = SessionId(session[p][t])
        => s = t

(* No two messages are encrypted under the same key, in whichever session, *)
(* by whichever device, before and after however many restarts.            *)
MessageKeysUnique ==
    \A p, q \in Device : \A i \in DOMAIN sent[p], j \in DOMAIN sent[q] :
        sent[p][i].body.mac_key = sent[q][j].body.mac_key => p = q /\ i = j
=============================================================================

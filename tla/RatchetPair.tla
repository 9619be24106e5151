----------------------------- MODULE RatchetPair -----------------------------
(***************************************************************************)
(* Two double ratchets (src/ratchet.c) that share a secret and exchange    *)
(* messages.  The transport is not part of the library and promises        *)
(* nothing: every message ever sent stays in the pool and may be handed to *)
(* its recipient at any time, in any order, any number of times, or never. *)
(*                                                                         *)
(* A message that _olm_ratchet_decrypt refuses changes nothing here: the   *)
(* code only sets last_error, which ratchet.c never reads.                 *)
(***************************************************************************)
EXTENDS Ratchet, SequencesExt

CONSTANTS
    Alice,          \* the party that opens the session
    Bob,            \* the party that accepts it
    InitialSecret,  \* what the triple Diffie-Hellman gave both of them
    MaxSends        \* bound: messages the two encrypt together

ASSUME PartiesAssumption == Alice # Bob
ASSUME MaxSendsAssumption == MaxSends \in Nat

VARIABLES
    ratchet,    \* ratchet[p]: the _OlmRatchet of party p
    generated,  \* generated[p]: how many ratchet key pairs p has generated
    sent,       \* sent[p]: the messages p encrypted, in that order
    received    \* received[p]: the messages p decrypted, in that order

vars == <<ratchet, generated, sent, received>>

Party == {Alice, Bob}

Peer(p) == IF p = Alice THEN Bob ELSE Alice

(* Random bytes never repeat: the n-th key pair of a party is a new one.   *)
FreshKey(p) == <<p, generated[p]>>

Init ==
    /\ ratchet = [p \in Party |->
                    IF p = Alice THEN InitialiseAsAlice(InitialSecret, <<Alice, 0>>)
                                 ELSE InitialiseAsBob(InitialSecret, <<Alice, 0>>)]
    /\ generated = [p \in Party |-> IF p = Alice THEN 1 ELSE 0]
    /\ sent = [p \in Party |-> <<>>]
    /\ received = [p \in Party |-> <<>>]

NextMessage(p) == EncryptedMessage(ratchet[p], FreshKey(p), Len(sent[p]) + 1)

Encrypt(p) ==
    /\ Len(sent[Alice]) + Len(sent[Bob]) < MaxSends
    /\ sent' = [sent EXCEPT ![p] = Append(@, NextMessage(p))]
    /\ generated' = [generated EXCEPT
                        ![p] = IF ratchet[p].sender_chain = <<>> THEN @ + 1 ELSE @]
    /\ ratchet' = [ratchet EXCEPT ![p] = AfterEncrypt(@, FreshKey(p))]
    /\ UNCHANGED received

(* The transport hands p a message of its peer and p decrypts it.          *)
Decrypt(p, m) ==
    /\ Decrypts(ratchet[p], m)
    /\ ratchet' = [ratchet EXCEPT ![p] = AfterDecrypt(@, m)]
    /\ received' = [received EXCEPT ![p] = Append(@, m)]
    /\ UNCHANGED <<generated, sent>>

Next ==
    \E p \in Party :
        \/ Encrypt(p)
        \/ \E i \in DOMAIN sent[Peer(p)] : Decrypt(p, sent[Peer(p)][i])

Spec == Init /\ [][Next]_vars

(* A transport that keeps offering what has not been decrypted yet.  The   *)
(* library schedules nothing itself: this is an assumption about its user. *)
Offered(p) == \E i \in DOMAIN sent[Peer(p)] :
                 /\ sent[Peer(p)][i] \notin Range(received[p])
                 /\ Decrypt(p, sent[Peer(p)][i])

FairSpec == Spec /\ \A p \in Party : WF_vars(Offered(p))

-----------------------------------------------------------------------------
RatchetKey == Party \X Nat
RootKey    == Seq({InitialSecret} \cup SUBSET RatchetKey)
ChainKey   == [chain : RootKey, index : Nat]
Chain      == [ratchet_key : RatchetKey, chain_key : ChainKey]
SkippedKey == [ratchet_key : RatchetKey, message_key : ChainKey]
Message    == [ratchet_key : RatchetKey, counter : Nat, mac_key : ChainKey,
               plaintext : Nat]
RatchetState == [root_key             : RootKey,
                 sender_chain         : Seq(Chain),
                 receiver_chains      : Seq(Chain),
                 skipped_message_keys : Seq(SkippedKey)]

(* A ratchet holds what its C types allow, no list is longer than its      *)
(* array, and a ratchet that has no chain to send on knows a ratchet key   *)
(* of its peer: _olm_ratchet_encrypt reads receiver chain 0 unchecked.     *)
WellFormed(r) ==
    /\ r \in RatchetState
    /\ Len(r.sender_chain) <= 1
    /\ Len(r.receiver_chains) <= OLM_MAX_RECEIVER_CHAINS
    /\ Len(r.skipped_message_keys) <= OLM_MAX_SKIPPED_MESSAGE_KEYS
    /\ r.sender_chain = <<>> => r.receiver_chains # <<>>

(* Type invariant: each ratchet is a well-formed _OlmRatchet at all times. *)
TypeOK ==
    /\ ratchet \in [Party -> RatchetState]
    /\ \A p \in Party : WellFormed(ratchet[p])
    /\ generated \in [Party -> Nat]
    /\ sent \in [Party -> Seq(Message)]
    /\ received \in [Party -> Seq(Message)]

-----------------------------------------------------------------------------
(* What somebody who reads the memory of ratchet r can decrypt without     *)
(* seeing another exchange: a chain key gives the message keys from its    *)
(* index on, a skipped key itself, and a root key the chains after it.     *)
Derivable(r, key) ==
    \/ \E i \in DOMAIN r.sender_chain :
         /\ r.sender_chain[i].chain_key.chain = key.chain
         /\ r.sender_chain[i].chain_key.index <= key.index
    \/ \E i \in DOMAIN r.receiver_chains :
         /\ r.receiver_chains[i].chain_key.chain = key.chain
         /\ r.receiver_chains[i].chain_key.index <= key.index
    \/ \E i \in DOMAIN r.skipped_message_keys :
         r.skipped_message_keys[i].message_key = key
    \/ IsStrictPrefix(r.root_key, key.chain)

(* Forward secrecy, what the double ratchet is for: as soon as a message   *)
(* is encrypted its sender cannot derive its key any more, and as soon as  *)
(* it is decrypted neither can its recipient.  Whatever the order of       *)
(* delivery, no chain, skipped key or root key that leads to it is kept.   *)
ForwardSecrecy ==
    \A p \in Party :
        /\ \A m \in Range(sent[p]) : ~Derivable(ratchet[p], m.mac_key)
        /\ \A m \in Range(received[p]) : ~Derivable(ratchet[p], m.mac_key)

(* A message that was decrypted once is refused ever after, however the    *)
(* ratchet moved since: by the chain's index, by the erased skipped key,   *)
(* and, once its chain fell off the list, because the chain computed anew  *)
(* starts from a root key that has moved on.                               *)
NoReplay ==
    \A p \in Party : \A m \in Range(received[p]) : ~Decrypts(ratchet[p], m)

(* No message key is used twice, by one party or by both: each message is  *)
(* encrypted under a key of its own.                                       *)
MessageKeysUnique ==
    \A p, q \in Party : \A i \in DOMAIN sent[p], j \in DOMAIN sent[q] :
        sent[p][i].mac_key = sent[q][j].mac_key => p = q /\ i = j

(* The session never breaks down for good: whatever was lost, reordered or *)
(* repeated, the next message either party encrypts can be decrypted by    *)
(* the other, unless more than MAX_MESSAGE_GAP messages before it on its   *)
(* chain never arrived.                                                    *)
ExpectedIndex(r, ratchet_key) ==
    IF HasReceiverChain(r, ratchet_key)
      THEN r.receiver_chains[ReceiverChain(r, ratchet_key)].chain_key.index
      ELSE 0

NextMessageDecrypts ==
    \A p \in Party :
        LET m == NextMessage(Peer(p))
        IN  m.counter - ExpectedIndex(ratchet[p], m.ratchet_key) <= MAX_MESSAGE_GAP
              => Decrypts(ratchet[p], m)

(* Every skipped key a party keeps is the key of exactly one message that  *)
(* was really sent to it and that it has not decrypted: no key is kept for *)
(* a message that cannot come or that has come, and none is kept twice.    *)
SkippedKeysAreOwed ==
    \A p \in Party :
        LET skipped == ratchet[p].skipped_message_keys
        IN  \A i \in DOMAIN skipped :
              /\ \E m \in Range(sent[Peer(p)]) \ Range(received[p]) :
                    /\ m.mac_key = skipped[i].message_key
                    /\ m.ratchet_key = skipped[i].ratchet_key
              /\ \A j \in DOMAIN skipped :
                    skipped[i].message_key = skipped[j].message_key => i = j

(* A message is lost only to one of the three limits: more than            *)
(* MAX_MESSAGE_GAP messages were missing before it, or messages of         *)
(* OLM_MAX_RECEIVER_CHAINS newer chains came in the meantime, or           *)
(* OLM_MAX_SKIPPED_MESSAGE_KEYS other messages, none of them a predecessor *)
(* on its chain, were skipped and have pushed its key out.                 *)
NewerChains(p, m) ==
    {n.ratchet_key : n \in {l \in Range(received[p]) :
                              IsStrictPrefix(m.mac_key.chain, l.mac_key.chain)}}

WasSkipped(p, n) ==
    \E i \in DOMAIN received[p] :
        /\ received[p][i].ratchet_key = n.ratchet_key
        /\ received[p][i].counter > n.counter
        /\ \A j \in 1 .. i : received[p][j] # n

SkippedWith(p, m) ==
    {n \in Range(sent[Peer(p)]) \ {m} :
        /\ WasSkipped(p, n)
        /\ n.ratchet_key = m.ratchet_key => n.counter > m.counter}

LostOnlyToLimits ==
    \A p \in Party : \A m \in Range(sent[Peer(p)]) \ Range(received[p]) :
        \/ Decrypts(ratchet[p], m)
        \/ m.counter - ExpectedIndex(ratchet[p], m.ratchet_key) > MAX_MESSAGE_GAP
        \/ Cardinality(NewerChains(p, m)) >= OLM_MAX_RECEIVER_CHAINS
        \/ /\ AlreadyAdvanced(ratchet[p], m)
           /\ Cardinality(SkippedWith(p, m)) >= OLM_MAX_SKIPPED_MESSAGE_KEYS

(* Within the limits every message that was sent can be decrypted, at any  *)
(* time and in any order, until it is.                                     *)
NothingLost ==
    \A p \in Party : \A m \in Range(sent[Peer(p)]) \ Range(received[p]) :
        Decrypts(ratchet[p], m)

(* Every message is decrypted in the end, exactly once, when the transport *)
(* keeps offering it: no order of the others makes it undecryptable.       *)
AllDelivered ==
    <>[](\A p \in Party : Range(received[p]) = Range(sent[Peer(p)]))

(* A reply heals the session: whatever a party encrypts is under a root    *)
(* key that took in one more Diffie-Hellman secret than that of any        *)
(* message it had decrypted before, and builds on all of them.  Who learnt *)
(* the ratchet before the exchange cannot follow it by hashing alone.      *)
RepliesRatchetForward ==
    [][\A p \in Party : sent'[p] # sent[p] =>
          \A m \in Range(received[p]) :
             IsStrictPrefix(m.mac_key.chain, Last(sent'[p]).mac_key.chain)]_vars

(* Together the ratchets are a SecureChannel for the plaintexts: none is   *)
(* given twice, and none that was not handed over.                         *)
Channel ==
    INSTANCE SecureChannel WITH
        sent     <- [p \in Party |-> Len(sent[p])],
        received <- [p \in Party |-> [i \in DOMAIN received[p] |->
                                         received[p][i].plaintext]]

ImplementsChannel == Channel!Spec

(* The documentation says skipped message keys are stored "so that they    *)
(* can decode out of order messages" (docs/olm.md:188).  Does each stored  *)
(* key decode the message it is the key of?                                *)
SkippedKeysDecode ==
    \A p \in Party : \A i \in DOMAIN ratchet[p].skipped_message_keys :
        \A m \in Range(sent[Peer(p)]) :
            m.mac_key = ratchet[p].skipped_message_keys[i].message_key
              => Decrypts(ratchet[p], m)

-----------------------------------------------------------------------------
(* The inductive invariant behind the safety properties.                   *)

(* Alice's chains come from root keys of odd length, Bob's from even ones. *)
IsChainOf(path, p) == Len(path) % 2 = IF p = Alice THEN 1 ELSE 0

OwnedBy(ratchet_key, p, n) == ratchet_key[1] = p /\ ratchet_key[2] < n

(* Whose ratchet keys a party has seen: no key is on both sides, and none  *)
(* that is still to be generated is anywhere.                              *)
KeysOwned(p) ==
    /\ ratchet[p].sender_chain # <<>>
         => OwnedBy(ratchet[p].sender_chain[1].ratchet_key, p, generated[p])
    /\ \A i \in DOMAIN ratchet[p].receiver_chains :
          OwnedBy(ratchet[p].receiver_chains[i].ratchet_key, Peer(p), generated[Peer(p)])
    /\ \A i \in DOMAIN sent[p] : OwnedBy(sent[p][i].ratchet_key, p, generated[p])

(* A party sends from its root key; the chains it receives on are its      *)
(* peer's, and they all come from different root keys before that one.     *)
ChainsInOrder(r, p) ==
    /\ IsChainOf(r.root_key, IF r.sender_chain = <<>> THEN Peer(p) ELSE p)
    /\ r.sender_chain # <<>> => r.sender_chain[1].chain_key.chain = r.root_key
    /\ \A i \in DOMAIN r.receiver_chains :
          /\ IsChainOf(r.receiver_chains[i].chain_key.chain, Peer(p))
          /\ Len(r.receiver_chains[i].chain_key.chain) <= Len(r.root_key)
          /\ \A j \in DOMAIN r.receiver_chains :
                i # j => Len(r.receiver_chains[i].chain_key.chain)
                           # Len(r.receiver_chains[j].chain_key.chain)

(* Skipped keys are behind their chain, and no two are the same.           *)
SkippedInOrder(r, p) ==
    \A i \in DOMAIN r.skipped_message_keys :
        LET key == r.skipped_message_keys[i].message_key
        IN  /\ IsChainOf(key.chain, Peer(p))
            /\ Len(key.chain) <= Len(r.root_key)
            /\ \A j \in DOMAIN r.skipped_message_keys :
                  i # j => r.skipped_message_keys[j].message_key # key
            /\ \A j \in DOMAIN r.receiver_chains :
                  r.receiver_chains[j].chain_key.chain = key.chain
                    => key.index < r.receiver_chains[j].chain_key.index

(* What a party with ratchet r has sent is on earlier root keys than its   *)
(* own, or behind its sender chain, all under different keys.              *)
BehindSender(r, m) ==
    \/ Len(m.mac_key.chain) < Len(r.root_key)
    \/ /\ r.sender_chain # <<>>
       /\ m.mac_key.chain = r.root_key
       /\ m.ratchet_key = r.sender_chain[1].ratchet_key
       /\ m.mac_key.index < r.sender_chain[1].chain_key.index

SentInOrder(r, p, messages) ==
    \A i \in DOMAIN messages :
        /\ messages[i].counter = messages[i].mac_key.index
        /\ messages[i].plaintext = i
        /\ IsChainOf(messages[i].mac_key.chain, p)
        /\ BehindSender(r, messages[i])
        /\ \A j \in DOMAIN messages : i # j => messages[i].mac_key # messages[j].mac_key

(* What a party with ratchet r has received is behind its chain, and its   *)
(* key is not among the skipped ones.                                      *)
BehindReceiver(r, m) ==
    /\ Len(m.mac_key.chain) <= Len(r.root_key)
    /\ \A i \in DOMAIN r.receiver_chains :
          r.receiver_chains[i].chain_key.chain = m.mac_key.chain
            => m.mac_key.index < r.receiver_chains[i].chain_key.index
    /\ \A i \in DOMAIN r.skipped_message_keys :
          r.skipped_message_keys[i].message_key # m.mac_key

ReceivedInOrder(r, messages, peers) ==
    \A i \in DOMAIN messages :
        /\ \E j \in DOMAIN peers : messages[i] = peers[j]
        /\ BehindReceiver(r, messages[i])

(* p receives on the chain that q sends on.                                *)
Follows(p, q) ==
    /\ q.sender_chain # <<>>
    /\ p.receiver_chains # <<>>
    /\ p.receiver_chains[1].ratchet_key = q.sender_chain[1].ratchet_key
    /\ p.receiver_chains[1].chain_key.chain = q.root_key
    /\ p.receiver_chains[1].chain_key.index <= q.sender_chain[1].chain_key.index

(* Only q is sending: both have the same root key.                         *)
Level(p, q) ==
    /\ Follows(p, q)
    /\ p.sender_chain = <<>>
    /\ p.root_key = q.root_key

(* p has started to reply and q does not know it yet: p is one root key    *)
(* ahead, the one that q will compute from the reply.                      *)
Leads(p, q) ==
    /\ Follows(p, q)
    /\ p.sender_chain # <<>>
    /\ p.root_key = Append(q.root_key, {q.sender_chain[1].ratchet_key,
                                        p.sender_chain[1].ratchet_key})
    /\ ~HasReceiverChain(q, p.sender_chain[1].ratchet_key)

(* The two ratchets are never more than one root key apart, whatever the   *)
(* transport did: at any time exactly one of them follows the other.       *)
Synchronised ==
    \E p \in Party : \/ Level(ratchet[p], ratchet[Peer(p)])
                     \/ Leads(ratchet[p], ratchet[Peer(p)])

InOrder(p) ==
    /\ KeysOwned(p)
    /\ ChainsInOrder(ratchet[p], p)
    /\ SkippedInOrder(ratchet[p], p)
    /\ SentInOrder(ratchet[p], p, sent[p])
    /\ ReceivedInOrder(ratchet[p], received[p], sent[Peer(p)])

IInv ==
    /\ TypeOK
    /\ \A p \in Party : InOrder(p)
    /\ Synchronised
=============================================================================

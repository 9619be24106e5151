------------------------- MODULE RatchetPair_proofs -------------------------
(***************************************************************************)
(* What each operation of the ratchet does to each field of _OlmRatchet,   *)
(* one lemma per path through the code, from these the type correctness    *)
(* of RatchetPair, then its inductive invariant IInv and what follows from *)
(* it, and at last what is lost and what is not: for all capacities of the *)
(* lists, all gaps and all transports.                                     *)
(***************************************************************************)
EXTENDS RatchetPair, Common_proofs, SequenceTheorems, FiniteSetTheorems

-----------------------------------------------------------------------------
(* Encryption.                                                             *)

(* On an existing sender chain only the chain's index moves, by one.       *)
LEMMA EncryptOnChain ==
    ASSUME NEW r, WellFormed(r), NEW k \in RatchetKey, NEW n \in Nat,
           r.sender_chain # <<>>
    PROVE  LET s == r.sender_chain[1]
               e == AfterEncrypt(r, k)
               m == EncryptedMessage(r, k, n)
           IN  /\ WellFormed(e)
               /\ e.root_key = r.root_key
               /\ e.receiver_chains = r.receiver_chains
               /\ e.skipped_message_keys = r.skipped_message_keys
               /\ e.sender_chain # <<>>
               /\ e.sender_chain[1].ratchet_key = s.ratchet_key
               /\ e.sender_chain[1].chain_key.chain = s.chain_key.chain
               /\ e.sender_chain[1].chain_key.index = s.chain_key.index + 1
               /\ m \in Message
               /\ m.ratchet_key = s.ratchet_key
               /\ m.counter = s.chain_key.index
               /\ m.mac_key = s.chain_key
               /\ m.plaintext = n
<1> DEFINE s == r.sender_chain[1]
           t == [s EXCEPT !.chain_key = AdvanceChainKey(@)]
           e == AfterEncrypt(r, k)
<1>1. r.sender_chain = <<s>> /\ s \in Chain
  BY DEF WellFormed, RatchetState
<1>2. e = [r EXCEPT !.sender_chain[1].chain_key = AdvanceChainKey(@)]
  BY DEF AfterEncrypt, WithSenderChain
<1>3. /\ t \in Chain
      /\ t.ratchet_key = s.ratchet_key
      /\ t.chain_key.chain = s.chain_key.chain
      /\ t.chain_key.index = s.chain_key.index + 1
  BY <1>1 DEF AdvanceChainKey, Chain, ChainKey
<1>4. [r.sender_chain EXCEPT ![1].chain_key = AdvanceChainKey(@)] = <<t>>
  BY <1>1
<1>5. e = [r EXCEPT !.sender_chain = <<t>>]
  BY <1>2, <1>4
<1>6. WellFormed(e) /\ e.sender_chain = <<t>>
  <2> HIDE DEF t, e
  <2> QED BY <1>3, <1>5 DEF WellFormed, RatchetState
<1>7. /\ EncryptedMessage(r, k, n) =
            [ratchet_key |-> s.ratchet_key, counter |-> s.chain_key.index,
             mac_key |-> s.chain_key, plaintext |-> n]
      /\ EncryptedMessage(r, k, n) \in Message
  BY <1>1 DEF EncryptedMessage, WithSenderChain, Message, Chain, ChainKey
<1>8. /\ e.root_key = r.root_key
      /\ e.receiver_chains = r.receiver_chains
      /\ e.skipped_message_keys = r.skipped_message_keys
  BY <1>5 DEF WellFormed, RatchetState
<1> HIDE DEF t, e
<1> QED
  BY <1>3, <1>6, <1>7, <1>8 DEF e

(* A first reply starts a chain from the fresh key and the newest ratchet  *)
(* key of the peer, and uses its index 0.                                  *)
LEMMA EncryptNewChain ==
    ASSUME NEW r, WellFormed(r), NEW k \in RatchetKey, NEW n \in Nat,
           r.sender_chain = <<>>
    PROVE  LET root == Append(r.root_key, {k, r.receiver_chains[1].ratchet_key})
               e == AfterEncrypt(r, k)
               m == EncryptedMessage(r, k, n)
           IN  /\ WellFormed(e)
               /\ e.root_key = root
               /\ e.receiver_chains = r.receiver_chains
               /\ e.skipped_message_keys = r.skipped_message_keys
               /\ e.sender_chain # <<>>
               /\ e.sender_chain[1].ratchet_key = k
               /\ e.sender_chain[1].chain_key.chain = root
               /\ e.sender_chain[1].chain_key.index = 1
               /\ m \in Message
               /\ m.ratchet_key = k
               /\ m.counter = 0
               /\ m.mac_key.chain = root
               /\ m.mac_key.index = 0
               /\ m.plaintext = n
<1> DEFINE root == Append(r.root_key, {k, r.receiver_chains[1].ratchet_key})
           s == [ratchet_key |-> k, chain_key |-> NewChainKey(root)]
           l == ListInsertFront(<<>>, s, 1)
           w == WithSenderChain(r, k)
<1>1. r.receiver_chains[1] \in Chain
  BY DEF WellFormed, RatchetState
<1>2. root \in RootKey
  <2>1. {k, r.receiver_chains[1].ratchet_key} \in SUBSET RatchetKey
    BY <1>1 DEF Chain
  <2> QED
    BY <2>1 DEF WellFormed, RatchetState, RootKey
<1>3. s \in Chain /\ s.ratchet_key = k /\ s.chain_key.chain = root /\ s.chain_key.index = 0
  <2> HIDE DEF root
  <2> QED BY <1>2 DEF Chain, ChainKey, NewChainKey
<1>4. w = [r EXCEPT !.root_key = root, !.sender_chain = l]
  BY DEF WithSenderChain, CreateRootKey, SharedSecret
<1>5. l \in Seq(Chain) /\ Len(l) = 1 /\ l # <<>> /\ l[1] = s
  <2> HIDE DEF s
  <2> QED BY <1>3, ListInsertFrontEmpty
<1>6. /\ WellFormed(w)
      /\ w.sender_chain # <<>>
      /\ w.sender_chain[1] = s
      /\ w.root_key = root
      /\ w.receiver_chains = r.receiver_chains
      /\ w.skipped_message_keys = r.skipped_message_keys
  <2> HIDE DEF s, w, root, l
  <2>1. /\ w \in RatchetState
        /\ w.sender_chain = l
        /\ w.root_key = root
        /\ w.receiver_chains = r.receiver_chains
        /\ w.skipped_message_keys = r.skipped_message_keys
    BY <1>2, <1>4, <1>5 DEF WellFormed, RatchetState
  <2>2. w.sender_chain # <<>> /\ w.sender_chain[1] = s /\ Len(w.sender_chain) = 1
    BY <1>5, <2>1, Zenon
  <2>3. WellFormed(w)
    BY <2>1, <2>2 DEF WellFormed
  <2> QED BY <2>1, <2>2, <2>3
<1>7. AfterEncrypt(r, k) = AfterEncrypt(w, k) /\ EncryptedMessage(r, k, n) = EncryptedMessage(w, k, n)
  BY <1>6 DEF AfterEncrypt, EncryptedMessage, WithSenderChain
<1> HIDE DEF s, w, root
<1> DEFINE e == AfterEncrypt(w, k)
           m == EncryptedMessage(w, k, n)
<1>8. /\ WellFormed(e)
      /\ e.root_key = w.root_key
      /\ e.receiver_chains = w.receiver_chains
      /\ e.skipped_message_keys = w.skipped_message_keys
      /\ e.sender_chain # <<>>
      /\ e.sender_chain[1].ratchet_key = w.sender_chain[1].ratchet_key
      /\ e.sender_chain[1].chain_key.chain = w.sender_chain[1].chain_key.chain
      /\ e.sender_chain[1].chain_key.index = w.sender_chain[1].chain_key.index + 1
      /\ m \in Message
      /\ m.ratchet_key = w.sender_chain[1].ratchet_key
      /\ m.counter = w.sender_chain[1].chain_key.index
      /\ m.mac_key = w.sender_chain[1].chain_key
      /\ m.plaintext = n
  BY <1>6, EncryptOnChain
<1> HIDE DEF e, m
<1> QED
  BY <1>3, <1>6, <1>7, <1>8 DEF root, e, m

-----------------------------------------------------------------------------
(* Decryption.                                                             *)

(* The search for a chain finds one whenever there is one.                 *)
LEMMA ReceiverChainFound ==
    ASSUME NEW r, WellFormed(r), NEW k, HasReceiverChain(r, k)
    PROVE  /\ ReceiverChain(r, k) \in 1 .. Len(r.receiver_chains)
           /\ r.receiver_chains[ReceiverChain(r, k)].ratchet_key = k
<1> DEFINE T == {i \in 1 .. Len(r.receiver_chains) : r.receiver_chains[i].ratchet_key = k}
<1>1. r.receiver_chains \in Seq(Chain) /\ DOMAIN r.receiver_chains = 1 .. Len(r.receiver_chains)
  BY DEF WellFormed, RatchetState
<1>2. T # {} /\ T \subseteq Nat
  BY <1>1 DEF HasReceiverChain
<1>3. PICK i \in T : \A j \in T : i <= j
  <2> HIDE DEF T
  <2> QED BY <1>2, LeastElement
<1>4. /\ i \in DOMAIN r.receiver_chains
      /\ r.receiver_chains[i].ratchet_key = k
      /\ \A j \in 1 .. i - 1 : r.receiver_chains[j].ratchet_key # k
  BY <1>1, <1>3
<1>5. /\ ReceiverChain(r, k) \in DOMAIN r.receiver_chains
      /\ r.receiver_chains[ReceiverChain(r, k)].ratchet_key = k
  BY <1>4, Zenon DEF ReceiverChain
<1> QED
  BY <1>1, <1>5

(* It looks at the newest chain first.                                     *)
LEMMA ReceiverChainFirst ==
    ASSUME NEW r, WellFormed(r), r.receiver_chains # <<>>
    PROVE  /\ HasReceiverChain(r, r.receiver_chains[1].ratchet_key)
           /\ ReceiverChain(r, r.receiver_chains[1].ratchet_key) = 1
<1> DEFINE k == r.receiver_chains[1].ratchet_key
<1>1. /\ r.receiver_chains \in Seq(Chain)
      /\ DOMAIN r.receiver_chains = 1 .. Len(r.receiver_chains)
      /\ 1 \in DOMAIN r.receiver_chains
  BY DEF WellFormed, RatchetState
<1>2. HasReceiverChain(r, k)
  BY <1>1 DEF HasReceiverChain
<1>3. \A j \in 1 .. 1 - 1 : r.receiver_chains[j].ratchet_key # k
  OBVIOUS
<1>4. /\ ReceiverChain(r, k) \in DOMAIN r.receiver_chains
      /\ \A j \in 1 .. ReceiverChain(r, k) - 1 : r.receiver_chains[j].ratchet_key # k
  BY <1>1, <1>3, Zenon DEF ReceiverChain
<1>5. ReceiverChain(r, k) = 1
  <2> DEFINE c == ReceiverChain(r, k)
  <2>1. c \in 1 .. Len(r.receiver_chains) /\ \A j \in 1 .. c - 1 : r.receiver_chains[j].ratchet_key # k
    BY <1>1, <1>4
  <2> HIDE DEF c
  <2> QED BY <2>1 DEF c
<1> QED
  BY <1>2, <1>5

(* The skipping loop: what is in the list afterwards is a key of the chain *)
(* between its index and the counter, or was there before; no key of the   *)
(* chain is stored twice; and the list stays within its capacity.          *)
LEMMA SkippingProperties ==
    ASSUME NEW skipped \in Seq(SkippedKey),
           Len(skipped) <= OLM_MAX_SKIPPED_MESSAGE_KEYS,
           NEW chain \in Chain, NEW counter \in Nat,
           chain.chain_key.index <= counter
    PROVE  LET new == counter - chain.chain_key.index
               after == AfterSkipping(skipped, chain, counter)
           IN  /\ after \in Seq(SkippedKey)
               /\ Len(after) <= OLM_MAX_SKIPPED_MESSAGE_KEYS
               /\ \A i \in 1 .. Len(after) :
                    IF i <= new
                      THEN /\ after[i].ratchet_key = chain.ratchet_key
                           /\ after[i].message_key.chain = chain.chain_key.chain
                           /\ after[i].message_key.index = counter - i
                      ELSE /\ i - new \in 1 .. Len(skipped)
                           /\ after[i] = skipped[i - new]
<1> DEFINE new == counter - chain.chain_key.index
           length == IF new + Len(skipped) < OLM_MAX_SKIPPED_MESSAGE_KEYS
                       THEN new + Len(skipped) ELSE OLM_MAX_SKIPPED_MESSAGE_KEYS
           key(i) == [ratchet_key |-> chain.ratchet_key,
                      message_key |-> [chain.chain_key EXCEPT !.index = counter - i]]
           after == [i \in 1 .. length |-> IF i <= new THEN key(i) ELSE skipped[i - new]]
<1>1. new \in Nat /\ length \in Nat /\ length <= OLM_MAX_SKIPPED_MESSAGE_KEYS
      /\ length <= new + Len(skipped)
  BY SkippedKeysAssumption DEF Chain, ChainKey
<1>2. \A i \in 1 .. new : /\ key(i) \in SkippedKey
                          /\ key(i).ratchet_key = chain.ratchet_key
                          /\ key(i).message_key.chain = chain.chain_key.chain
                          /\ key(i).message_key.index = counter - i
  BY <1>1 DEF Chain, ChainKey, SkippedKey
<1> HIDE DEF key, new, length
<1>3. \A i \in 1 .. length : i > new => i - new \in 1 .. Len(skipped)
  BY <1>1
<1>4. \A i \in 1 .. length : after[i] \in SkippedKey
  BY <1>1, <1>2, <1>3
<1>5. after \in Seq(SkippedKey) /\ Len(after) = length
  BY <1>1, <1>4
<1>6. AfterSkipping(skipped, chain, counter) = after
  BY DEF AfterSkipping, key, new, length
<1>7. \A i \in 1 .. length :
         IF i <= new
           THEN /\ after[i].ratchet_key = chain.ratchet_key
                /\ after[i].message_key.chain = chain.chain_key.chain
                /\ after[i].message_key.index = counter - i
           ELSE /\ i - new \in 1 .. Len(skipped)
                /\ after[i] = skipped[i - new]
  BY <1>1, <1>2, <1>3
<1> HIDE DEF after
<1> QED
  BY <1>1, <1>5, <1>6, <1>7 DEF new

(* A message behind its chain uses up the skipped key it verifies under.   *)
LEMMA DecryptSkipped ==
    ASSUME NEW r, WellFormed(r), NEW m \in Message, Decrypts(r, m),
           AlreadyAdvanced(r, m)
    PROVE  LET e == AfterDecrypt(r, m)
               skipped == r.skipped_message_keys
           IN  /\ WellFormed(e)
               /\ e.root_key = r.root_key
               /\ e.sender_chain = r.sender_chain
               /\ e.receiver_chains = r.receiver_chains
               /\ Len(e.skipped_message_keys) = Len(skipped) - 1
               /\ \E i \in 1 .. Len(skipped) :
                    /\ skipped[i].ratchet_key = m.ratchet_key
                    /\ skipped[i].message_key = m.mac_key
                    /\ \A j \in 1 .. Len(skipped) - 1 :
                         e.skipped_message_keys[j] =
                           IF j < i THEN skipped[j] ELSE skipped[j + 1]
<1> DEFINE skipped == r.skipped_message_keys
           S == SkippedKeysFor(r, m)
           i == FirstOf(S)
           e == AfterDecrypt(r, m)
           erased == ListErase(skipped, i)
<1>1. skipped \in Seq(SkippedKey) /\ Len(skipped) <= OLM_MAX_SKIPPED_MESSAGE_KEYS
      /\ DOMAIN skipped = 1 .. Len(skipped)
  BY DEF WellFormed, RatchetState
<1>2. S # {} /\ S \subseteq Nat
  <2>1. S # {}
    BY DEF Decrypts, AlreadyAdvanced
  <2>2. S \subseteq 1 .. Len(skipped)
    BY <1>1 DEF SkippedKeysFor
  <2> QED BY <2>1, <2>2
<1>3. i \in S
  <2> HIDE DEF S
  <2>1. \E j \in S : \A l \in S : j <= l
    BY <1>2, LeastElement
  <2> QED BY <2>1, Zenon DEF FirstOf
<1>4. /\ i \in 1 .. Len(skipped)
      /\ skipped[i].ratchet_key = m.ratchet_key
      /\ skipped[i].message_key = m.mac_key
  <2> HIDE DEF i
  <2> QED BY <1>1, <1>3 DEF SkippedKeysFor
<1>5. /\ erased \in Seq(SkippedKey)
      /\ Len(erased) = Len(skipped) - 1
      /\ \A j \in 1 .. Len(skipped) - 1 :
            erased[j] = IF j < i THEN skipped[j] ELSE skipped[j + 1]
  <2> HIDE DEF i, skipped
  <2> QED BY <1>1, <1>4, ListEraseProperties
<1>6. e = [r EXCEPT !.skipped_message_keys = erased]
  BY DEF AfterDecrypt, AfterDecryptSkipped
<1> HIDE DEF i, e, erased, S
<1>7. /\ e \in RatchetState
      /\ e.root_key = r.root_key
      /\ e.sender_chain = r.sender_chain
      /\ e.receiver_chains = r.receiver_chains
      /\ e.skipped_message_keys = erased
  BY <1>5, <1>6 DEF WellFormed, RatchetState
<1>8. WellFormed(e)
  <2>1. Len(e.skipped_message_keys) <= OLM_MAX_SKIPPED_MESSAGE_KEYS
    <3> HIDE DEF skipped
    <3>1. Len(skipped) \in Nat /\ Len(erased) = Len(skipped) - 1
      BY <1>1, <1>5
    <3>2. Len(erased) <= OLM_MAX_SKIPPED_MESSAGE_KEYS
      BY <1>1, <3>1, SkippedKeysAssumption
    <3> QED BY <1>7, <3>2, Zenon
  <2> QED
    BY <1>7, <2>1 DEF WellFormed
<1> QED
  BY <1>4, <1>5, <1>7, <1>8 DEF e

(* A message on a known chain: the chain moves to just after it, and the   *)
(* keys in between are stored.                                             *)
LEMMA DecryptOnKnownChain ==
    ASSUME NEW r, WellFormed(r), NEW m \in Message, Decrypts(r, m),
           HasReceiverChain(r, m.ratchet_key), ~AlreadyAdvanced(r, m)
    PROVE  LET e == AfterDecrypt(r, m)
               i == ReceiverChain(r, m.ratchet_key)
               c == r.receiver_chains[i]
           IN  /\ WellFormed(e)
               /\ e.root_key = r.root_key
               /\ e.sender_chain = r.sender_chain
               /\ Len(e.receiver_chains) = Len(r.receiver_chains)
               /\ \A j \in 1 .. Len(r.receiver_chains) :
                    j # i => e.receiver_chains[j] = r.receiver_chains[j]
               /\ e.receiver_chains[i].ratchet_key = m.ratchet_key
               /\ e.receiver_chains[i].chain_key.chain = c.chain_key.chain
               /\ e.receiver_chains[i].chain_key.index = m.counter + 1
               /\ e.skipped_message_keys
                    = AfterSkipping(r.skipped_message_keys, c, m.counter)
               /\ i \in 1 .. Len(r.receiver_chains)
               /\ c \in Chain
               /\ c.ratchet_key = m.ratchet_key
               /\ c.chain_key.index <= m.counter
               /\ m.mac_key.chain = c.chain_key.chain
               /\ m.mac_key.index = m.counter
<1> DEFINE e == AfterDecrypt(r, m)
           i == ReceiverChain(r, m.ratchet_key)
           c == r.receiver_chains[i]
           d == [c EXCEPT !.chain_key = AdvanceChainKey([@ EXCEPT !.index = m.counter])]
           skipped == AfterSkipping(r.skipped_message_keys, c, m.counter)
<1>1. /\ i \in 1 .. Len(r.receiver_chains)
      /\ c.ratchet_key = m.ratchet_key
  BY ReceiverChainFound
<1>2. c \in Chain /\ r.receiver_chains \in Seq(Chain)
  <2> HIDE DEF i
  <2> QED BY <1>1 DEF WellFormed, RatchetState
<1>3. /\ c.chain_key.index <= m.counter
      /\ m.mac_key = [c.chain_key EXCEPT !.index = m.counter]
  <2>1. VerifiesOnChain(c.chain_key, m)
    BY DEF Decrypts
  <2> HIDE DEF c
  <2> QED BY <1>2, <2>1 DEF VerifiesOnChain, Chain, ChainKey, Message
<1>4. m.mac_key.chain = c.chain_key.chain /\ m.mac_key.index = m.counter
  <2> HIDE DEF c
  <2> QED BY <1>2, <1>3 DEF Chain, ChainKey, Message
<1>5. /\ d \in Chain
      /\ d.ratchet_key = m.ratchet_key
      /\ d.chain_key.chain = c.chain_key.chain
      /\ d.chain_key.index = m.counter + 1
  <2> DEFINE at == [c.chain_key EXCEPT !.index = m.counter]
             next == AdvanceChainKey(at)
  <2> HIDE DEF c
  <2>1. at \in ChainKey /\ at.chain = c.chain_key.chain /\ at.index = m.counter
    BY <1>2 DEF Chain, ChainKey, Message
  <2> HIDE DEF at
  <2>2. next \in ChainKey /\ next.chain = c.chain_key.chain /\ next.index = m.counter + 1
    BY <2>1 DEF ChainKey, AdvanceChainKey
  <2> HIDE DEF next
  <2>3. [c EXCEPT !.chain_key = next] = d
    BY <1>2 DEF next, at
  <2> QED BY <1>1, <1>2, <2>2, <2>3 DEF Chain
<1>6. e = [[r EXCEPT !.skipped_message_keys = skipped]
              EXCEPT !.receiver_chains[i].chain_key = AdvanceChainKey([@ EXCEPT !.index = m.counter])]
  BY DEF AfterDecrypt, AfterDecryptOnChain, WithReceiverChain
<1>7. skipped \in Seq(SkippedKey) /\ Len(skipped) <= OLM_MAX_SKIPPED_MESSAGE_KEYS
  <2>1. /\ r.skipped_message_keys \in Seq(SkippedKey)
        /\ Len(r.skipped_message_keys) <= OLM_MAX_SKIPPED_MESSAGE_KEYS
        /\ m.counter \in Nat
    BY DEF WellFormed, RatchetState, Message
  <2> HIDE DEF c
  <2> QED BY <1>2, <1>3, <2>1, SkippingProperties
<1>8. [r.receiver_chains EXCEPT ![i].chain_key = AdvanceChainKey([@ EXCEPT !.index = m.counter])]
        = [r.receiver_chains EXCEPT ![i] = d]
  BY <1>1, <1>2
<1> DEFINE chains == [r.receiver_chains EXCEPT ![i] = d]
<1>9. e = [r EXCEPT !.skipped_message_keys = skipped, !.receiver_chains = chains]
  <2> HIDE DEF d, c, skipped
  <2> QED BY <1>6, <1>8 DEF WellFormed, RatchetState
<1>10. /\ chains \in Seq(Chain)
       /\ Len(chains) = Len(r.receiver_chains)
       /\ chains[i] = d
       /\ \A j \in 1 .. Len(r.receiver_chains) : j # i => chains[j] = r.receiver_chains[j]
  <2> HIDE DEF d, i
  <2> QED BY <1>1, <1>2, <1>5
<1>11. chains # <<>>
  <2> HIDE DEF chains, i
  <2> QED BY <1>1, <1>10
<1> HIDE DEF chains, skipped, d, c, i, e
<1>12. /\ e \in RatchetState
       /\ e.root_key = r.root_key
       /\ e.sender_chain = r.sender_chain
       /\ e.receiver_chains = chains
       /\ e.skipped_message_keys = skipped
  BY <1>7, <1>9, <1>10 DEF WellFormed, RatchetState
<1>13. WellFormed(e)
  BY <1>7, <1>10, <1>11, <1>12 DEF WellFormed
<1> QED
  BY <1>1, <1>2, <1>3, <1>4, <1>5, <1>10, <1>12, <1>13 DEF e, i, c, skipped

(* A message on an unknown chain: the root key takes in the secret of our  *)
(* sending key and the message's, the new chain comes first, and our own   *)
(* sender chain is gone.                                                   *)
LEMMA DecryptOnNewChain ==
    ASSUME NEW r, WellFormed(r), NEW m \in Message, Decrypts(r, m),
           ~HasReceiverChain(r, m.ratchet_key)
    PROVE  LET e == AfterDecrypt(r, m)
               root == Append(r.root_key, {r.sender_chain[1].ratchet_key, m.ratchet_key})
               c == [ratchet_key |-> m.ratchet_key,
                     chain_key   |-> [chain |-> root, index |-> 0]]
           IN  /\ r.sender_chain # <<>>
               /\ WellFormed(e)
               /\ e.root_key = root
               /\ e.sender_chain = <<>>
               /\ Len(e.receiver_chains) \in 1 .. Len(r.receiver_chains) + 1
               /\ Len(e.receiver_chains)
                    = IF Len(r.receiver_chains) < OLM_MAX_RECEIVER_CHAINS
                        THEN Len(r.receiver_chains) + 1 ELSE Len(r.receiver_chains)
               /\ e.receiver_chains # <<>>
               /\ \A j \in 2 .. Len(e.receiver_chains) :
                    e.receiver_chains[j] = r.receiver_chains[j - 1]
               /\ e.receiver_chains[1].ratchet_key = m.ratchet_key
               /\ e.receiver_chains[1].chain_key.chain = root
               /\ e.receiver_chains[1].chain_key.index = m.counter + 1
               /\ e.skipped_message_keys
                    = AfterSkipping(r.skipped_message_keys, c, m.counter)
               /\ root \in RootKey
               /\ c \in Chain
               /\ m.mac_key.chain = root
               /\ m.mac_key.index = m.counter
<1> DEFINE e == AfterDecrypt(r, m)
           root == Append(r.root_key, {r.sender_chain[1].ratchet_key, m.ratchet_key})
           c == [ratchet_key |-> m.ratchet_key,
                 chain_key   |-> [chain |-> root, index |-> 0]]
           d == [ratchet_key |-> m.ratchet_key,
                 chain_key   |-> [chain |-> root, index |-> m.counter + 1]]
           l == ListInsertFront(r.receiver_chains, c, OLM_MAX_RECEIVER_CHAINS)
           s == WithReceiverChain(r, m.ratchet_key)
           skipped == AfterSkipping(r.skipped_message_keys, c, m.counter)
<1>1. VerifiesOnNewChain(r, m)
  BY DEF Decrypts
<1>2. r.sender_chain # <<>>
  BY <1>1 DEF VerifiesOnNewChain
<1>3. r.sender_chain \in Seq(Chain) /\ r.sender_chain[1] \in Chain /\ Len(r.sender_chain) = 1
  <2>1. r.sender_chain \in Seq(Chain) /\ Len(r.sender_chain) <= 1
    BY DEF WellFormed, RatchetState
  <2>2. Len(r.sender_chain) = 1
    <3>1. Len(r.sender_chain) \in Nat \ {0}
      BY <1>2, <2>1, EmptySeq, Zenon
    <3>2. \A n \in Nat \ {0} : n <= 1 => n = 1
      OBVIOUS
    <3> QED BY <2>1, <3>1, <3>2, Zenon
  <2> QED BY <2>1, <2>2
<1>4. root \in RootKey
  <2>1. {r.sender_chain[1].ratchet_key, m.ratchet_key} \in SUBSET RatchetKey
    BY <1>3 DEF Chain, Message
  <2> QED
    BY <2>1 DEF WellFormed, RatchetState, RootKey
<1>5. NextRootKey(r, m.ratchet_key) = root
  BY DEF NextRootKey, CreateRootKey, SharedSecret
<1>6. m.mac_key.chain = root /\ m.mac_key.index = m.counter
  <2>1. m.mac_key = [[chain |-> root, index |-> 0] EXCEPT !.index = m.counter]
    BY <1>1, <1>5 DEF VerifiesOnNewChain, VerifiesOnChain, NewChainKey
  <2> HIDE DEF root
  <2> QED BY <2>1
<1>7. m.counter \in Nat /\ m.ratchet_key \in RatchetKey
  BY DEF Message
<1>8. c \in Chain /\ c.ratchet_key = m.ratchet_key
      /\ c.chain_key.chain = root /\ c.chain_key.index = 0
  <2> HIDE DEF root
  <2> QED BY <1>4, <1>7 DEF Chain, ChainKey
<1>9. d \in Chain /\ d.ratchet_key = m.ratchet_key
      /\ d.chain_key.chain = root /\ d.chain_key.index = m.counter + 1
  <2> HIDE DEF root
  <2> QED BY <1>4, <1>7 DEF Chain, ChainKey
<1>10. /\ r.receiver_chains \in Seq(Chain)
       /\ Len(r.receiver_chains) <= OLM_MAX_RECEIVER_CHAINS
       /\ r.skipped_message_keys \in Seq(SkippedKey)
       /\ Len(r.skipped_message_keys) <= OLM_MAX_SKIPPED_MESSAGE_KEYS
  BY DEF WellFormed, RatchetState
<1>11. /\ l \in Seq(Chain)
       /\ Len(l) = IF Len(r.receiver_chains) < OLM_MAX_RECEIVER_CHAINS
                     THEN Len(r.receiver_chains) + 1 ELSE Len(r.receiver_chains)
       /\ l[1] = c
       /\ \A j \in 2 .. Len(l) : l[j] = r.receiver_chains[j - 1]
  <2> HIDE DEF c
  <2> QED BY <1>8, <1>10, ListInsertFrontProperties, ReceiverChainsAssumption
<1>12. Len(l) \in 1 .. Len(r.receiver_chains) + 1 /\ Len(l) <= OLM_MAX_RECEIVER_CHAINS
  <2> HIDE DEF l
  <2> QED BY <1>10, <1>11, ReceiverChainsAssumption
<1>13. ListErase(r.sender_chain, 1) = <<>>
  BY <1>3 DEF ListErase
<1>14. s = [r EXCEPT !.root_key = root, !.receiver_chains = l, !.sender_chain = <<>>]
  BY <1>5, <1>13 DEF WithReceiverChain, NewChainKey
<1>15. /\ s \in RatchetState
       /\ s.root_key = root
       /\ s.receiver_chains = l
       /\ s.sender_chain = <<>>
       /\ s.skipped_message_keys = r.skipped_message_keys
  <2> HIDE DEF l, s, root
  <2>1. r \in RatchetState
    BY DEF WellFormed
  <2>2. /\ s.root_key = root
        /\ s.receiver_chains = l
        /\ s.sender_chain = <<>>
        /\ s.skipped_message_keys = r.skipped_message_keys
    BY <1>14, <2>1 DEF RatchetState
  <2>3. <<>> \in Seq(Chain)
    OBVIOUS
  <2>4. s \in RatchetState
    BY <1>4, <1>11, <1>14, <2>1, <2>3 DEF RatchetState
  <2> QED BY <2>2, <2>4
<1>16. ReceiverChain(s, m.ratchet_key) = 1
  <2> HIDE DEF s, l, c
  <2>1. s.receiver_chains # <<>> /\ s.receiver_chains[1].ratchet_key = m.ratchet_key
    <3>1. l # <<>> /\ l[1].ratchet_key = m.ratchet_key
      BY <1>8, <1>11, <1>12
    <3> QED BY <1>15, <3>1, Zenon
  <2>2. WellFormed(s)
    <3>1. /\ Len(s.sender_chain) = 0
          /\ Len(s.receiver_chains) = Len(l)
          /\ Len(s.skipped_message_keys) = Len(r.skipped_message_keys)
      <4>1. Len(<<>>) = 0
        OBVIOUS
      <4> QED BY <1>15, <4>1, Zenon
    <3> QED BY <1>10, <1>12, <1>15, <2>1, <3>1 DEF WellFormed
  <2> QED BY <2>1, <2>2, ReceiverChainFirst
<1>17. e = [s EXCEPT !.skipped_message_keys = AfterSkipping(@, s.receiver_chains[1], m.counter),
                     !.receiver_chains[1].chain_key =
                        AdvanceChainKey([@ EXCEPT !.index = m.counter])]
  <2>1. ~AlreadyAdvanced(r, m)
    BY DEF AlreadyAdvanced
  <2> QED BY <1>16, <2>1 DEF AfterDecrypt, AfterDecryptOnChain
<1>18. [c EXCEPT !.chain_key = AdvanceChainKey([@ EXCEPT !.index = m.counter])] = d
  <2> HIDE DEF root
  <2>1. [c.chain_key EXCEPT !.index = m.counter] = [chain |-> root, index |-> m.counter]
    OBVIOUS
  <2>2. AdvanceChainKey([chain |-> root, index |-> m.counter])
          = [chain |-> root, index |-> m.counter + 1]
    BY DEF AdvanceChainKey
  <2>3. [c EXCEPT !.chain_key = [chain |-> root, index |-> m.counter + 1]] = d
    OBVIOUS
  <2> QED BY <2>1, <2>2, <2>3, Zenon
<1> DEFINE chains == [l EXCEPT ![1] = d]
<1>19. [l EXCEPT ![1].chain_key = AdvanceChainKey([@ EXCEPT !.index = m.counter])] = chains
  <2> HIDE DEF l, c, d
  <2>1. [l EXCEPT ![1].chain_key = AdvanceChainKey([@ EXCEPT !.index = m.counter])]
          = [l EXCEPT ![1] = [c EXCEPT !.chain_key = AdvanceChainKey([@ EXCEPT !.index = m.counter])]]
    BY <1>11
  <2> QED BY <1>18, <2>1
<1>20. e = [s EXCEPT !.skipped_message_keys = skipped, !.receiver_chains = chains]
  <2> HIDE DEF s, l, c, d
  <2> QED BY <1>11, <1>15, <1>17, <1>19 DEF RatchetState
<1>21. /\ chains \in Seq(Chain)
       /\ Len(chains) = Len(l)
       /\ chains[1] = d
       /\ \A j \in 2 .. Len(l) : chains[j] = r.receiver_chains[j - 1]
  <2> HIDE DEF l, d
  <2> QED BY <1>9, <1>11, <1>12
<1>22. chains # <<>>
  <2> HIDE DEF chains, l
  <2> QED BY <1>12, <1>21
<1>23. skipped \in Seq(SkippedKey) /\ Len(skipped) <= OLM_MAX_SKIPPED_MESSAGE_KEYS
  <2>1. c.chain_key.index <= m.counter
    <3> HIDE DEF c
    <3> QED BY <1>7, <1>8
  <2> HIDE DEF c
  <2> QED BY <1>7, <1>8, <1>10, <2>1, SkippingProperties
<1> HIDE DEF s, l, c, d, chains, skipped, e, root
<1>24. /\ e \in RatchetState
       /\ e.root_key = root
       /\ e.receiver_chains = chains
       /\ e.sender_chain = <<>>
       /\ e.skipped_message_keys = skipped
  BY <1>15, <1>20, <1>21, <1>23 DEF RatchetState
<1>25. WellFormed(e)
  <2>1. /\ Len(e.sender_chain) = 0
        /\ Len(e.receiver_chains) = Len(chains)
        /\ Len(e.skipped_message_keys) = Len(skipped)
        /\ e.receiver_chains # <<>>
    <3>1. Len(<<>>) = 0
      OBVIOUS
    <3> QED BY <1>22, <1>24, <3>1, Zenon
  <2> QED BY <1>12, <1>21, <1>23, <1>24, <2>1 DEF WellFormed
<1>26. /\ Len(e.receiver_chains) \in 1 .. Len(r.receiver_chains) + 1
       /\ Len(e.receiver_chains)
            = IF Len(r.receiver_chains) < OLM_MAX_RECEIVER_CHAINS
                THEN Len(r.receiver_chains) + 1 ELSE Len(r.receiver_chains)
       /\ e.receiver_chains # <<>>
       /\ \A j \in 2 .. Len(e.receiver_chains) :
             e.receiver_chains[j] = r.receiver_chains[j - 1]
       /\ e.receiver_chains[1] = d
  <2>1. Len(e.receiver_chains) = Len(l)
    BY <1>21, <1>24, Zenon
  <2>2. Len(e.receiver_chains)
          = IF Len(r.receiver_chains) < OLM_MAX_RECEIVER_CHAINS
              THEN Len(r.receiver_chains) + 1 ELSE Len(r.receiver_chains)
    BY <1>11, <2>1
  <2>3. /\ Len(e.receiver_chains) \in 1 .. Len(r.receiver_chains) + 1
        /\ e.receiver_chains # <<>>
        /\ \A j \in 2 .. Len(e.receiver_chains) :
              e.receiver_chains[j] = r.receiver_chains[j - 1]
        /\ e.receiver_chains[1] = d
    BY <1>12, <1>21, <1>22, <1>24, <2>1
  <2> QED BY <2>2, <2>3
<1>27. /\ e.receiver_chains[1].ratchet_key = m.ratchet_key
       /\ e.receiver_chains[1].chain_key.chain = root
       /\ e.receiver_chains[1].chain_key.index = m.counter + 1
  BY <1>9, <1>26, Zenon
<1> QED
  BY <1>2, <1>4, <1>6, <1>8, <1>24, <1>25, <1>26, <1>27 DEF e, root, c, skipped

-----------------------------------------------------------------------------
(* Type correctness.                                                       *)

LEMMA EncryptWellFormed ==
    ASSUME NEW r, WellFormed(r), NEW k \in RatchetKey, NEW n \in Nat
    PROVE  WellFormed(AfterEncrypt(r, k)) /\ EncryptedMessage(r, k, n) \in Message
<1>1. CASE r.sender_chain # <<>>
  BY <1>1, EncryptOnChain
<1>2. CASE r.sender_chain = <<>>
  BY <1>2, EncryptNewChain
<1> QED
  BY <1>1, <1>2

LEMMA DecryptWellFormed ==
    ASSUME NEW r, WellFormed(r), NEW m \in Message, Decrypts(r, m)
    PROVE  WellFormed(AfterDecrypt(r, m))
<1>1. CASE AlreadyAdvanced(r, m)
  BY <1>1, DecryptSkipped
<1>2. CASE HasReceiverChain(r, m.ratchet_key) /\ ~AlreadyAdvanced(r, m)
  BY <1>2, DecryptOnKnownChain
<1>3. CASE ~HasReceiverChain(r, m.ratchet_key)
  BY <1>3, DecryptOnNewChain
<1> QED
  BY <1>1, <1>2, <1>3

LEMMA InitTypeOK == Init => TypeOK
<1> SUFFICES ASSUME Init PROVE TypeOK
  OBVIOUS
<1>1. <<Alice, 0>> \in RatchetKey
  BY DEF RatchetKey, Party
<1>2. <<InitialSecret>> \in RootKey
  BY DEF RootKey
<1>3. NewChainKey(<<InitialSecret>>) \in ChainKey
  BY <1>2 DEF NewChainKey, ChainKey
<1> DEFINE c == [ratchet_key |-> <<Alice, 0>>, chain_key |-> NewChainKey(<<InitialSecret>>)]
<1>4. c \in Chain
  BY <1>1, <1>3 DEF Chain
<1>5. WellFormed(InitialiseAsAlice(InitialSecret, <<Alice, 0>>))
  <2> HIDE DEF c
  <2>1. /\ <<c>> \in Seq(Chain) /\ Len(<<c>>) = 1 /\ <<c>> # <<>>
        /\ <<>> \in Seq(Chain) /\ <<>> \in Seq(SkippedKey) /\ Len(<<>>) = 0
    BY <1>4
  <2> DEFINE r == [root_key |-> <<InitialSecret>>, sender_chain |-> <<c>>,
                   receiver_chains |-> <<>>, skipped_message_keys |-> <<>>]
  <2>2. InitialiseAsAlice(InitialSecret, <<Alice, 0>>) = r
    BY DEF InitialiseAsAlice, c
  <2>3. WellFormed(r)
    BY <1>2, <2>1, ReceiverChainsAssumption, SkippedKeysAssumption
    DEF WellFormed, RatchetState
  <2> QED BY <2>2, <2>3
<1>6. WellFormed(InitialiseAsBob(InitialSecret, <<Alice, 0>>))
  <2> HIDE DEF c
  <2>1. /\ <<c>> \in Seq(Chain) /\ Len(<<c>>) = 1 /\ <<c>> # <<>>
        /\ <<>> \in Seq(Chain) /\ <<>> \in Seq(SkippedKey) /\ Len(<<>>) = 0
    BY <1>4
  <2> DEFINE r == [root_key |-> <<InitialSecret>>, sender_chain |-> <<>>,
                   receiver_chains |-> <<c>>, skipped_message_keys |-> <<>>]
  <2>2. InitialiseAsBob(InitialSecret, <<Alice, 0>>) = r
    BY DEF InitialiseAsBob, c
  <2>3. WellFormed(r)
    BY <1>2, <2>1, ReceiverChainsAssumption, SkippedKeysAssumption
    DEF WellFormed, RatchetState
  <2> QED BY <2>2, <2>3
<1>7. /\ ratchet \in [Party -> RatchetState]
      /\ \A p \in Party : WellFormed(ratchet[p])
  BY <1>5, <1>6 DEF Init, WellFormed
<1>8. /\ generated \in [Party -> Nat]
      /\ sent \in [Party -> Seq(Message)]
      /\ received \in [Party -> Seq(Message)]
  BY DEF Init
<1> QED
  BY <1>7, <1>8 DEF TypeOK

LEMMA PeerIsParty ==
    ASSUME NEW p \in Party
    PROVE  /\ Peer(p) \in Party /\ Peer(p) # p /\ Peer(Peer(p)) = p
           /\ \A q \in Party : q = p \/ q = Peer(p)
  BY PartiesAssumption DEF Party, Peer

LEMMA NextTypeOK == TypeOK /\ [Next]_vars => TypeOK'
<1> SUFFICES ASSUME TypeOK, [Next]_vars PROVE TypeOK'
  OBVIOUS
<1>1. ASSUME NEW p \in Party, Encrypt(p) PROVE TypeOK'
  <2>1. /\ WellFormed(ratchet[p]) /\ FreshKey(p) \in RatchetKey
        /\ Len(sent[p]) + 1 \in Nat
    BY DEF TypeOK, FreshKey, RatchetKey
  <2>2. WellFormed(AfterEncrypt(ratchet[p], FreshKey(p))) /\ NextMessage(p) \in Message
    BY <2>1, EncryptWellFormed DEF NextMessage
  <2>3. AfterEncrypt(ratchet[p], FreshKey(p)) \in RatchetState
    BY <2>2 DEF WellFormed
  <2>4. ratchet' \in [Party -> RatchetState] /\ \A q \in Party : WellFormed(ratchet'[q])
    BY <1>1, <2>2, <2>3 DEF TypeOK, Encrypt
  <2>5. /\ generated' \in [Party -> Nat]
        /\ sent' \in [Party -> Seq(Message)]
        /\ received' \in [Party -> Seq(Message)]
    BY <1>1, <2>2 DEF TypeOK, Encrypt
  <2> QED BY <2>4, <2>5 DEF TypeOK, WellFormed
<1>2. ASSUME NEW p \in Party, NEW i \in DOMAIN sent[Peer(p)], Decrypt(p, sent[Peer(p)][i])
      PROVE  TypeOK'
  <2> DEFINE m == sent[Peer(p)][i]
  <2>1. m \in Message
    BY PeerIsParty DEF TypeOK
  <2>2. WellFormed(ratchet[p]) /\ Decrypts(ratchet[p], m)
    BY <1>2 DEF TypeOK, Decrypt
  <2> HIDE DEF m
  <2>3. WellFormed(AfterDecrypt(ratchet[p], m))
    BY <2>1, <2>2, DecryptWellFormed
  <2>4. AfterDecrypt(ratchet[p], m) \in RatchetState
    BY <2>3 DEF WellFormed
  <2>5. ratchet' \in [Party -> RatchetState] /\ \A q \in Party : WellFormed(ratchet'[q])
    BY <1>2, <2>3, <2>4 DEF TypeOK, Decrypt, m
  <2>6. /\ generated' \in [Party -> Nat]
        /\ sent' \in [Party -> Seq(Message)]
        /\ received' \in [Party -> Seq(Message)]
    BY <1>2, <2>1 DEF TypeOK, Decrypt, m
  <2> QED BY <2>5, <2>6 DEF TypeOK, WellFormed
<1>3. CASE UNCHANGED vars
  BY <1>3 DEF TypeOK, vars, WellFormed
<1> QED
  BY <1>1, <1>2, <1>3 DEF Next

(* The ratchets stay within their arrays, whatever the transport does, and *)
(* a party that cannot send always knows a ratchet key to reply to.        *)
THEOREM TypeCorrect == Spec => []TypeOK
<1>1. Init => TypeOK
  BY InitTypeOK
<1>2. TypeOK /\ [Next]_vars => TypeOK'
  BY NextTypeOK
<1> QED
  BY <1>1, <1>2, PTL DEF Spec

-----------------------------------------------------------------------------
(* The inductive invariant.  One lemma per kind of step says how the step  *)
(* keeps the order inside one ratchet; the theorems at the end put them    *)
(* together.                                                               *)

(* The types of the fields, in the form the steps below use.               *)
LEMMA RatchetFields ==
    ASSUME NEW r, WellFormed(r)
    PROVE  /\ r.root_key \in RootKey
           /\ Len(r.root_key) \in Nat
           /\ r.sender_chain # <<>> => r.sender_chain[1] \in Chain
           /\ DOMAIN r.receiver_chains = 1 .. Len(r.receiver_chains)
           /\ Len(r.receiver_chains) \in Nat
           /\ \A i \in DOMAIN r.receiver_chains : r.receiver_chains[i] \in Chain
           /\ DOMAIN r.skipped_message_keys = 1 .. Len(r.skipped_message_keys)
           /\ Len(r.skipped_message_keys) \in Nat
           /\ \A i \in DOMAIN r.skipped_message_keys :
                 r.skipped_message_keys[i] \in SkippedKey
<1>1. r.sender_chain \in Seq(Chain) /\ (r.sender_chain # <<>> => r.sender_chain[1] \in Chain)
  BY DEF WellFormed, RatchetState
<1> QED
  BY <1>1 DEF WellFormed, RatchetState, RootKey

LEMMA ChainFields ==
    /\ \A c \in Chain : /\ c.chain_key.index \in Nat
                        /\ c.chain_key.chain \in RootKey
                        /\ Len(c.chain_key.chain) \in Nat
    /\ \A s \in SkippedKey : /\ s.message_key.index \in Nat
                             /\ s.message_key.chain \in RootKey
                             /\ Len(s.message_key.chain) \in Nat
    /\ \A m \in Message : /\ m.mac_key.index \in Nat
                          /\ m.counter \in Nat
                          /\ m.plaintext \in Nat
                          /\ m.mac_key.chain \in RootKey
                          /\ Len(m.mac_key.chain) \in Nat
  BY DEF Chain, SkippedKey, Message, ChainKey, RootKey

(* Each ratchet step changes the owner of the chain that the root key      *)
(* belongs to.                                                             *)
LEMMA ChainAlternates ==
    ASSUME NEW p \in Party, NEW path \in RootKey, NEW secret
    PROVE  /\ Len(Append(path, secret)) = Len(path) + 1
           /\ IsChainOf(path, p) => ~IsChainOf(path, Peer(p))
           /\ IsChainOf(path, p) => IsChainOf(Append(path, secret), Peer(p))
<1>1. Len(path) \in Nat /\ Len(Append(path, secret)) = Len(path) + 1
  BY DEF RootKey
<1>2. \A n \in Nat : (n % 2 = 0 => (n + 1) % 2 = 1) /\ (n % 2 = 1 => (n + 1) % 2 = 0)
  OBVIOUS
<1>3. CASE p = Alice
  BY <1>1, <1>2, <1>3, PartiesAssumption DEF IsChainOf, Peer
<1>4. CASE p = Bob
  BY <1>1, <1>2, <1>4, PartiesAssumption DEF IsChainOf, Peer
<1> QED
  BY <1>1, <1>3, <1>4 DEF Party

-----------------------------------------------------------------------------
(* Steps that leave the receiving side alone.                              *)

LEMMA ReceivingSideKept ==
    ASSUME NEW p \in Party, NEW r, NEW e, WellFormed(r), WellFormed(e),
           e.receiver_chains = r.receiver_chains,
           e.skipped_message_keys = r.skipped_message_keys,
           Len(r.root_key) <= Len(e.root_key)
    PROVE  /\ SkippedInOrder(r, p) => SkippedInOrder(e, p)
           /\ \A messages \in Seq(Message) : \A peers :
                 ReceivedInOrder(r, messages, peers) => ReceivedInOrder(e, messages, peers)
<1>1. /\ Len(r.root_key) \in Nat /\ Len(e.root_key) \in Nat
      /\ \A i \in DOMAIN r.skipped_message_keys :
            Len(r.skipped_message_keys[i].message_key.chain) \in Nat
  BY RatchetFields, ChainFields
<1>2. \A a, b, c \in Int : a <= b /\ b <= c => a <= c
  OBVIOUS
<1>3. SkippedInOrder(r, p) => SkippedInOrder(e, p)
  BY <1>1, <1>2 DEF SkippedInOrder
<1>4. ASSUME NEW messages \in Seq(Message), NEW peers, ReceivedInOrder(r, messages, peers)
      PROVE  ReceivedInOrder(e, messages, peers)
  <2>1. \A i \in DOMAIN messages : Len(messages[i].mac_key.chain) \in Nat
    BY ChainFields
  <2> QED
    BY <1>1, <1>2, <1>4, <2>1 DEF ReceivedInOrder, BehindReceiver
<1> QED
  BY <1>3, <1>4

(* What has been received stays so when the peer sends more.               *)
LEMMA ReceivedFromMore ==
    ASSUME NEW r, NEW messages, NEW peers \in Seq(Message), NEW m,
           ReceivedInOrder(r, messages, peers)
    PROVE  ReceivedInOrder(r, messages, Append(peers, m))
<1>1. \A j \in DOMAIN peers : j \in DOMAIN Append(peers, m) /\ Append(peers, m)[j] = peers[j]
  OBVIOUS
<1> HIDE DEF ReceivedInOrder
<1>2. \A i \in DOMAIN messages : \E j \in DOMAIN Append(peers, m) :
         messages[i] = Append(peers, m)[j]
  BY <1>1 DEF ReceivedInOrder
<1> QED
  BY <1>2 DEF ReceivedInOrder

-----------------------------------------------------------------------------
(* Encryption.                                                             *)

(* One more message is in order when it is numbered next, is behind the    *)
(* sender like the others, and has a key of its own.                       *)
LEMMA SentOneMore ==
    ASSUME NEW p \in Party, NEW r, NEW e, NEW messages \in Seq(Message),
           NEW m \in Message,
           SentInOrder(r, p, messages),
           m.counter = m.mac_key.index,
           m.plaintext = Len(messages) + 1,
           IsChainOf(m.mac_key.chain, p),
           BehindSender(e, m),
           \A i \in DOMAIN messages : /\ BehindSender(e, messages[i])
                                      /\ messages[i].mac_key # m.mac_key
    PROVE  SentInOrder(e, p, Append(messages, m))
<1> DEFINE more == Append(messages, m)
<1>1. /\ DOMAIN messages = 1 .. Len(messages)
      /\ DOMAIN more = 1 .. Len(messages) + 1
      /\ Len(messages) + 1 \notin DOMAIN messages
      /\ more[Len(messages) + 1] = m
      /\ \A i \in DOMAIN messages : more[i] = messages[i]
      /\ \A i \in DOMAIN more : i \in DOMAIN messages \/ i = Len(messages) + 1
  OBVIOUS
<1> HIDE DEF more
<1>2. \A i \in DOMAIN more :
        /\ more[i].counter = more[i].mac_key.index
        /\ more[i].plaintext = i
        /\ IsChainOf(more[i].mac_key.chain, p)
        /\ BehindSender(e, more[i])
  <2>1. \A i \in DOMAIN messages :
          /\ messages[i].counter = messages[i].mac_key.index
          /\ messages[i].plaintext = i
          /\ IsChainOf(messages[i].mac_key.chain, p)
          /\ BehindSender(e, messages[i])
    BY Zenon DEF SentInOrder
  <2> TAKE i \in DOMAIN more
  <2>2. CASE i \in DOMAIN messages
    <3>1. more[i] = messages[i]
      BY ONLY <1>1, <2>2, Zenon
    <3> QED BY ONLY <2>1, <2>2, <3>1, Zenon
  <2>3. CASE i = Len(messages) + 1
    <3>1. more[i] = m
      BY ONLY <1>1, <2>3, Zenon
    <3> QED BY <2>3, <3>1, Zenon
  <2> QED BY <1>1, <2>2, <2>3, Zenon
<1>3. ASSUME NEW i \in DOMAIN more, NEW j \in DOMAIN more, i # j
      PROVE  more[i].mac_key # more[j].mac_key
  <2>1. CASE i \in DOMAIN messages /\ j \in DOMAIN messages
    <3>1. messages[i].mac_key # messages[j].mac_key
      BY <1>3, <2>1 DEF SentInOrder
    <3>2. more[i] = messages[i] /\ more[j] = messages[j]
      BY <1>1, <2>1
    <3> QED BY <3>1, <3>2
  <2>2. CASE i = Len(messages) + 1 \/ j = Len(messages) + 1
    BY <1>1, <1>3, <2>2, Zenon
  <2> QED BY <1>1, <2>1, <2>2
<1> QED
  BY <1>2, <1>3, Zenon DEF SentInOrder, more

LEMMA EncryptInOrder ==
    ASSUME NEW p \in Party, NEW r, WellFormed(r), NEW k \in RatchetKey,
           NEW messages \in Seq(Message),
           ChainsInOrder(r, p), SentInOrder(r, p, messages)
    PROVE  LET e == AfterEncrypt(r, k)
               m == EncryptedMessage(r, k, Len(messages) + 1)
           IN  /\ ChainsInOrder(e, p)
               /\ SentInOrder(e, p, Append(messages, m))
               /\ Len(r.root_key) <= Len(e.root_key)
<1> DEFINE n == Len(messages) + 1
           e == AfterEncrypt(r, k)
           m == EncryptedMessage(r, k, n)
<1>1. n \in Nat /\ DOMAIN messages = 1 .. Len(messages)
      /\ \A i \in DOMAIN messages : messages[i] \in Message
  OBVIOUS
<1>2. Len(r.root_key) \in Nat /\ r.root_key \in RootKey
  BY RatchetFields
<1>3. ASSUME r.sender_chain # <<>>
      PROVE  /\ ChainsInOrder(e, p)
             /\ SentInOrder(e, p, Append(messages, m))
             /\ Len(r.root_key) <= Len(e.root_key)
  <2> DEFINE s == r.sender_chain[1]
  <2>1. /\ s \in Chain /\ s.chain_key.chain = r.root_key /\ s.chain_key.index \in Nat
        /\ IsChainOf(r.root_key, p)
    BY <1>3, RatchetFields, ChainFields DEF ChainsInOrder
  <2>2. /\ e.root_key = r.root_key
        /\ e.receiver_chains = r.receiver_chains
        /\ e.sender_chain # <<>>
        /\ e.sender_chain[1].ratchet_key = s.ratchet_key
        /\ e.sender_chain[1].chain_key.chain = s.chain_key.chain
        /\ e.sender_chain[1].chain_key.index = s.chain_key.index + 1
        /\ m \in Message
        /\ m.ratchet_key = s.ratchet_key
        /\ m.counter = s.chain_key.index
        /\ m.mac_key = s.chain_key
        /\ m.plaintext = n
    BY <1>1, <1>3, EncryptOnChain
  <2> HIDE DEF e, m, s, n
  <2>3. ChainsInOrder(e, p)
    BY <2>1, <2>2, <1>3, Zenon DEF ChainsInOrder
  <2>4. BehindSender(e, m)
    BY <2>1, <2>2 DEF BehindSender
  <2>5. ASSUME NEW i \in DOMAIN messages
        PROVE  BehindSender(e, messages[i]) /\ messages[i].mac_key # m.mac_key
    <3>1. BehindSender(r, messages[i]) /\ messages[i].mac_key.index \in Nat
      BY <1>1, ChainFields DEF SentInOrder
    <3> QED BY <1>2, <2>1, <2>2, <3>1 DEF BehindSender, s
  <2>6. SentInOrder(e, p, Append(messages, m))
    BY <2>1, <2>2, <2>4, <2>5, SentOneMore DEF n
  <2> QED BY <1>2, <2>2, <2>3, <2>6
<1>4. ASSUME r.sender_chain = <<>>
      PROVE  /\ ChainsInOrder(e, p)
             /\ SentInOrder(e, p, Append(messages, m))
             /\ Len(r.root_key) <= Len(e.root_key)
  <2> DEFINE root == Append(r.root_key, {k, r.receiver_chains[1].ratchet_key})
  <2>1. /\ e.root_key = root
        /\ e.receiver_chains = r.receiver_chains
        /\ e.sender_chain # <<>>
        /\ e.sender_chain[1].ratchet_key = k
        /\ e.sender_chain[1].chain_key.chain = root
        /\ e.sender_chain[1].chain_key.index = 1
        /\ m \in Message
        /\ m.ratchet_key = k
        /\ m.counter = 0
        /\ m.mac_key.chain = root
        /\ m.mac_key.index = 0
        /\ m.plaintext = n
    <3>1. k \in RatchetKey /\ n \in Nat /\ WellFormed(r)
      BY <1>1
    <3> HIDE DEF n
    <3>2. /\ e.root_key = root
          /\ e.receiver_chains = r.receiver_chains
          /\ e.sender_chain # <<>>
          /\ e.sender_chain[1].ratchet_key = k
          /\ e.sender_chain[1].chain_key.chain = root
          /\ e.sender_chain[1].chain_key.index = 1
      BY ONLY <1>4, <3>1, EncryptNewChain DEF e, m, root
    <3>3. /\ m \in Message
          /\ m.ratchet_key = k
          /\ m.counter = 0
          /\ m.mac_key.chain = root
          /\ m.mac_key.index = 0
          /\ m.plaintext = n
      BY ONLY <1>4, <3>1, EncryptNewChain DEF m, root
    <3> QED BY ONLY <3>2, <3>3
  <2>2. Len(root) = Len(r.root_key) + 1 /\ IsChainOf(root, p)
    <3>1. IsChainOf(r.root_key, Peer(p))
      BY <1>4 DEF ChainsInOrder
    <3> QED BY <1>2, <3>1, ChainAlternates, PeerIsParty
  <2> HIDE DEF e, m, n, root
  <2>3. ChainsInOrder(e, p)
    <3>1. \A i \in DOMAIN r.receiver_chains :
            /\ Len(r.receiver_chains[i].chain_key.chain) \in Nat
            /\ Len(r.receiver_chains[i].chain_key.chain) <= Len(r.root_key)
      BY RatchetFields, ChainFields DEF ChainsInOrder
    <3>2. \A i \in DOMAIN r.receiver_chains :
            Len(r.receiver_chains[i].chain_key.chain) <= Len(root)
      BY <1>2, <2>2, <3>1
    <3> QED BY <2>1, <2>2, <3>2, Zenon DEF ChainsInOrder
  <2>4. BehindSender(e, m)
    BY <2>1 DEF BehindSender
  <2>5. ASSUME NEW i \in DOMAIN messages
        PROVE  BehindSender(e, messages[i]) /\ messages[i].mac_key # m.mac_key
    <3>1. Len(messages[i].mac_key.chain) < Len(r.root_key)
      BY <1>4, Zenon DEF SentInOrder, BehindSender
    <3>2. Len(messages[i].mac_key.chain) \in Nat
      BY <1>1, ChainFields
    <3> QED BY <1>2, <2>1, <2>2, <3>1, <3>2 DEF BehindSender
  <2>6. SentInOrder(e, p, Append(messages, m))
    BY <2>1, <2>2, <2>4, <2>5, SentOneMore DEF n
  <2> QED BY <1>2, <2>1, <2>2, <2>3, <2>6
<1> QED
  BY <1>3, <1>4

-----------------------------------------------------------------------------
(* Decryption.                                                             *)

(* One more message is in order when the peer sent it and, like the others,*)
(* it is behind the receiver afterwards.                                   *)
LEMMA ReceivedOneMore ==
    ASSUME NEW r, NEW e, NEW messages \in Seq(Message), NEW peers, NEW m \in Message,
           ReceivedInOrder(r, messages, peers),
           \E j \in DOMAIN peers : m = peers[j],
           BehindReceiver(e, m),
           \A i \in DOMAIN messages : BehindReceiver(e, messages[i])
    PROVE  ReceivedInOrder(e, Append(messages, m), peers)
<1> DEFINE more == Append(messages, m)
<1>1. \A i \in DOMAIN more : \/ i \in DOMAIN messages /\ more[i] = messages[i]
                             \/ more[i] = m
  OBVIOUS
<1> HIDE DEF more
<1> QED
  BY <1>1 DEF ReceivedInOrder, more

(* What the two kinds of step that move a receiver chain have in common:   *)
(* the chain, as it was found or made, moves to just after the message,    *)
(* its keys in between are stored, and the other chains are old ones.      *)
DecryptsOnChain(r, e, chain, counter) ==
    /\ chain.chain_key.index <= counter
    /\ Len(r.root_key) <= Len(e.root_key)
    /\ Len(chain.chain_key.chain) <= Len(e.root_key)
    /\ e.skipped_message_keys = AfterSkipping(r.skipped_message_keys, chain, counter)
    /\ \A i \in DOMAIN r.skipped_message_keys :
          r.skipped_message_keys[i].message_key.chain = chain.chain_key.chain
            => r.skipped_message_keys[i].message_key.index < chain.chain_key.index
    /\ \A j \in DOMAIN e.receiver_chains :
          IF e.receiver_chains[j].chain_key.chain = chain.chain_key.chain
            THEN e.receiver_chains[j].chain_key.index = counter + 1
            ELSE \E l \in DOMAIN r.receiver_chains :
                    e.receiver_chains[j] = r.receiver_chains[l]

(* Where each skipped key comes from after such a step.                    *)
LEMMA SkippedOnChain ==
    ASSUME NEW r, NEW e, WellFormed(r), WellFormed(e),
           NEW chain \in Chain, NEW counter \in Nat,
           DecryptsOnChain(r, e, chain, counter)
    PROVE  LET old == r.skipped_message_keys
               after == e.skipped_message_keys
               new == counter - chain.chain_key.index
           IN  \A i \in DOMAIN after :
                  IF i <= new
                    THEN /\ after[i].message_key.chain = chain.chain_key.chain
                         /\ after[i].message_key.index = counter - i
                    ELSE /\ i - new \in DOMAIN old
                         /\ after[i] = old[i - new]
<1> DEFINE old == r.skipped_message_keys
           after == e.skipped_message_keys
           new == counter - chain.chain_key.index
<1>1. old \in Seq(SkippedKey) /\ Len(old) <= OLM_MAX_SKIPPED_MESSAGE_KEYS
  BY DEF WellFormed, RatchetState
<1>2. after = AfterSkipping(old, chain, counter) /\ chain.chain_key.index <= counter
  BY DEF DecryptsOnChain
<1>3. DOMAIN old = 1 .. Len(old) /\ DOMAIN after = 1 .. Len(after)
  BY RatchetFields
<1> HIDE DEF old, after
<1>4. \A i \in 1 .. Len(after) :
        IF i <= new
          THEN /\ after[i].ratchet_key = chain.ratchet_key
               /\ after[i].message_key.chain = chain.chain_key.chain
               /\ after[i].message_key.index = counter - i
          ELSE /\ i - new \in 1 .. Len(old)
               /\ after[i] = old[i - new]
  BY <1>1, <1>2, SkippingProperties
<1> QED
  BY <1>3, <1>4 DEF old, after

(* The keys a decryption skips are of the message's chain and before it;   *)
(* so when the chain's earlier keys are behind it, so are all of them.     *)
LEMMA SkippedStayInOrder ==
    ASSUME NEW p \in Party, NEW r, NEW e, WellFormed(r), WellFormed(e),
           NEW chain \in Chain, NEW counter \in Nat,
           SkippedInOrder(r, p), DecryptsOnChain(r, e, chain, counter),
           IsChainOf(chain.chain_key.chain, Peer(p))
    PROVE  SkippedInOrder(e, p)
<1> DEFINE old == r.skipped_message_keys
           after == e.skipped_message_keys
           new == counter - chain.chain_key.index
<1>1. /\ \A i \in DOMAIN after : /\ after[i] \in SkippedKey
                                 /\ after[i].message_key.index \in Nat
                                 /\ after[i].message_key \in ChainKey
                                 /\ Len(after[i].message_key.chain) \in Nat
      /\ \A i \in DOMAIN old : /\ Len(old[i].message_key.chain) \in Nat
                               /\ old[i].message_key.index \in Nat
                               /\ old[i].message_key \in ChainKey
      /\ Len(r.root_key) \in Nat /\ Len(e.root_key) \in Nat
      /\ chain.chain_key.index \in Nat
      /\ DOMAIN old = 1 .. Len(old) /\ DOMAIN after = 1 .. Len(after)
      /\ Len(old) \in Nat /\ Len(after) \in Nat
      /\ Len(r.root_key) <= Len(e.root_key)
      /\ Len(chain.chain_key.chain) <= Len(e.root_key)
      /\ chain.chain_key.index <= counter
  BY RatchetFields, ChainFields DEF SkippedKey, DecryptsOnChain
<1>2. \A i \in DOMAIN after :
         IF i <= new
           THEN /\ after[i].message_key.chain = chain.chain_key.chain
                /\ after[i].message_key.index = counter - i
           ELSE /\ i - new \in DOMAIN old
                /\ after[i] = old[i - new]
  BY SkippedOnChain
<1>3. new \in Nat
  BY <1>1
<1>4. \A i \in DOMAIN old :
        /\ IsChainOf(old[i].message_key.chain, Peer(p))
        /\ Len(old[i].message_key.chain) <= Len(r.root_key)
        /\ old[i].message_key.chain = chain.chain_key.chain
             => old[i].message_key.index < chain.chain_key.index
        /\ \A j \in DOMAIN old : i # j => old[j].message_key # old[i].message_key
        /\ \A l \in DOMAIN r.receiver_chains :
             r.receiver_chains[l].chain_key.chain = old[i].message_key.chain
               => old[i].message_key.index < r.receiver_chains[l].chain_key.index
  <2>1. SkippedInOrder(r, p)
    OBVIOUS
  <2>2. \A i \in DOMAIN old :
          old[i].message_key.chain = chain.chain_key.chain
            => old[i].message_key.index < chain.chain_key.index
    BY DEF DecryptsOnChain
  <2>3. \A i \in DOMAIN old :
          /\ IsChainOf(old[i].message_key.chain, Peer(p))
          /\ Len(old[i].message_key.chain) <= Len(r.root_key)
          /\ \A j \in DOMAIN old : i # j => old[j].message_key # old[i].message_key
          /\ \A l \in DOMAIN r.receiver_chains :
               r.receiver_chains[l].chain_key.chain = old[i].message_key.chain
                 => old[i].message_key.index < r.receiver_chains[l].chain_key.index
    BY ONLY <2>1 DEF SkippedInOrder
  <2> QED BY ONLY <2>2, <2>3, Zenon
<1>9. \A j \in DOMAIN e.receiver_chains :
        IF e.receiver_chains[j].chain_key.chain = chain.chain_key.chain
          THEN e.receiver_chains[j].chain_key.index = counter + 1
          ELSE \E l \in DOMAIN r.receiver_chains :
                  e.receiver_chains[j] = r.receiver_chains[l]
  BY DEF DecryptsOnChain
<1> HIDE DEF old, after, new
<1>5. ASSUME NEW i \in DOMAIN after
      PROVE  /\ IsChainOf(after[i].message_key.chain, Peer(p))
             /\ Len(after[i].message_key.chain) <= Len(e.root_key)
  <2>1. CASE i <= new
    <3>1. after[i].message_key.chain = chain.chain_key.chain
      BY ONLY <1>2, <1>5, <2>1
    <3> QED BY <1>1, <3>1, Zenon
  <2>2. CASE ~(i <= new)
    <3>1. i - new \in DOMAIN old /\ after[i] = old[i - new]
      BY ONLY <1>2, <1>5, <2>2
    <3>2. /\ IsChainOf(after[i].message_key.chain, Peer(p))
          /\ Len(after[i].message_key.chain) <= Len(r.root_key)
      BY ONLY <1>4, <3>1, Zenon
    <3> QED BY ONLY <1>1, <1>5, <3>2
  <2> QED BY ONLY <2>1, <2>2
<1>6. ASSUME NEW i \in DOMAIN after, NEW j \in DOMAIN after, i <= new, ~(j <= new)
      PROVE  after[j].message_key # after[i].message_key
  <2>1. /\ after[i].message_key.chain = chain.chain_key.chain
        /\ after[i].message_key.index >= chain.chain_key.index
    BY <1>1, <1>2, <1>6 DEF new
  <2>2. /\ after[j].message_key.chain = chain.chain_key.chain
             => after[j].message_key.index < chain.chain_key.index
    BY <1>2, <1>4, <1>6
  <2>3. after[i].message_key.index \in Nat /\ after[j].message_key.index \in Nat
    BY <1>1
  <2> QED BY <1>1, <2>1, <2>2, <2>3
<1>7. ASSUME NEW i \in DOMAIN after, NEW j \in DOMAIN after, i # j
      PROVE  after[j].message_key # after[i].message_key
  <2>1. CASE i <= new /\ j <= new
    <3>1. /\ after[i].message_key.index = counter - i
          /\ after[j].message_key.index = counter - j
          /\ i \in Nat /\ j \in Nat
      BY <1>1, <1>2, <2>1
    <3>2. counter - i # counter - j
      BY <1>7, <3>1
    <3> QED BY <3>1, <3>2, Zenon
  <2>2. CASE i <= new /\ ~(j <= new)
    BY <1>6, <2>2
  <2>3. CASE ~(i <= new) /\ j <= new
    BY <1>6, <2>3
  <2>4. CASE ~(i <= new) /\ ~(j <= new)
    BY <1>1, <1>2, <1>3, <1>4, <1>7, <2>4
  <2> QED BY <2>1, <2>2, <2>3, <2>4
<1>8. ASSUME NEW i \in DOMAIN after, NEW j \in DOMAIN e.receiver_chains,
             e.receiver_chains[j].chain_key.chain = after[i].message_key.chain
      PROVE  after[i].message_key.index < e.receiver_chains[j].chain_key.index
  <2>1. CASE i <= new
    <3>1. /\ after[i].message_key.index = counter - i
          /\ e.receiver_chains[j].chain_key.index = counter + 1
      BY <1>2, <1>8, <1>9, <2>1
    <3> QED BY <1>1, <3>1
  <2>2. CASE ~(i <= new) /\ after[i].message_key.chain = chain.chain_key.chain
    BY <1>1, <1>2, <1>4, <1>8, <1>9, <2>2
  <2>3. CASE ~(i <= new) /\ after[i].message_key.chain # chain.chain_key.chain
    BY <1>2, <1>4, <1>8, <1>9, <2>3
  <2> QED BY <2>1, <2>2, <2>3
<1> QED
  BY <1>5, <1>7, <1>8 DEF SkippedInOrder, after

(* What was behind the receiver stays behind it, and so is the message     *)
(* itself.                                                                 *)
LEMMA ReceivedStayBehind ==
    ASSUME NEW r, NEW e, WellFormed(r), WellFormed(e),
           NEW chain \in Chain, NEW counter \in Nat, NEW x \in Message,
           DecryptsOnChain(r, e, chain, counter),
           \/ /\ BehindReceiver(r, x)
              /\ x.mac_key.chain = chain.chain_key.chain
                   => x.mac_key.index < chain.chain_key.index
           \/ /\ x.mac_key.chain = chain.chain_key.chain
              /\ x.mac_key.index = counter
    PROVE  BehindReceiver(e, x)
<1> DEFINE old == r.skipped_message_keys
           after == e.skipped_message_keys
           new == counter - chain.chain_key.index
<1>1. /\ \A i \in DOMAIN old : old[i].message_key.index \in Nat
      /\ Len(r.root_key) \in Nat /\ Len(e.root_key) \in Nat
      /\ chain.chain_key.index \in Nat
      /\ Len(x.mac_key.chain) \in Nat /\ x.mac_key.index \in Nat
      /\ DOMAIN old = 1 .. Len(old) /\ DOMAIN after = 1 .. Len(after)
      /\ Len(old) \in Nat /\ Len(after) \in Nat
      /\ Len(r.root_key) <= Len(e.root_key)
      /\ Len(chain.chain_key.chain) <= Len(e.root_key)
      /\ chain.chain_key.index <= counter
  <2>1. /\ \A i \in DOMAIN old : old[i].message_key.index \in Nat
        /\ Len(r.root_key) \in Nat /\ Len(e.root_key) \in Nat
        /\ DOMAIN old = 1 .. Len(old) /\ DOMAIN after = 1 .. Len(after)
        /\ Len(old) \in Nat /\ Len(after) \in Nat
    <3>1. /\ Len(r.root_key) \in Nat
          /\ DOMAIN old = 1 .. Len(old) /\ Len(old) \in Nat
          /\ \A i \in DOMAIN old : old[i] \in SkippedKey
      BY ONLY WellFormed(r), RatchetFields
    <3>2. /\ Len(e.root_key) \in Nat
          /\ DOMAIN after = 1 .. Len(after) /\ Len(after) \in Nat
      BY ONLY WellFormed(e), RatchetFields
    <3>3. \A k \in SkippedKey : k.message_key.index \in Nat
      BY ONLY ChainFields
    <3>4. \A i \in DOMAIN old : old[i].message_key.index \in Nat
      BY ONLY <3>1, <3>3
    <3> QED BY ONLY <3>1, <3>2, <3>4
  <2>2. /\ chain.chain_key.index \in Nat
        /\ Len(x.mac_key.chain) \in Nat /\ x.mac_key.index \in Nat
    BY ChainFields
  <2>3. /\ Len(r.root_key) <= Len(e.root_key)
        /\ Len(chain.chain_key.chain) <= Len(e.root_key)
        /\ chain.chain_key.index <= counter
    BY DEF DecryptsOnChain
  <2> QED BY ONLY <2>1, <2>2, <2>3, Zenon
<1>2. /\ Len(x.mac_key.chain) <= Len(e.root_key)
      /\ x.mac_key.chain = chain.chain_key.chain => x.mac_key.index <= counter
  <2> HIDE DEF old, after, new
  <2>1. CASE /\ BehindReceiver(r, x)
             /\ x.mac_key.chain = chain.chain_key.chain
                  => x.mac_key.index < chain.chain_key.index
    <3>1. Len(x.mac_key.chain) <= Len(r.root_key)
      BY ONLY <2>1 DEF BehindReceiver
    <3>2. /\ Len(x.mac_key.chain) \in Nat /\ Len(r.root_key) \in Nat
          /\ Len(e.root_key) \in Nat /\ Len(r.root_key) <= Len(e.root_key)
      BY ONLY <1>1
    <3>3. Len(x.mac_key.chain) <= Len(e.root_key)
      BY ONLY <3>1, <3>2
    <3>4. /\ chain.chain_key.index \in Nat /\ x.mac_key.index \in Nat
          /\ chain.chain_key.index <= counter
      BY ONLY <1>1
    <3>5. x.mac_key.index < chain.chain_key.index => x.mac_key.index <= counter
      BY ONLY <3>4, counter \in Nat
    <3> QED BY ONLY <2>1, <3>3, <3>5, Zenon
  <2>2. CASE /\ x.mac_key.chain = chain.chain_key.chain
             /\ x.mac_key.index = counter
    BY ONLY <1>1, <2>2, counter \in Nat
  <2> QED BY <2>1, <2>2
<1>3. ASSUME NEW j \in DOMAIN e.receiver_chains,
             e.receiver_chains[j].chain_key.chain = x.mac_key.chain
      PROVE  x.mac_key.index < e.receiver_chains[j].chain_key.index
  <2>1. CASE x.mac_key.chain = chain.chain_key.chain
    <3>1. e.receiver_chains[j].chain_key.index = counter + 1
      BY <1>3, <2>1 DEF DecryptsOnChain
    <3> QED BY <1>1, <1>2, <2>1, <3>1
  <2>2. CASE x.mac_key.chain # chain.chain_key.chain
    BY <1>3, <2>2 DEF DecryptsOnChain, BehindReceiver
  <2> QED BY <2>1, <2>2
<1>4. ASSUME NEW i \in DOMAIN after
      PROVE  after[i].message_key # x.mac_key
  <2>1. IF i <= new
          THEN /\ after[i].message_key.chain = chain.chain_key.chain
               /\ after[i].message_key.index = counter - i
          ELSE /\ i - new \in DOMAIN old
               /\ after[i] = old[i - new]
    BY SkippedOnChain
  <2>2. CASE i <= new
    <3>1. counter - i >= chain.chain_key.index /\ counter - i < counter
      BY <1>1, <2>2 DEF new
    <3>2. /\ after[i].message_key.index = counter - i
          /\ after[i].message_key.chain = chain.chain_key.chain
      BY <2>1, <2>2
    <3>3. x.mac_key.chain = chain.chain_key.chain
            => \/ x.mac_key.index < chain.chain_key.index
               \/ x.mac_key.index = counter
      OBVIOUS
    <3>4. x.mac_key.chain = chain.chain_key.chain => x.mac_key.index # counter - i
      BY <1>1, <3>1, <3>3
    <3> QED BY <3>2, <3>4
  <2>3. CASE ~(i <= new)
    <3>1. i - new \in DOMAIN old /\ after[i] = old[i - new]
      BY <2>1, <2>3
    <3>2. CASE BehindReceiver(r, x)
      BY <3>1, <3>2 DEF BehindReceiver
    <3>3. CASE x.mac_key.chain = chain.chain_key.chain /\ x.mac_key.index = counter
      <4>1. old[i - new].message_key.chain = chain.chain_key.chain
              => old[i - new].message_key.index < chain.chain_key.index
        BY <3>1 DEF DecryptsOnChain
      <4> HIDE DEF old, after, new
      <4> QED BY <1>1, <3>1, <3>3, <4>1
    <3> QED BY <3>2, <3>3
  <2> QED BY <2>2, <2>3
<1> QED
  BY <1>2, <1>3, <1>4 DEF BehindReceiver

LEMMA DecryptSkippedInOrder ==
    ASSUME NEW p \in Party, NEW r, WellFormed(r), NEW m \in Message,
           Decrypts(r, m), AlreadyAdvanced(r, m),
           ChainsInOrder(r, p), SkippedInOrder(r, p),
           NEW mine, SentInOrder(r, p, mine)
    PROVE  LET e == AfterDecrypt(r, m)
           IN  /\ ChainsInOrder(e, p)
               /\ SkippedInOrder(e, p)
               /\ SentInOrder(e, p, mine)
               /\ BehindReceiver(e, m)
               /\ \A x : BehindReceiver(r, x) => BehindReceiver(e, x)
<1> DEFINE e == AfterDecrypt(r, m)
           old == r.skipped_message_keys
           after == e.skipped_message_keys
<1>1. /\ WellFormed(e)
      /\ e.root_key = r.root_key
      /\ e.sender_chain = r.sender_chain
      /\ e.receiver_chains = r.receiver_chains
      /\ Len(after) = Len(old) - 1
  BY DecryptSkipped
<1>2. PICK i \in 1 .. Len(old) :
        /\ old[i].message_key = m.mac_key
        /\ \A j \in 1 .. Len(old) - 1 :
              after[j] = IF j < i THEN old[j] ELSE old[j + 1]
  BY DecryptSkipped
<1>3. /\ Len(old) \in Nat /\ DOMAIN old = 1 .. Len(old)
      /\ DOMAIN after = 1 .. Len(after)
  BY <1>1, RatchetFields
<1> DEFINE from(j) == IF j < i THEN j ELSE j + 1
<1>4. /\ \A j \in DOMAIN after : /\ from(j) \in DOMAIN old
                                 /\ after[j] = old[from(j)]
                                 /\ from(j) # i
      /\ \A j, l \in DOMAIN after : j # l => from(j) # from(l)
  <2> HIDE DEF old, after
  <2> QED BY <1>1, <1>2, <1>3
<1>5. i \in DOMAIN old
  BY <1>3
<1> HIDE DEF e, old, after, from
<1>6. ChainsInOrder(e, p)
  BY <1>1, Zenon DEF ChainsInOrder
<1>7. SentInOrder(e, p, mine)
  BY <1>1, Zenon DEF SentInOrder, BehindSender
<1>8. SkippedInOrder(e, p)
  BY <1>1, <1>4 DEF SkippedInOrder, old, after
<1>9. BehindReceiver(e, m)
  <2>1. /\ Len(m.mac_key.chain) <= Len(r.root_key)
        /\ \A j \in DOMAIN r.receiver_chains :
              r.receiver_chains[j].chain_key.chain = m.mac_key.chain
                => m.mac_key.index < r.receiver_chains[j].chain_key.index
        /\ \A j \in DOMAIN old : i # j => old[j].message_key # m.mac_key
    BY <1>2, <1>5 DEF SkippedInOrder, old
  <2> QED BY <1>1, <1>4, <2>1 DEF BehindReceiver, after
<1>10. ASSUME NEW x, BehindReceiver(r, x)
       PROVE  BehindReceiver(e, x)
  BY <1>1, <1>4, <1>10 DEF BehindReceiver, old, after
<1> QED
  BY <1>6, <1>7, <1>8, <1>9, <1>10 DEF e

LEMMA DecryptKnownInOrder ==
    ASSUME NEW p \in Party, NEW r, WellFormed(r), NEW m \in Message, Decrypts(r, m),
           HasReceiverChain(r, m.ratchet_key), ~AlreadyAdvanced(r, m),
           ChainsInOrder(r, p), SkippedInOrder(r, p),
           NEW mine, SentInOrder(r, p, mine)
    PROVE  LET e == AfterDecrypt(r, m)
           IN  /\ ChainsInOrder(e, p)
               /\ SkippedInOrder(e, p)
               /\ SentInOrder(e, p, mine)
               /\ BehindReceiver(e, m)
               /\ \A x \in Message : BehindReceiver(r, x) => BehindReceiver(e, x)
<1> DEFINE e == AfterDecrypt(r, m)
           i == ReceiverChain(r, m.ratchet_key)
           c == r.receiver_chains[i]
<1>1. /\ WellFormed(e)
      /\ e.root_key = r.root_key
      /\ e.sender_chain = r.sender_chain
      /\ Len(e.receiver_chains) = Len(r.receiver_chains)
      /\ \A j \in 1 .. Len(r.receiver_chains) :
           j # i => e.receiver_chains[j] = r.receiver_chains[j]
      /\ e.receiver_chains[i].chain_key.chain = c.chain_key.chain
      /\ e.receiver_chains[i].chain_key.index = m.counter + 1
      /\ e.skipped_message_keys = AfterSkipping(r.skipped_message_keys, c, m.counter)
      /\ i \in 1 .. Len(r.receiver_chains)
      /\ c \in Chain
      /\ c.chain_key.index <= m.counter
      /\ m.mac_key.chain = c.chain_key.chain
      /\ m.mac_key.index = m.counter
  BY DecryptOnKnownChain
<1>2. /\ DOMAIN r.receiver_chains = 1 .. Len(r.receiver_chains)
      /\ DOMAIN e.receiver_chains = 1 .. Len(e.receiver_chains)
      /\ m.counter \in Nat
  BY <1>1, RatchetFields, ChainFields
<1>3. i \in DOMAIN r.receiver_chains /\ DOMAIN e.receiver_chains = DOMAIN r.receiver_chains
  BY <1>1, <1>2
<1> HIDE DEF e, i
<1>4. \A j \in DOMAIN e.receiver_chains :
         e.receiver_chains[j].chain_key.chain = r.receiver_chains[j].chain_key.chain
  BY <1>1, <1>2
<1>5. ChainsInOrder(e, p)
  <2>1. /\ IsChainOf(e.root_key, IF e.sender_chain = <<>> THEN Peer(p) ELSE p)
        /\ e.sender_chain # <<>> => e.sender_chain[1].chain_key.chain = e.root_key
    <3>1. e.root_key = r.root_key /\ e.sender_chain = r.sender_chain
      BY <1>1
    <3> QED BY <3>1 DEF ChainsInOrder
  <2>2. ASSUME NEW j \in DOMAIN e.receiver_chains
        PROVE  /\ IsChainOf(e.receiver_chains[j].chain_key.chain, Peer(p))
               /\ Len(e.receiver_chains[j].chain_key.chain) <= Len(e.root_key)
    <3>1. /\ j \in DOMAIN r.receiver_chains
          /\ e.receiver_chains[j].chain_key.chain = r.receiver_chains[j].chain_key.chain
          /\ e.root_key = r.root_key
      BY <1>1, <1>3, <1>4
    <3>2. /\ IsChainOf(r.receiver_chains[j].chain_key.chain, Peer(p))
          /\ Len(r.receiver_chains[j].chain_key.chain) <= Len(r.root_key)
      BY <3>1 DEF ChainsInOrder
    <3> QED BY <3>1, <3>2
  <2>3. ASSUME NEW j \in DOMAIN e.receiver_chains, NEW l \in DOMAIN e.receiver_chains,
               j # l
        PROVE  Len(e.receiver_chains[j].chain_key.chain)
                 # Len(e.receiver_chains[l].chain_key.chain)
    <3>1. /\ j \in DOMAIN r.receiver_chains /\ l \in DOMAIN r.receiver_chains
          /\ e.receiver_chains[j].chain_key.chain = r.receiver_chains[j].chain_key.chain
          /\ e.receiver_chains[l].chain_key.chain = r.receiver_chains[l].chain_key.chain
      BY <1>3, <1>4
    <3>2. Len(r.receiver_chains[j].chain_key.chain)
            # Len(r.receiver_chains[l].chain_key.chain)
      BY <2>3, <3>1 DEF ChainsInOrder
    <3> QED BY <3>1, <3>2
  <2> QED BY <2>1, <2>2, <2>3 DEF ChainsInOrder
<1>6. SentInOrder(e, p, mine)
  BY <1>1, Zenon DEF SentInOrder, BehindSender
<1>7. DecryptsOnChain(r, e, c, m.counter)
  <2>1. \A j \in DOMAIN r.skipped_message_keys :
          r.skipped_message_keys[j].message_key.chain = c.chain_key.chain
            => r.skipped_message_keys[j].message_key.index < c.chain_key.index
    BY <1>3 DEF SkippedInOrder
  <2>2. Len(r.root_key) <= Len(e.root_key) /\ Len(c.chain_key.chain) <= Len(e.root_key)
    <3>1. Len(c.chain_key.chain) <= Len(r.root_key)
      BY <1>3 DEF ChainsInOrder
    <3>2. Len(r.root_key) \in Nat
      BY RatchetFields
    <3> QED BY <1>1, <3>1, <3>2
  <2>3. ASSUME NEW j \in DOMAIN e.receiver_chains
        PROVE  IF e.receiver_chains[j].chain_key.chain = c.chain_key.chain
                 THEN e.receiver_chains[j].chain_key.index = m.counter + 1
                 ELSE \E l \in DOMAIN r.receiver_chains :
                         e.receiver_chains[j] = r.receiver_chains[l]
    <3>1. CASE j = i
      BY <1>1, <3>1
    <3>2. CASE j # i
      <4>1. e.receiver_chains[j] = r.receiver_chains[j] /\ j \in DOMAIN r.receiver_chains
        BY <1>1, <1>2, <1>3, <3>2
      <4>2. r.receiver_chains[j].chain_key.chain # c.chain_key.chain
        BY <1>3, <3>2, <4>1 DEF ChainsInOrder
      <4> QED BY <4>1, <4>2
    <3> QED BY <3>1, <3>2
  <2> QED BY <1>1, <2>1, <2>2, <2>3 DEF DecryptsOnChain
<1>8. IsChainOf(c.chain_key.chain, Peer(p))
  BY <1>3 DEF ChainsInOrder
<1> HIDE DEF c
<1>9. SkippedInOrder(e, p)
  BY <1>1, <1>2, <1>7, <1>8, SkippedStayInOrder
<1>10. BehindReceiver(e, m)
  BY <1>1, <1>2, <1>7, ReceivedStayBehind
<1>11. ASSUME NEW x \in Message, BehindReceiver(r, x)
       PROVE  BehindReceiver(e, x)
  <2>1. x.mac_key.chain = c.chain_key.chain => x.mac_key.index < c.chain_key.index
    BY <1>3, <1>11 DEF BehindReceiver, c
  <2> QED BY <1>1, <1>2, <1>7, <1>11, <2>1, ReceivedStayBehind
<1> QED
  BY <1>5, <1>6, <1>9, <1>10, <1>11 DEF e

LEMMA DecryptNewInOrder ==
    ASSUME NEW p \in Party, NEW r, WellFormed(r), NEW m \in Message, Decrypts(r, m),
           ~HasReceiverChain(r, m.ratchet_key),
           ChainsInOrder(r, p), SkippedInOrder(r, p),
           NEW mine \in Seq(Message), SentInOrder(r, p, mine)
    PROVE  LET e == AfterDecrypt(r, m)
           IN  /\ ChainsInOrder(e, p)
               /\ SkippedInOrder(e, p)
               /\ SentInOrder(e, p, mine)
               /\ BehindReceiver(e, m)
               /\ \A x \in Message : BehindReceiver(r, x) => BehindReceiver(e, x)
<1> DEFINE e == AfterDecrypt(r, m)
           root == Append(r.root_key, {r.sender_chain[1].ratchet_key, m.ratchet_key})
           c == [ratchet_key |-> m.ratchet_key,
                 chain_key   |-> [chain |-> root, index |-> 0]]
<1>1. /\ r.sender_chain # <<>>
      /\ WellFormed(e)
      /\ e.root_key = root
      /\ e.sender_chain = <<>>
      /\ Len(e.receiver_chains) \in 1 .. Len(r.receiver_chains) + 1
      /\ \A j \in 2 .. Len(e.receiver_chains) :
           e.receiver_chains[j] = r.receiver_chains[j - 1]
      /\ e.receiver_chains[1].chain_key.chain = root
      /\ e.receiver_chains[1].chain_key.index = m.counter + 1
      /\ e.skipped_message_keys
           = AfterSkipping(r.skipped_message_keys, c, m.counter)
      /\ root \in RootKey
      /\ c \in Chain
      /\ m.mac_key.chain = root
      /\ m.mac_key.index = m.counter
  BY DecryptOnNewChain
<1>2. /\ DOMAIN r.receiver_chains = 1 .. Len(r.receiver_chains)
      /\ DOMAIN e.receiver_chains = 1 .. Len(e.receiver_chains)
      /\ Len(r.receiver_chains) \in Nat
      /\ m.counter \in Nat
      /\ r.root_key \in RootKey /\ Len(r.root_key) \in Nat
  BY <1>1, RatchetFields, ChainFields
<1>3. Len(root) = Len(r.root_key) + 1 /\ IsChainOf(root, Peer(p))
  <2>1. IsChainOf(r.root_key, p)
    BY <1>1 DEF ChainsInOrder
  <2> QED BY <1>2, <2>1, ChainAlternates
<1>4. c.chain_key.chain = root /\ c.chain_key.index = 0
  OBVIOUS
<1> HIDE DEF e, root, c
<1>5. \A j \in DOMAIN r.receiver_chains :
        /\ IsChainOf(r.receiver_chains[j].chain_key.chain, Peer(p))
        /\ Len(r.receiver_chains[j].chain_key.chain) \in Nat
        /\ Len(r.receiver_chains[j].chain_key.chain) <= Len(r.root_key)
        /\ Len(r.receiver_chains[j].chain_key.chain) < Len(root)
        /\ \A l \in DOMAIN r.receiver_chains :
              j # l => Len(r.receiver_chains[j].chain_key.chain)
                         # Len(r.receiver_chains[l].chain_key.chain)
  <2>1. \A j \in DOMAIN r.receiver_chains :
          Len(r.receiver_chains[j].chain_key.chain) \in Nat
    BY RatchetFields, ChainFields
  <2>2. \A j \in DOMAIN r.receiver_chains :
          /\ IsChainOf(r.receiver_chains[j].chain_key.chain, Peer(p))
          /\ Len(r.receiver_chains[j].chain_key.chain) <= Len(r.root_key)
    BY DEF ChainsInOrder
  <2>3. \A j \in DOMAIN r.receiver_chains :
          \A l \in DOMAIN r.receiver_chains :
              j # l => Len(r.receiver_chains[j].chain_key.chain)
                         # Len(r.receiver_chains[l].chain_key.chain)
    BY Zenon DEF ChainsInOrder
  <2>4. \A n \in Nat : n <= Len(r.root_key) => n < Len(root)
    BY <1>2, <1>3
  <2> QED BY <2>1, <2>2, <2>3, <2>4
<1>6. \A j \in DOMAIN e.receiver_chains :
        \/ j = 1
        \/ /\ j - 1 \in DOMAIN r.receiver_chains
           /\ e.receiver_chains[j] = r.receiver_chains[j - 1]
  BY <1>1, <1>2
<1>7. ChainsInOrder(e, p)
  <2>1. ASSUME NEW j \in DOMAIN e.receiver_chains
        PROVE  /\ IsChainOf(e.receiver_chains[j].chain_key.chain, Peer(p))
               /\ Len(e.receiver_chains[j].chain_key.chain) <= Len(root)
    <3>1. CASE j = 1
      BY <1>1, <1>2, <1>3, <3>1
    <3>2. CASE j # 1
      <4>1. /\ j - 1 \in DOMAIN r.receiver_chains
            /\ e.receiver_chains[j] = r.receiver_chains[j - 1]
        BY <1>6, <3>2
      <4>2. /\ IsChainOf(r.receiver_chains[j - 1].chain_key.chain, Peer(p))
            /\ Len(r.receiver_chains[j - 1].chain_key.chain) \in Nat
            /\ Len(r.receiver_chains[j - 1].chain_key.chain) < Len(root)
        BY <1>5, <4>1
      <4>3. Len(root) \in Nat
        BY <1>2, <1>3
      <4> QED BY <4>1, <4>2, <4>3
    <3> QED BY <3>1, <3>2
  <2>2. ASSUME NEW j \in DOMAIN e.receiver_chains, NEW l \in DOMAIN e.receiver_chains,
               j # l
        PROVE  Len(e.receiver_chains[j].chain_key.chain)
                 # Len(e.receiver_chains[l].chain_key.chain)
    <3>1. CASE j = 1
      <4>1. l # 1
        BY <2>2, <3>1
      <4>2. Len(e.receiver_chains[l].chain_key.chain) < Len(root)
        BY <1>5, <1>6, <4>1, Zenon
      <4> QED BY <1>1, <1>2, <1>3, <3>1, <4>2
    <3>2. CASE l = 1
      <4>1. j # 1
        BY <2>2, <3>2
      <4>2. Len(e.receiver_chains[j].chain_key.chain) < Len(root)
        BY <1>5, <1>6, <4>1, Zenon
      <4> QED BY <1>1, <1>2, <1>3, <3>2, <4>2
    <3>3. CASE j # 1 /\ l # 1
      <4>1. j - 1 # l - 1
        BY <1>2, <2>2
      <4> QED BY <1>5, <1>6, <3>3, <4>1
    <3> QED BY <3>1, <3>2, <3>3
  <2> QED BY <1>1, <1>3, <2>1, <2>2 DEF ChainsInOrder
<1>8. SentInOrder(e, p, mine)
  <2>1. ASSUME NEW j \in DOMAIN mine
        PROVE  BehindSender(e, mine[j])
    <3>1. BehindSender(r, mine[j]) /\ Len(mine[j].mac_key.chain) \in Nat
      BY ChainFields DEF SentInOrder
    <3>2. Len(mine[j].mac_key.chain) <= Len(r.root_key)
      BY <1>2, <3>1 DEF BehindSender
    <3> QED BY <1>1, <1>2, <1>3, <3>1, <3>2 DEF BehindSender
  <2> QED BY <2>1, Zenon DEF SentInOrder
<1>9. DecryptsOnChain(r, e, c, m.counter)
  <2>1. ASSUME NEW j \in DOMAIN r.skipped_message_keys
        PROVE  r.skipped_message_keys[j].message_key.chain # root
    <3>1. /\ Len(r.skipped_message_keys[j].message_key.chain) \in Nat
          /\ Len(r.skipped_message_keys[j].message_key.chain) <= Len(r.root_key)
      BY RatchetFields, ChainFields DEF SkippedInOrder
    <3> QED BY <1>2, <1>3, <3>1
  <2>2. /\ Len(r.root_key) <= Len(e.root_key)
        /\ Len(c.chain_key.chain) <= Len(e.root_key)
        /\ c.chain_key.index <= m.counter
    BY <1>1, <1>2, <1>3, <1>4
  <2>3. ASSUME NEW j \in DOMAIN e.receiver_chains
        PROVE  IF e.receiver_chains[j].chain_key.chain = root
                 THEN e.receiver_chains[j].chain_key.index = m.counter + 1
                 ELSE \E l \in DOMAIN r.receiver_chains :
                         e.receiver_chains[j] = r.receiver_chains[l]
    <3>1. CASE j = 1
      BY <1>1, <3>1
    <3>2. CASE j # 1
      <4>1. /\ j - 1 \in DOMAIN r.receiver_chains
            /\ e.receiver_chains[j] = r.receiver_chains[j - 1]
        BY <1>6, <3>2
      <4>2. e.receiver_chains[j].chain_key.chain # root
        BY <1>2, <1>3, <1>5, <4>1
      <4> QED BY <4>1, <4>2
    <3> QED BY <3>1, <3>2
  <2> QED BY <1>1, <1>4, <2>1, <2>2, <2>3 DEF DecryptsOnChain
<1>10. SkippedInOrder(e, p)
  BY <1>1, <1>2, <1>3, <1>4, <1>9, SkippedStayInOrder
<1>11. BehindReceiver(e, m)
  BY <1>1, <1>2, <1>4, <1>9, ReceivedStayBehind
<1>12. ASSUME NEW x \in Message, BehindReceiver(r, x)
       PROVE  BehindReceiver(e, x)
  <2>1. x.mac_key.chain # root
    <3>1. Len(x.mac_key.chain) \in Nat /\ Len(x.mac_key.chain) <= Len(r.root_key)
      BY <1>12, ChainFields DEF BehindReceiver
    <3> QED BY <1>2, <1>3, <3>1
  <2> QED BY <1>1, <1>2, <1>4, <1>9, <1>12, <2>1, ReceivedStayBehind
<1> QED
  BY <1>7, <1>8, <1>10, <1>11, <1>12 DEF e

(* Whichever way a message is decrypted, everything stays in order.        *)
LEMMA DecryptInOrder ==
    ASSUME NEW p \in Party, NEW r, WellFormed(r), NEW m \in Message, Decrypts(r, m),
           ChainsInOrder(r, p), SkippedInOrder(r, p),
           NEW mine \in Seq(Message), SentInOrder(r, p, mine),
           NEW messages \in Seq(Message), NEW peers,
           ReceivedInOrder(r, messages, peers),
           \E j \in DOMAIN peers : m = peers[j]
    PROVE  LET e == AfterDecrypt(r, m)
           IN  /\ ChainsInOrder(e, p)
               /\ SkippedInOrder(e, p)
               /\ SentInOrder(e, p, mine)
               /\ ReceivedInOrder(e, Append(messages, m), peers)
<1> DEFINE e == AfterDecrypt(r, m)
<1>1. /\ ChainsInOrder(e, p)
      /\ SkippedInOrder(e, p)
      /\ SentInOrder(e, p, mine)
      /\ BehindReceiver(e, m)
      /\ \A x \in Message : BehindReceiver(r, x) => BehindReceiver(e, x)
  <2>1. CASE AlreadyAdvanced(r, m)
    BY <2>1, DecryptSkippedInOrder
  <2>2. CASE HasReceiverChain(r, m.ratchet_key) /\ ~AlreadyAdvanced(r, m)
    BY <2>2, DecryptKnownInOrder
  <2>3. CASE ~HasReceiverChain(r, m.ratchet_key)
    BY <2>3, DecryptNewInOrder
  <2> QED BY <2>1, <2>2, <2>3
<1> HIDE DEF e
<1>2. \A i \in DOMAIN messages : messages[i] \in Message /\ BehindReceiver(r, messages[i])
  BY DEF ReceivedInOrder
<1>3. \A i \in DOMAIN messages : BehindReceiver(e, messages[i])
  BY <1>1, <1>2
<1>4. ReceivedInOrder(e, Append(messages, m), peers)
  BY <1>1, <1>3, ReceivedOneMore
<1> QED
  BY <1>1, <1>4 DEF e

-----------------------------------------------------------------------------
(* How far apart the two root keys can be.                                 *)

(* Encryption: the party that follows takes the lead, the other stays      *)
(* where it is.                                                            *)
LEMMA EncryptSynchronised ==
    ASSUME NEW r, NEW s, WellFormed(r), WellFormed(s), NEW k \in RatchetKey,
           ~HasReceiverChain(s, k)
    PROVE  LET e == AfterEncrypt(r, k)
           IN  /\ Level(r, s) => Leads(e, s)
               /\ Leads(r, s) => Leads(e, s)
               /\ Level(s, r) => Level(s, e)
               /\ Leads(s, r) => Leads(s, e)
<1> DEFINE e == AfterEncrypt(r, k)
<1>1. ASSUME r.sender_chain # <<>>
      PROVE  /\ e.root_key = r.root_key
             /\ e.receiver_chains = r.receiver_chains
             /\ e.sender_chain # <<>>
             /\ e.sender_chain[1].ratchet_key = r.sender_chain[1].ratchet_key
             /\ e.sender_chain[1].chain_key.index = r.sender_chain[1].chain_key.index + 1
             /\ r.sender_chain[1].chain_key.index \in Nat
  <2>1. r.sender_chain[1].chain_key.index \in Nat
    BY <1>1, RatchetFields, ChainFields
  <2> QED BY <1>1, <2>1, EncryptOnChain
<1>2. ASSUME r.sender_chain = <<>>
      PROVE  /\ e.root_key = Append(r.root_key, {k, r.receiver_chains[1].ratchet_key})
             /\ e.receiver_chains = r.receiver_chains
             /\ e.sender_chain # <<>>
             /\ e.sender_chain[1].ratchet_key = k
  BY <1>2, EncryptNewChain
<1> HIDE DEF e
<1>3. Level(r, s) => Leads(e, s)
  BY <1>2, Zenon DEF Level, Leads, Follows
<1>4. Leads(r, s) => Leads(e, s)
  BY <1>1, Zenon DEF Leads, Follows
<1>5. ASSUME Follows(s, r)
      PROVE  Follows(s, e) /\ r.sender_chain # <<>>
  <2>1. r.sender_chain # <<>> /\ s.receiver_chains # <<>>
    BY <1>5 DEF Follows
  <2>2. s.receiver_chains[1].chain_key.index \in Nat
    <3>1. s.receiver_chains[1] \in Chain
      BY <2>1 DEF WellFormed, RatchetState
    <3> QED BY <3>1, ChainFields
  <2> QED BY <1>1, <1>5, <2>1, <2>2 DEF Follows
<1>6. Level(s, r) => Level(s, e)
  BY <1>1, <1>5, Zenon DEF Level
<1>7. Leads(s, r) => Leads(s, e)
  <2>1. ASSUME e.receiver_chains = r.receiver_chains, ~HasReceiverChain(r, s.sender_chain[1].ratchet_key)
        PROVE  ~HasReceiverChain(e, s.sender_chain[1].ratchet_key)
    BY <2>1 DEF HasReceiverChain
  <2> QED BY <1>1, <1>5, <2>1, Zenon DEF Leads
<1> QED
  BY <1>3, <1>4, <1>6, <1>7 DEF e

(* Decryption: a message on a new chain can only be the reply that leads,  *)
(* and its recipient then follows.                                         *)
LEMMA DecryptSynchronised ==
    ASSUME NEW r, NEW s, WellFormed(r), WellFormed(s), NEW m \in Message,
           Decrypts(r, m), BehindSender(s, m)
    PROVE  LET e == AfterDecrypt(r, m)
           IN  /\ Level(r, s) => Level(e, s)
               /\ Leads(r, s) => Leads(e, s)
               /\ Level(s, r) => Level(s, e)
               /\ Leads(s, r) => Level(e, s) \/ Leads(s, e)
<1> DEFINE e == AfterDecrypt(r, m)
<1>1. CASE AlreadyAdvanced(r, m)
  <2>1. /\ e.root_key = r.root_key
        /\ e.sender_chain = r.sender_chain
        /\ e.receiver_chains = r.receiver_chains
    BY <1>1, DecryptSkipped
  <2> QED BY <2>1, Zenon DEF Level, Leads, Follows, HasReceiverChain
<1>2. CASE HasReceiverChain(r, m.ratchet_key) /\ ~AlreadyAdvanced(r, m)
  <2> DEFINE i == ReceiverChain(r, m.ratchet_key)
             c == r.receiver_chains[i]
  <2>1. /\ WellFormed(e)
        /\ e.root_key = r.root_key
        /\ e.sender_chain = r.sender_chain
        /\ Len(e.receiver_chains) = Len(r.receiver_chains)
        /\ \A j \in 1 .. Len(r.receiver_chains) :
             j # i => e.receiver_chains[j] = r.receiver_chains[j]
        /\ e.receiver_chains[i].ratchet_key = m.ratchet_key
        /\ e.receiver_chains[i].chain_key.chain = c.chain_key.chain
        /\ e.receiver_chains[i].chain_key.index = m.counter + 1
        /\ i \in 1 .. Len(r.receiver_chains)
        /\ c.ratchet_key = m.ratchet_key
        /\ m.mac_key.chain = c.chain_key.chain
        /\ m.mac_key.index = m.counter
    BY ONLY <1>2, WellFormed(r), m \in Message, Decrypts(r, m), DecryptOnKnownChain
  <2>2. /\ DOMAIN r.receiver_chains = 1 .. Len(r.receiver_chains)
        /\ DOMAIN e.receiver_chains = DOMAIN r.receiver_chains
        /\ Len(r.receiver_chains) \in Nat
        /\ m.counter \in Nat
        /\ Len(s.root_key) \in Nat
        /\ s.sender_chain # <<>> => s.sender_chain[1].chain_key.index \in Nat
    BY <2>1, RatchetFields, ChainFields
  <2>3. e.receiver_chains # <<>> /\ 1 \in DOMAIN r.receiver_chains
    <3>1. e.receiver_chains \in Seq(Chain)
      BY <2>1 DEF WellFormed, RatchetState
    <3>2. Len(e.receiver_chains) # 0 /\ 1 \in DOMAIN r.receiver_chains
      BY <2>1, <2>2
    <3> QED BY <3>1, <3>2, EmptySeq, Zenon
  <2> HIDE DEF e, i
  <2>4. \A j \in DOMAIN r.receiver_chains :
          /\ e.receiver_chains[j].ratchet_key = r.receiver_chains[j].ratchet_key
          /\ e.receiver_chains[j].chain_key.chain = r.receiver_chains[j].chain_key.chain
    BY <2>1, <2>2
  <2>5. \A k : HasReceiverChain(e, k) <=> HasReceiverChain(r, k)
    BY <2>2, <2>4 DEF HasReceiverChain
  <2>6. ASSUME Follows(r, s) PROVE Follows(e, s)
    <3>1. ASSUME i = 1
          PROVE  e.receiver_chains[1].chain_key.index <= s.sender_chain[1].chain_key.index
      <4>1. m.mac_key.chain = s.root_key
        BY <2>1, <2>6, <3>1 DEF Follows
      <4>2. m.mac_key.index < s.sender_chain[1].chain_key.index /\ s.sender_chain # <<>>
        BY <2>2, <4>1 DEF BehindSender
      <4> QED BY <2>1, <2>2, <3>1, <4>2
    <3>2. ASSUME i # 1
          PROVE  e.receiver_chains[1].chain_key.index <= s.sender_chain[1].chain_key.index
      BY <2>1, <2>2, <2>3, <2>6, <3>2 DEF Follows
    <3>3. e.receiver_chains[1].chain_key.index <= s.sender_chain[1].chain_key.index
      BY <3>1, <3>2
    <3> QED BY <2>3, <2>4, <2>6, <3>3, Zenon DEF Follows
  <2>7. Follows(s, r) => Follows(s, e)
    BY <2>1, Zenon DEF Follows
  <2> QED BY <2>1, <2>5, <2>6, <2>7, Zenon DEF Level, Leads, e
<1>3. CASE ~HasReceiverChain(r, m.ratchet_key)
  <2> DEFINE root == Append(r.root_key, {r.sender_chain[1].ratchet_key, m.ratchet_key})
  <2>1. /\ r.sender_chain # <<>>
        /\ e.root_key = root
        /\ e.sender_chain = <<>>
        /\ e.receiver_chains # <<>>
        /\ e.receiver_chains[1].ratchet_key = m.ratchet_key
        /\ e.receiver_chains[1].chain_key.chain = root
        /\ e.receiver_chains[1].chain_key.index = m.counter + 1
        /\ m.mac_key.chain = root
        /\ m.mac_key.index = m.counter
    BY <1>3, DecryptOnNewChain
  <2>2. /\ Len(r.root_key) \in Nat /\ Len(s.root_key) \in Nat
        /\ r.root_key \in RootKey /\ s.root_key \in RootKey
        /\ m.counter \in Nat
        /\ s.sender_chain # <<>> => s.sender_chain[1].chain_key.index \in Nat
    BY RatchetFields, ChainFields
  <2>3. Len(root) = Len(r.root_key) + 1
    BY <2>2 DEF RootKey
  <2> HIDE DEF e, root
  <2>4. Len(root) <= Len(s.root_key)
    BY <2>1, <2>2, <2>3 DEF BehindSender
  <2>5. ~Level(r, s) /\ ~Level(s, r)
    <3>1. ~Level(r, s)
      BY <2>1 DEF Level
    <3>2. r.root_key # s.root_key
      BY <2>2, <2>3, <2>4
    <3> QED BY <3>1, <3>2 DEF Level
  <2>6. ~Leads(r, s)
    <3>1. ASSUME Leads(r, s) PROVE Len(r.root_key) = Len(s.root_key) + 1
      BY <2>2, <3>1 DEF Leads, RootKey
    <3> QED BY <2>2, <2>3, <2>4, <3>1
  <2>7. ASSUME Leads(s, r) PROVE Level(e, s)
    <3>1. Len(s.root_key) = Len(r.root_key) + 1
      BY <2>2, <2>7 DEF Leads, RootKey
    <3>2. /\ s.sender_chain # <<>>
          /\ root = s.root_key
          /\ m.ratchet_key = s.sender_chain[1].ratchet_key
          /\ m.mac_key.index < s.sender_chain[1].chain_key.index
      BY <2>1, <2>2, <2>3, <3>1 DEF BehindSender
    <3>3. m.counter + 1 <= s.sender_chain[1].chain_key.index
      BY <2>1, <2>2, <3>2
    <3> QED BY <2>1, <3>2, <3>3, Zenon DEF Level, Follows
  <2> QED BY <2>5, <2>6, <2>7 DEF e
<1> QED
  BY <1>1, <1>2, <1>3

-----------------------------------------------------------------------------
(* The steps of the system.                                                *)

LEMMA OwnedStays ==
    ASSUME NEW p, NEW k \in RatchetKey, NEW n \in Nat, NEW later \in Nat, n <= later,
           OwnedBy(k, p, n)
    PROVE  OwnedBy(k, p, later)
  BY DEF OwnedBy, RatchetKey

LEMMA EncryptIInv ==
    ASSUME IInv, NEW p \in Party, Encrypt(p), TypeOK'
    PROVE  IInv'
<1> DEFINE q == Peer(p)
           k == FreshKey(p)
           r == ratchet[p]
           e == AfterEncrypt(r, k)
           m == NextMessage(p)
<1>1. /\ q \in Party /\ q # p /\ Peer(q) = p
      /\ \A x \in Party : x = p \/ x = q
  BY PeerIsParty
<1>2. /\ k \in RatchetKey /\ k[1] = p /\ k[2] = generated[p]
      /\ Len(sent[p]) + 1 \in Nat /\ generated[p] \in Nat /\ generated[q] \in Nat
  BY <1>1 DEF IInv, TypeOK, FreshKey, RatchetKey
<1>3. /\ WellFormed(r) /\ WellFormed(ratchet[q])
      /\ InOrder(p) /\ InOrder(q)
      /\ sent[p] \in Seq(Message) /\ sent[q] \in Seq(Message)
      /\ received[p] \in Seq(Message) /\ received[q] \in Seq(Message)
  BY <1>1 DEF IInv, TypeOK
<1>4. /\ ratchet'[p] = e /\ ratchet'[q] = ratchet[q]
      /\ sent'[p] = Append(sent[p], m) /\ sent'[q] = sent[q]
      /\ received' = received
      /\ generated'[p] = IF r.sender_chain = <<>> THEN generated[p] + 1 ELSE generated[p]
      /\ generated'[q] = generated[q]
  BY <1>1 DEF Encrypt, IInv, TypeOK
<1>5. /\ WellFormed(e)
      /\ m \in Message
      /\ e.sender_chain # <<>>
      /\ e.receiver_chains = r.receiver_chains
      /\ e.skipped_message_keys = r.skipped_message_keys
      /\ m.ratchet_key = e.sender_chain[1].ratchet_key
      /\ e.sender_chain[1].ratchet_key
           = IF r.sender_chain = <<>> THEN k ELSE r.sender_chain[1].ratchet_key
  <2>1. CASE r.sender_chain = <<>>
    BY <1>2, <1>3, <2>1, EncryptNewChain DEF NextMessage
  <2>2. CASE r.sender_chain # <<>>
    BY <1>2, <1>3, <2>2, EncryptOnChain DEF NextMessage
  <2> QED BY <2>1, <2>2
<1>6. /\ ChainsInOrder(e, p)
      /\ SentInOrder(e, p, Append(sent[p], m))
      /\ Len(r.root_key) <= Len(e.root_key)
  BY <1>2, <1>3, EncryptInOrder DEF InOrder, NextMessage
<1>7. /\ SkippedInOrder(e, p)
      /\ ReceivedInOrder(e, received[p], sent[q])
  BY <1>3, <1>5, <1>6, ReceivingSideKept DEF InOrder
<1>8. ReceivedInOrder(ratchet[q], received[q], Append(sent[p], m))
  BY <1>1, <1>3, ReceivedFromMore DEF InOrder
<1>9. ~HasReceiverChain(ratchet[q], k)
  <2>1. \A i \in DOMAIN ratchet[q].receiver_chains :
           OwnedBy(ratchet[q].receiver_chains[i].ratchet_key, p, generated[p])
    BY <1>1, <1>3 DEF InOrder, KeysOwned
  <2>2. ~OwnedBy(k, p, generated[p])
    BY <1>2 DEF OwnedBy
  <2> QED BY <2>1, <2>2 DEF HasReceiverChain
<1>10. /\ Level(r, ratchet[q]) => Leads(e, ratchet[q])
       /\ Leads(r, ratchet[q]) => Leads(e, ratchet[q])
       /\ Level(ratchet[q], r) => Level(ratchet[q], e)
       /\ Leads(ratchet[q], r) => Leads(ratchet[q], e)
  BY <1>2, <1>3, <1>9, EncryptSynchronised
<1> DEFINE later == generated'[p]
<1>11. later \in Nat /\ generated[p] <= later
  BY <1>2, <1>4
<1>12. OwnedBy(e.sender_chain[1].ratchet_key, p, later)
  <2>1. CASE r.sender_chain = <<>>
    BY <1>2, <1>4, <1>5, <2>1 DEF OwnedBy
  <2>2. CASE r.sender_chain # <<>>
    <3>1. OwnedBy(r.sender_chain[1].ratchet_key, p, generated[p])
      BY <1>3, <2>2 DEF InOrder, KeysOwned
    <3> QED BY <1>4, <1>5, <2>2, <3>1
  <2> QED BY <2>1, <2>2
<1> HIDE DEF e, m, k, later
<1>13. KeysOwned(p)'
  <2>1. \A i \in DOMAIN r.receiver_chains :
           OwnedBy(r.receiver_chains[i].ratchet_key, q, generated[q])
    BY <1>3 DEF InOrder, KeysOwned
  <2>2. \A i \in DOMAIN sent'[p] : OwnedBy(sent'[p][i].ratchet_key, p, later)
    <3>1. \A i \in DOMAIN sent[p] : OwnedBy(sent[p][i].ratchet_key, p, later)
      <4>1. \A i \in DOMAIN sent[p] : /\ OwnedBy(sent[p][i].ratchet_key, p, generated[p])
                                      /\ sent[p][i].ratchet_key \in RatchetKey
        <5>1. \A i \in DOMAIN sent[p] : OwnedBy(sent[p][i].ratchet_key, p, generated[p])
          BY <1>3 DEF InOrder, KeysOwned
        <5>2. \A i \in DOMAIN sent[p] : sent[p][i] \in Message
          BY <1>3
        <5> QED BY <5>1, <5>2 DEF Message
      <4> QED BY <1>2, <1>11, <4>1, OwnedStays
    <3>2. \A i \in DOMAIN sent'[p] : \/ i \in DOMAIN sent[p] /\ sent'[p][i] = sent[p][i]
                                     \/ sent'[p][i] = m
      BY <1>3, <1>4
    <3> QED BY <1>5, <1>12, <3>1, <3>2
  <2> QED BY <1>4, <1>5, <1>12, <2>1, <2>2 DEF KeysOwned, later
<1>14. KeysOwned(q)'
  <2>1. \A i \in DOMAIN ratchet[q].receiver_chains :
           OwnedBy(ratchet[q].receiver_chains[i].ratchet_key, p, later)
    <3>1. \A i \in DOMAIN ratchet[q].receiver_chains :
            /\ OwnedBy(ratchet[q].receiver_chains[i].ratchet_key, p, generated[p])
            /\ ratchet[q].receiver_chains[i].ratchet_key \in RatchetKey
      BY <1>1, <1>3, RatchetFields DEF InOrder, KeysOwned, Chain
    <3> QED BY <1>2, <1>11, <3>1, OwnedStays
  <2> QED BY <1>1, <1>3, <1>4, <2>1 DEF InOrder, KeysOwned, later
<1>15. InOrder(p)'
  BY <1>4, <1>6, <1>7, <1>13 DEF InOrder
<1>16. InOrder(q)'
  BY <1>1, <1>3, <1>4, <1>8, <1>14 DEF InOrder
<1>17. Synchronised'
  <2>1. PICK x \in Party : \/ Level(ratchet[x], ratchet[Peer(x)])
                           \/ Leads(ratchet[x], ratchet[Peer(x)])
    BY DEF IInv, Synchronised
  <2>2. CASE x = p
    BY <1>4, <1>10, <2>1, <2>2 DEF Synchronised
  <2>3. CASE x = q
    BY <1>1, <1>4, <1>10, <2>1, <2>3 DEF Synchronised
  <2> QED BY <1>1, <2>2, <2>3
<1> QED
  BY <1>1, <1>15, <1>16, <1>17 DEF IInv

LEMMA DecryptIInv ==
    ASSUME IInv, NEW p \in Party, NEW l \in DOMAIN sent[Peer(p)],
           Decrypt(p, sent[Peer(p)][l]), TypeOK'
    PROVE  IInv'
<1> DEFINE q == Peer(p)
           r == ratchet[p]
           m == sent[q][l]
           e == AfterDecrypt(r, m)
<1>1. /\ q \in Party /\ q # p /\ Peer(q) = p
      /\ \A x \in Party : x = p \/ x = q
  BY PeerIsParty
<1>2. /\ WellFormed(r) /\ WellFormed(ratchet[q])
      /\ InOrder(p) /\ InOrder(q)
      /\ sent[p] \in Seq(Message) /\ sent[q] \in Seq(Message)
      /\ received[p] \in Seq(Message) /\ received[q] \in Seq(Message)
      /\ m \in Message
  BY <1>1 DEF IInv, TypeOK
<1>3. /\ Decrypts(r, m)
      /\ ratchet'[p] = e /\ ratchet'[q] = ratchet[q]
      /\ received'[p] = Append(received[p], m) /\ received'[q] = received[q]
      /\ sent' = sent /\ generated' = generated
  BY <1>1 DEF Decrypt, IInv, TypeOK
<1>4. l \in DOMAIN sent[q] /\ m = sent[q][l]
  OBVIOUS
<1>5. BehindSender(ratchet[q], m) /\ OwnedBy(m.ratchet_key, q, generated[q])
  BY <1>2, <1>4 DEF InOrder, SentInOrder, KeysOwned
<1> HIDE DEF m, q
<1>6. /\ ChainsInOrder(e, p)
      /\ SkippedInOrder(e, p)
      /\ SentInOrder(e, p, sent[p])
      /\ ReceivedInOrder(e, Append(received[p], m), sent[q])
  <2>1. /\ ChainsInOrder(r, p) /\ SkippedInOrder(r, p)
        /\ SentInOrder(r, p, sent[p]) /\ ReceivedInOrder(r, received[p], sent[q])
        /\ \E j \in DOMAIN sent[q] : m = sent[q][j]
    BY <1>2, <1>4 DEF InOrder, q
  <2> QED BY <1>2, <1>3, <2>1, DecryptInOrder
<1>7. /\ Level(r, ratchet[q]) => Level(e, ratchet[q])
      /\ Leads(r, ratchet[q]) => Leads(e, ratchet[q])
      /\ Level(ratchet[q], r) => Level(ratchet[q], e)
      /\ Leads(ratchet[q], r) => Level(e, ratchet[q]) \/ Leads(ratchet[q], e)
  BY <1>2, <1>3, <1>5, DecryptSynchronised
<1>8. /\ e.sender_chain # <<>> => e.sender_chain = r.sender_chain
      /\ \A i \in DOMAIN e.receiver_chains :
            OwnedBy(e.receiver_chains[i].ratchet_key, q, generated[q])
  <2>1. \A i \in DOMAIN r.receiver_chains :
          OwnedBy(r.receiver_chains[i].ratchet_key, q, generated[q])
    BY <1>2 DEF InOrder, KeysOwned, q
  <2>2. CASE AlreadyAdvanced(r, m)
    <3>1. e.sender_chain = r.sender_chain /\ e.receiver_chains = r.receiver_chains
      BY <1>2, <1>3, <2>2, DecryptSkipped
    <3> QED BY <2>1, <3>1, Zenon
  <2>3. CASE HasReceiverChain(r, m.ratchet_key) /\ ~AlreadyAdvanced(r, m)
    <3> DEFINE i == ReceiverChain(r, m.ratchet_key)
    <3>1. /\ WellFormed(e)
          /\ e.sender_chain = r.sender_chain
          /\ Len(e.receiver_chains) = Len(r.receiver_chains)
          /\ \A j \in 1 .. Len(r.receiver_chains) :
               j # i => e.receiver_chains[j] = r.receiver_chains[j]
          /\ e.receiver_chains[i].ratchet_key = m.ratchet_key
      BY <1>2, <1>3, <2>3, DecryptOnKnownChain
    <3>2. /\ DOMAIN r.receiver_chains = 1 .. Len(r.receiver_chains)
          /\ DOMAIN e.receiver_chains = 1 .. Len(e.receiver_chains)
      BY <1>2, <3>1, RatchetFields
    <3> HIDE DEF e, i
    <3> QED BY <1>5, <2>1, <3>1, <3>2
  <2>4. CASE ~HasReceiverChain(r, m.ratchet_key)
    <3>1. /\ WellFormed(e)
          /\ e.sender_chain = <<>>
          /\ Len(e.receiver_chains) \in 1 .. Len(r.receiver_chains) + 1
          /\ \A j \in 2 .. Len(e.receiver_chains) :
               e.receiver_chains[j] = r.receiver_chains[j - 1]
          /\ e.receiver_chains[1].ratchet_key = m.ratchet_key
      BY <1>2, <1>3, <2>4, DecryptOnNewChain
    <3>2. /\ DOMAIN r.receiver_chains = 1 .. Len(r.receiver_chains)
          /\ DOMAIN e.receiver_chains = 1 .. Len(e.receiver_chains)
          /\ Len(r.receiver_chains) \in Nat
      BY <1>2, <3>1, RatchetFields
    <3> HIDE DEF e
    <3>3. \A i \in DOMAIN e.receiver_chains :
            i = 1 \/ /\ i - 1 \in DOMAIN r.receiver_chains
                     /\ e.receiver_chains[i] = r.receiver_chains[i - 1]
      BY ONLY <3>1, <3>2
    <3>4. OwnedBy(m.ratchet_key, q, generated[q])
      BY <1>5
    <3>5. \A i \in DOMAIN e.receiver_chains :
            OwnedBy(e.receiver_chains[i].ratchet_key, q, generated[q])
      BY ONLY <2>1, <3>1, <3>3, <3>4, Zenon
    <3> QED BY ONLY <3>1, <3>5, Zenon
  <2> QED BY <2>2, <2>3, <2>4
<1> HIDE DEF e
<1>9. KeysOwned(p)'
  <2>1. e.sender_chain # <<>> =>
          OwnedBy(e.sender_chain[1].ratchet_key, p, generated[p])
    BY <1>2, <1>8 DEF InOrder, KeysOwned
  <2> QED BY <1>2, <1>3, <1>8, <2>1 DEF InOrder, KeysOwned, q
<1>10. KeysOwned(q)'
  BY <1>2, <1>3 DEF InOrder, KeysOwned
<1>11. InOrder(p)'
  BY <1>3, <1>6, <1>9 DEF InOrder, q
<1>12. InOrder(q)'
  BY <1>1, <1>2, <1>3, <1>10 DEF InOrder
<1>13. Synchronised'
  <2>1. PICK x \in Party : \/ Level(ratchet[x], ratchet[Peer(x)])
                           \/ Leads(ratchet[x], ratchet[Peer(x)])
    BY DEF IInv, Synchronised
  <2>2. CASE x = p
    BY <1>3, <1>7, <2>1, <2>2 DEF Synchronised, q
  <2>3. CASE x = q
    <3>1. \/ Level(ratchet'[q], ratchet'[Peer(q)])
          \/ Leads(ratchet'[q], ratchet'[Peer(q)])
          \/ Level(ratchet'[p], ratchet'[Peer(p)])
      BY <1>1, <1>3, <1>7, <2>1, <2>3 DEF q
    <3> QED BY <1>1, <3>1 DEF Synchronised
  <2> QED BY <1>1, <2>2, <2>3
<1> QED
  BY <1>1, <1>11, <1>12, <1>13 DEF IInv

LEMMA InitIInv == Init => IInv
<1> SUFFICES ASSUME Init PROVE IInv
  OBVIOUS
<1> DEFINE a == InitialiseAsAlice(InitialSecret, <<Alice, 0>>)
           b == InitialiseAsBob(InitialSecret, <<Alice, 0>>)
<1>1. /\ TypeOK
      /\ ratchet[Alice] = a /\ ratchet[Bob] = b
      /\ generated[Alice] = 1 /\ generated[Bob] = 0
      /\ sent[Alice] = <<>> /\ sent[Bob] = <<>>
      /\ received[Alice] = <<>> /\ received[Bob] = <<>>
      /\ Peer(Alice) = Bob /\ Peer(Bob) = Alice
  BY InitTypeOK, PartiesAssumption DEF Init, Party, Peer
<1>2. /\ a.root_key = <<InitialSecret>> /\ b.root_key = <<InitialSecret>>
      /\ a.sender_chain # <<>> /\ a.receiver_chains = <<>>
      /\ a.sender_chain[1].ratchet_key = <<Alice, 0>>
      /\ a.sender_chain[1].chain_key.chain = <<InitialSecret>>
      /\ a.sender_chain[1].chain_key.index = 0
      /\ b.sender_chain = <<>> /\ b.receiver_chains # <<>>
      /\ DOMAIN b.receiver_chains = {1}
      /\ b.receiver_chains[1].ratchet_key = <<Alice, 0>>
      /\ b.receiver_chains[1].chain_key.chain = <<InitialSecret>>
      /\ b.receiver_chains[1].chain_key.index = 0
      /\ DOMAIN a.skipped_message_keys = {} /\ DOMAIN b.skipped_message_keys = {}
      /\ DOMAIN a.receiver_chains = {}
  BY DEF InitialiseAsAlice, InitialiseAsBob, NewChainKey
<1>3. Len(<<InitialSecret>>) = 1 /\ IsChainOf(<<InitialSecret>>, Alice)
  BY DEF IsChainOf
<1>4. \A p \in Party : DOMAIN sent[p] = {} /\ DOMAIN received[p] = {}
  BY <1>1 DEF Party
<1> HIDE DEF a, b
<1>5. \A p \in Party : KeysOwned(p)
  <2>1. OwnedBy(<<Alice, 0>>, Alice, 1)
    BY DEF OwnedBy
  <2> QED BY <1>1, <1>2, <1>4, <2>1 DEF KeysOwned, Party
<1>6. ChainsInOrder(a, Alice) /\ ChainsInOrder(b, Bob)
  <2>1. ChainsInOrder(a, Alice)
    <3>1. IsChainOf(a.root_key, IF a.sender_chain = <<>> THEN Peer(Alice) ELSE Alice)
      BY <1>2, <1>3
    <3> QED BY <1>2, <3>1 DEF ChainsInOrder
  <2>2. ChainsInOrder(b, Bob)
    <3>1. IsChainOf(b.root_key, IF b.sender_chain = <<>> THEN Peer(Bob) ELSE Bob)
      BY <1>1, <1>2, <1>3
    <3>2. /\ IsChainOf(b.receiver_chains[1].chain_key.chain, Peer(Bob))
          /\ Len(b.receiver_chains[1].chain_key.chain) <= Len(b.root_key)
      BY <1>1, <1>2, <1>3
    <3> QED BY <1>2, <3>1, <3>2 DEF ChainsInOrder
  <2> QED BY <2>1, <2>2
<1>7. SkippedInOrder(a, Alice) /\ SkippedInOrder(b, Bob)
  BY <1>2 DEF SkippedInOrder
<1>8. \A p \in Party : InOrder(p)
  BY <1>1, <1>4, <1>5, <1>6, <1>7, Zenon
  DEF InOrder, SentInOrder, ReceivedInOrder, Party
<1>9. Synchronised
  <2>1. Level(b, a)
    BY <1>2 DEF Level, Follows
  <2> QED BY <1>1, <2>1 DEF Synchronised, Party
<1> QED
  BY <1>1, <1>8, <1>9 DEF IInv

LEMMA NextIInv == IInv /\ [Next]_vars => IInv'
<1> SUFFICES ASSUME IInv, [Next]_vars PROVE IInv'
  OBVIOUS
<1>1. TypeOK'
  BY NextTypeOK DEF IInv
<1>2. ASSUME NEW p \in Party, Encrypt(p) PROVE IInv'
  BY <1>1, <1>2, EncryptIInv
<1>3. ASSUME NEW p \in Party, NEW i \in DOMAIN sent[Peer(p)], Decrypt(p, sent[Peer(p)][i])
      PROVE  IInv'
  BY <1>1, <1>3, DecryptIInv
<1>4. CASE UNCHANGED vars
  BY <1>1, <1>4 DEF IInv, vars, InOrder, KeysOwned, Synchronised
<1> QED
  BY <1>2, <1>3, <1>4 DEF Next

(* Every reachable state is in order: keys have one owner, chains and      *)
(* skipped keys are behind what was received, what was sent is behind the  *)
(* sender, and the two root keys are at most one exchange apart.           *)
THEOREM Invariance == Spec => []IInv
<1>1. Init => IInv
  BY InitIInv
<1>2. IInv /\ [Next]_vars => IInv'
  BY NextIInv
<1> QED
  BY <1>1, <1>2, PTL DEF Spec

-----------------------------------------------------------------------------
(***************************************************************************)
(* What the double ratchet guarantees: consequences of the invariant.      *)
(***************************************************************************)

(* The parts of the invariant, party by party.                             *)
LEMMA PartyInOrder ==
    ASSUME IInv, NEW p \in Party
    PROVE  /\ Peer(p) \in Party /\ Peer(p) # p /\ Peer(Peer(p)) = p
           /\ WellFormed(ratchet[p])
           /\ sent[p] \in Seq(Message) /\ received[p] \in Seq(Message)
           /\ \A i \in DOMAIN sent[p] : sent[p][i] \in Message
           /\ \A i \in DOMAIN received[p] : received[p][i] \in Message
           /\ KeysOwned(p)
           /\ ChainsInOrder(ratchet[p], p)
           /\ SkippedInOrder(ratchet[p], p)
           /\ SentInOrder(ratchet[p], p, sent[p])
           /\ ReceivedInOrder(ratchet[p], received[p], sent[Peer(p)])
<1>1. WellFormed(ratchet[p]) /\ sent[p] \in Seq(Message) /\ received[p] \in Seq(Message)
  BY DEF IInv, TypeOK
<1>2. InOrder(p)
  BY DEF IInv
<1> QED
  BY <1>1, <1>2, PeerIsParty DEF InOrder

LEMMA RangeOfSequence ==
    ASSUME NEW f, NEW x
    PROVE  x \in Range(f) <=> \E i \in DOMAIN f : f[i] = x
  BY DEF Range

(* A message that is behind the receiver is not decrypted.                 *)
LEMMA BehindIsRefused ==
    ASSUME NEW r, WellFormed(r), NEW m \in Message, BehindReceiver(r, m)
    PROVE  ~Decrypts(r, m)
<1> SUFFICES ASSUME Decrypts(r, m) PROVE FALSE
  OBVIOUS
<1>1. CASE AlreadyAdvanced(r, m)
  <2>1. PICK i \in SkippedKeysFor(r, m) : TRUE
    BY <1>1 DEF Decrypts, AlreadyAdvanced
  <2> QED BY <2>1 DEF SkippedKeysFor, BehindReceiver
<1>2. CASE HasReceiverChain(r, m.ratchet_key) /\ ~AlreadyAdvanced(r, m)
  <2> DEFINE i == ReceiverChain(r, m.ratchet_key)
             c == r.receiver_chains[i]
  <2>1. /\ i \in 1 .. Len(r.receiver_chains)
        /\ c \in Chain
        /\ c.chain_key.index <= m.counter
        /\ m.mac_key.chain = c.chain_key.chain
        /\ m.mac_key.index = m.counter
    BY <1>2, DecryptOnKnownChain
  <2> HIDE DEF i
  <2>2. m.mac_key.index < c.chain_key.index
    BY <2>1, RatchetFields DEF BehindReceiver
  <2>3. m.mac_key.index \in Nat /\ c.chain_key.index \in Nat
    BY <2>1, ChainFields
  <2> QED BY <2>1, <2>2, <2>3
<1>3. CASE ~HasReceiverChain(r, m.ratchet_key)
  <2> DEFINE secret == {r.sender_chain[1].ratchet_key, m.ratchet_key}
  <2>1. m.mac_key.chain = Append(r.root_key, secret)
    BY <1>3, DecryptOnNewChain
  <2>2. /\ Len(Append(r.root_key, secret)) = Len(r.root_key) + 1
        /\ Len(r.root_key) \in Nat
    BY RatchetFields DEF RootKey
  <2> QED BY <2>1, <2>2 DEF BehindReceiver
<1> QED
  BY <1>1, <1>2, <1>3

(* A message that was decrypted once is refused ever after.                *)
LEMMA IInvNoReplay == IInv => NoReplay
<1> SUFFICES ASSUME IInv, NEW p \in Party, NEW m \in Range(received[p])
             PROVE  ~Decrypts(ratchet[p], m)
  BY DEF NoReplay
<1>1. PICK i \in DOMAIN received[p] : m = received[p][i]
  BY RangeOfSequence
<1>2. BehindReceiver(ratchet[p], m) /\ m \in Message /\ WellFormed(ratchet[p])
  BY <1>1, PartyInOrder DEF ReceivedInOrder
<1> QED
  BY <1>2, BehindIsRefused

(* No message key is used twice, by one party or by both.                  *)
LEMMA IInvMessageKeysUnique == IInv => MessageKeysUnique
<1> SUFFICES ASSUME IInv, NEW p \in Party, NEW q \in Party,
                    NEW i \in DOMAIN sent[p], NEW j \in DOMAIN sent[q],
                    sent[p][i].mac_key = sent[q][j].mac_key
             PROVE  p = q /\ i = j
  BY DEF MessageKeysUnique
<1>1. /\ IsChainOf(sent[p][i].mac_key.chain, p)
      /\ IsChainOf(sent[q][j].mac_key.chain, q)
      /\ sent[p][i].mac_key.chain \in RootKey
  BY PartyInOrder, ChainFields DEF SentInOrder
<1>2. p = q
  BY <1>1, PeerIsParty, ChainAlternates
<1>3. i = j
  BY <1>2, PartyInOrder DEF SentInOrder
<1> QED
  BY <1>2, <1>3

(* A sequence is a strict prefix only of longer ones.                      *)
LEMMA StrictPrefixIsShorter ==
    ASSUME NEW S, NEW s \in Seq(S), NEW t \in Seq(S), IsStrictPrefix(s, t)
    PROVE  Len(s) < Len(t)
<1>1. /\ Len(s) <= Len(t) /\ s # t
      /\ SubSeq(s, 1, Len(s)) = SubSeq(t, 1, Len(s))
  BY DEF IsStrictPrefix, IsPrefix
<1>2. ASSUME Len(s) = Len(t) PROVE s = t
  BY <1>1, <1>2
<1> QED
  BY <1>1, <1>2

(* What has been used cannot be derived again, by either party.            *)
LEMMA IInvForwardSecrecy == IInv => ForwardSecrecy
<1> SUFFICES ASSUME IInv, NEW p \in Party
             PROVE  /\ \A m \in Range(sent[p]) : ~Derivable(ratchet[p], m.mac_key)
                    /\ \A m \in Range(received[p]) : ~Derivable(ratchet[p], m.mac_key)
  BY DEF ForwardSecrecy
<1> DEFINE r == ratchet[p]
           q == Peer(p)
<1>1. /\ WellFormed(r) /\ q \in Party /\ q # p
      /\ ChainsInOrder(r, p) /\ SkippedInOrder(r, p)
      /\ SentInOrder(r, p, sent[p])
      /\ ReceivedInOrder(r, received[p], sent[q])
  BY PartyInOrder
<1>2. /\ Len(r.root_key) \in Nat /\ r.root_key \in RootKey
      /\ DOMAIN r.receiver_chains = 1 .. Len(r.receiver_chains)
      /\ r.sender_chain # <<>> => r.sender_chain[1].chain_key.index \in Nat
      /\ \A i \in DOMAIN r.sender_chain : i = 1 /\ r.sender_chain # <<>>
      /\ \A i \in DOMAIN r.receiver_chains :
            /\ r.receiver_chains[i].chain_key.index \in Nat
            /\ r.receiver_chains[i].chain_key.chain \in RootKey
      /\ \A i \in DOMAIN r.skipped_message_keys :
            r.skipped_message_keys[i].message_key.chain \in RootKey
  <2>1. \A i \in DOMAIN r.sender_chain : i = 1 /\ r.sender_chain # <<>>
    BY <1>1 DEF WellFormed, RatchetState
  <2> QED BY <1>1, <2>1, RatchetFields, ChainFields
<1> HIDE DEF r
<1>3. ASSUME NEW m \in Message, Len(m.mac_key.chain) <= Len(r.root_key)
      PROVE  ~IsStrictPrefix(r.root_key, m.mac_key.chain)
  <2>1. Len(m.mac_key.chain) \in Nat /\ m.mac_key.chain \in RootKey
    BY ChainFields
  <2> QED BY <1>2, <1>3, <2>1, StrictPrefixIsShorter DEF RootKey
<1>4. ASSUME NEW i \in DOMAIN sent[p] PROVE ~Derivable(r, sent[p][i].mac_key)
  <2> DEFINE m == sent[p][i]
  <2>1. /\ m \in Message /\ IsChainOf(m.mac_key.chain, p) /\ BehindSender(r, m)
        /\ m.mac_key.chain \in RootKey /\ Len(m.mac_key.chain) \in Nat
        /\ m.mac_key.index \in Nat
    BY <1>1, PartyInOrder, ChainFields DEF SentInOrder
  <2> HIDE DEF m
  <2>2. Len(m.mac_key.chain) <= Len(r.root_key)
    BY <1>2, <2>1 DEF BehindSender
  <2>3. ~ \E j \in DOMAIN r.sender_chain :
            /\ r.sender_chain[j].chain_key.chain = m.mac_key.chain
            /\ r.sender_chain[j].chain_key.index <= m.mac_key.index
    BY <1>1, <1>2, <2>1 DEF ChainsInOrder, BehindSender
  <2>4. ~ \E j \in DOMAIN r.receiver_chains :
            r.receiver_chains[j].chain_key.chain = m.mac_key.chain
    BY <1>1, <1>2, <2>1, ChainAlternates DEF ChainsInOrder
  <2>5. ~ \E j \in DOMAIN r.skipped_message_keys :
            r.skipped_message_keys[j].message_key = m.mac_key
    BY <1>1, <1>2, <2>1, ChainAlternates DEF SkippedInOrder
  <2>6. ~IsStrictPrefix(r.root_key, m.mac_key.chain)
    BY <1>3, <2>1, <2>2
  <2> QED BY <2>3, <2>4, <2>5, <2>6 DEF Derivable, m
<1>5. ASSUME NEW i \in DOMAIN received[p] PROVE ~Derivable(r, received[p][i].mac_key)
  <2> DEFINE m == received[p][i]
  <2>1. /\ m \in Message /\ BehindReceiver(r, m)
        /\ m.mac_key.chain \in RootKey /\ m.mac_key.index \in Nat
    BY <1>1, PartyInOrder, ChainFields DEF ReceivedInOrder
  <2>2. PICK j \in DOMAIN sent[q] : m = sent[q][j]
    BY <1>1 DEF ReceivedInOrder
  <2>3. IsChainOf(m.mac_key.chain, q)
    BY <1>1, <2>2, PartyInOrder DEF SentInOrder
  <2> HIDE DEF m
  <2>4. ~ \E l \in DOMAIN r.sender_chain :
            r.sender_chain[l].chain_key.chain = m.mac_key.chain
    <3>1. ASSUME r.sender_chain # <<>>, r.sender_chain[1].chain_key.chain = m.mac_key.chain
          PROVE  FALSE
      <4>1. IsChainOf(m.mac_key.chain, p)
        BY <1>1, <3>1 DEF ChainsInOrder
      <4> QED BY <2>1, <2>3, <4>1, ChainAlternates
    <3> QED BY <1>2, <3>1
  <2>5. ~ \E l \in DOMAIN r.receiver_chains :
            /\ r.receiver_chains[l].chain_key.chain = m.mac_key.chain
            /\ r.receiver_chains[l].chain_key.index <= m.mac_key.index
    BY <1>2, <2>1 DEF BehindReceiver
  <2>6. ~ \E l \in DOMAIN r.skipped_message_keys :
            r.skipped_message_keys[l].message_key = m.mac_key
    BY <2>1 DEF BehindReceiver
  <2>7. ~IsStrictPrefix(r.root_key, m.mac_key.chain)
    BY <1>3, <2>1 DEF BehindReceiver
  <2> QED BY <2>4, <2>5, <2>6, <2>7 DEF Derivable, m
<1> QED
  BY <1>4, <1>5, RangeOfSequence DEF r

-----------------------------------------------------------------------------
(* The session never breaks down for good.                                 *)

(* A party that follows is in the middle of its peer's chain.              *)
LEMMA FollowerDecrypts ==
    ASSUME NEW r, NEW s, WellFormed(r), WellFormed(s), Follows(r, s),
           NEW m \in Message,
           m.ratchet_key = s.sender_chain[1].ratchet_key,
           m.counter = s.sender_chain[1].chain_key.index,
           m.mac_key.chain = s.root_key,
           m.mac_key.index = m.counter,
           m.counter - ExpectedIndex(r, m.ratchet_key) <= MAX_MESSAGE_GAP
    PROVE  Decrypts(r, m)
<1> DEFINE c == r.receiver_chains[1]
<1>1. /\ r.receiver_chains # <<>>
      /\ c.ratchet_key = m.ratchet_key
      /\ c.chain_key.chain = s.root_key
      /\ c.chain_key.index <= m.counter
  BY DEF Follows
<1>2. c \in Chain
  BY <1>1 DEF WellFormed, RatchetState
<1>3. HasReceiverChain(r, m.ratchet_key) /\ ReceiverChain(r, m.ratchet_key) = 1
  BY <1>1, ReceiverChainFirst
<1>4. ExpectedIndex(r, m.ratchet_key) = c.chain_key.index
  BY <1>3 DEF ExpectedIndex
<1> HIDE DEF c
<1>5. ~(c.chain_key.index > m.counter)
  BY <1>1, <1>2, ChainFields
<1>6. m.mac_key = [c.chain_key EXCEPT !.index = m.counter]
  BY <1>1, <1>2 DEF Chain, ChainKey, Message
<1>7. VerifiesOnChain(c.chain_key, m)
  BY <1>1, <1>2, <1>4, <1>6, ChainFields DEF VerifiesOnChain
<1>8. ~AlreadyAdvanced(r, m)
  BY <1>3, <1>5 DEF AlreadyAdvanced, c
<1> QED
  BY <1>3, <1>7, <1>8 DEF Decrypts, c

(* A party that does not know of its peer's reply computes the same chain. *)
LEMMA ReplyDecrypts ==
    ASSUME NEW r, WellFormed(r), r.sender_chain # <<>>,
           NEW m \in Message,
           ~HasReceiverChain(r, m.ratchet_key),
           m.mac_key.chain
             = Append(r.root_key, {r.sender_chain[1].ratchet_key, m.ratchet_key}),
           m.mac_key.index = m.counter,
           m.counter - ExpectedIndex(r, m.ratchet_key) <= MAX_MESSAGE_GAP
    PROVE  Decrypts(r, m)
<1> DEFINE root == Append(r.root_key, {r.sender_chain[1].ratchet_key, m.ratchet_key})
<1>1. m.counter \in Nat /\ m.counter <= MAX_MESSAGE_GAP
  <2>1. m.counter \in Nat
    BY ChainFields
  <2>2. ExpectedIndex(r, m.ratchet_key) = 0
    BY DEF ExpectedIndex
  <2> QED BY <2>1, <2>2
<1>2. NextRootKey(r, m.ratchet_key) = root
  BY DEF NextRootKey, CreateRootKey, SharedSecret
<1> HIDE DEF root
<1>3. m.mac_key = [[chain |-> root, index |-> 0] EXCEPT !.index = m.counter]
  <2>1. m.mac_key \in ChainKey /\ m.mac_key.chain = root
    BY DEF Message, root
  <2>2. m.mac_key = [chain |-> root, index |-> m.counter]
    BY <2>1 DEF ChainKey
  <2> QED BY <2>2
<1>4. VerifiesOnChain(NewChainKey(root), m)
  BY <1>1, <1>3 DEF VerifiesOnChain, NewChainKey
<1> QED
  BY <1>1, <1>2, <1>4 DEF Decrypts, VerifiesOnNewChain

LEMMA IInvNextMessageDecrypts == IInv => NextMessageDecrypts
<1> SUFFICES ASSUME IInv, NEW p \in Party,
                    NextMessage(Peer(p)).counter
                      - ExpectedIndex(ratchet[p], NextMessage(Peer(p)).ratchet_key)
                        <= MAX_MESSAGE_GAP
             PROVE  Decrypts(ratchet[p], NextMessage(Peer(p)))
  BY DEF NextMessageDecrypts
<1> DEFINE q == Peer(p)
           r == ratchet[p]
           s == ratchet[q]
           k == FreshKey(q)
           m == NextMessage(q)
<1>1. /\ q \in Party /\ q # p /\ Peer(q) = p
      /\ WellFormed(r) /\ WellFormed(s)
      /\ KeysOwned(p) /\ KeysOwned(q) /\ ChainsInOrder(s, q)
      /\ generated[q] \in Nat
      /\ Len(sent[q]) + 1 \in Nat
  <2>1. generated \in [Party -> Nat]
    BY DEF IInv, TypeOK
  <2> QED BY <2>1, PartyInOrder
<1>2. k \in RatchetKey /\ ~HasReceiverChain(r, k)
  <2>1. k \in RatchetKey
    BY <1>1 DEF FreshKey, RatchetKey
  <2>2. \A i \in DOMAIN r.receiver_chains :
           OwnedBy(r.receiver_chains[i].ratchet_key, q, generated[q])
    BY <1>1 DEF KeysOwned
  <2>3. ~OwnedBy(k, q, generated[q])
    BY <1>1 DEF FreshKey, OwnedBy
  <2> QED BY <2>1, <2>2, <2>3 DEF HasReceiverChain
<1>3. \/ Level(r, s) \/ Leads(r, s) \/ Level(s, r) \/ Leads(s, r)
  <2>1. PICK x \in Party : \/ Level(ratchet[x], ratchet[Peer(x)])
                           \/ Leads(ratchet[x], ratchet[Peer(x)])
    BY DEF IInv, Synchronised
  <2>2. x = p \/ x = q
    BY PeerIsParty
  <2> QED BY <1>1, <2>1, <2>2
<1>4. ASSUME s.sender_chain # <<>>
      PROVE  /\ m \in Message
             /\ m.ratchet_key = s.sender_chain[1].ratchet_key
             /\ m.counter = s.sender_chain[1].chain_key.index
             /\ m.mac_key.chain = s.root_key
             /\ m.mac_key.index = m.counter
  <2>1. s.sender_chain[1].chain_key.chain = s.root_key
    BY <1>1, <1>4 DEF ChainsInOrder
  <2> QED BY <1>1, <1>2, <1>4, <2>1, EncryptOnChain DEF NextMessage
<1>5. ASSUME s.sender_chain = <<>>
      PROVE  /\ m \in Message
             /\ m.ratchet_key = k
             /\ m.mac_key.chain = Append(s.root_key, {k, s.receiver_chains[1].ratchet_key})
             /\ m.mac_key.index = m.counter
  <2> DEFINE n == Len(sent[q]) + 1
             root == Append(s.root_key, {k, s.receiver_chains[1].ratchet_key})
  <2>1. m = EncryptedMessage(s, k, n) /\ n \in Nat
    BY <1>1 DEF NextMessage
  <2> HIDE DEF m, n, s, k
  <2>2. /\ EncryptedMessage(s, k, n) \in Message
        /\ EncryptedMessage(s, k, n).ratchet_key = k
        /\ EncryptedMessage(s, k, n).counter = 0
        /\ EncryptedMessage(s, k, n).mac_key.chain = root
        /\ EncryptedMessage(s, k, n).mac_key.index = 0
    <3>1. WellFormed(s) /\ k \in RatchetKey
      BY <1>1, <1>2
    <3> QED BY ONLY <1>5, <2>1, <3>1, EncryptNewChain DEF root
  <2> QED BY <2>1, <2>2
<1>6. m.counter - ExpectedIndex(r, m.ratchet_key) <= MAX_MESSAGE_GAP
  OBVIOUS
<1> HIDE DEF q, r, s, k, m
<1>7. CASE Follows(r, s)
  <2>1. s.sender_chain # <<>>
    BY <1>7 DEF Follows
  <2> QED BY <1>1, <1>4, <1>6, <1>7, <2>1, FollowerDecrypts DEF m, q, r
<1>8. CASE Leads(s, r)
  <2>1. /\ s.sender_chain # <<>> /\ r.sender_chain # <<>>
        /\ s.root_key = Append(r.root_key, {r.sender_chain[1].ratchet_key,
                                            s.sender_chain[1].ratchet_key})
        /\ ~HasReceiverChain(r, s.sender_chain[1].ratchet_key)
    BY <1>8 DEF Leads, Follows
  <2>2. /\ m \in Message
        /\ m.ratchet_key = s.sender_chain[1].ratchet_key
        /\ m.mac_key.chain = s.root_key
        /\ m.mac_key.index = m.counter
    BY <1>4, <2>1
  <2>3. /\ ~HasReceiverChain(r, m.ratchet_key)
        /\ m.mac_key.chain
             = Append(r.root_key, {r.sender_chain[1].ratchet_key, m.ratchet_key})
    BY <2>1, <2>2
  <2>4. Decrypts(r, m)
    BY <1>1, <1>6, <2>1, <2>2, <2>3, ReplyDecrypts
  <2> QED BY <2>4 DEF m, q, r
<1>9. CASE Level(s, r)
  <2>1. /\ s.sender_chain = <<>> /\ r.sender_chain # <<>>
        /\ s.root_key = r.root_key
        /\ s.receiver_chains[1].ratchet_key = r.sender_chain[1].ratchet_key
    BY <1>9 DEF Level, Follows
  <2>2. /\ m \in Message
        /\ m.ratchet_key = k
        /\ m.mac_key.chain = Append(s.root_key, {k, s.receiver_chains[1].ratchet_key})
        /\ m.mac_key.index = m.counter
    BY <1>5, <2>1
  <2>3. {k, s.receiver_chains[1].ratchet_key} = {r.sender_chain[1].ratchet_key, k}
    BY <2>1
  <2>4. /\ ~HasReceiverChain(r, m.ratchet_key)
        /\ m.mac_key.chain
             = Append(r.root_key, {r.sender_chain[1].ratchet_key, m.ratchet_key})
    BY <1>2, <2>1, <2>2, <2>3
  <2>5. Decrypts(r, m)
    BY <1>1, <1>6, <2>1, <2>2, <2>4, ReplyDecrypts
  <2> QED BY <2>5 DEF m, q, r
<1> QED
  BY <1>3, <1>7, <1>8, <1>9 DEF Level, Leads

-----------------------------------------------------------------------------
(* The ratchets implement the channel.                                     *)

LEMMA InitChannel == Init => Channel!Init
<1> SUFFICES ASSUME Init PROVE Channel!Init
  OBVIOUS
<1>1. /\ \A p \in Party : Len(sent[p]) = 0 /\ DOMAIN received[p] = {}
      /\ Channel!Party = Party
  BY DEF Init, Channel!Party, Party
<1>2. [p \in Party |-> [i \in DOMAIN received[p] |-> received[p][i].plaintext]]
        = [p \in Party |-> <<>>]
  <2>1. ASSUME NEW p \in Party
        PROVE  [i \in DOMAIN received[p] |-> received[p][i].plaintext] = <<>>
    <3> DEFINE f == [i \in DOMAIN received[p] |-> received[p][i].plaintext]
    <3>1. DOMAIN received[p] = 1 .. 0
      BY <1>1
    <3>2. \A i \in 1 .. 0 : f[i] \in Nat
      OBVIOUS
    <3>3. f = [i \in 1 .. 0 |-> received[p][i].plaintext]
      BY <3>1
    <3>4. f \in Seq(Nat) /\ Len(f) = 0
      <4> DEFINE g == [i \in 1 .. 0 |-> received[p][i].plaintext]
      <4>1. g \in Seq(Nat) /\ Len(g) = 0
        OBVIOUS
      <4> QED BY <3>3, <4>1
    <3> HIDE DEF f
    <3>5. f = <<>>
      BY <3>4
    <3> QED BY <3>5 DEF f
  <2> QED BY <2>1
<1>3. [p \in Party |-> Len(sent[p])] = [p \in Party |-> 0]
  BY <1>1
<1> QED
  BY <1>1, <1>2, <1>3, Zenon DEF Channel!Init

LEMMA NextChannel == IInv /\ [Next]_vars => [Channel!Next]_(Channel!vars)
<1> SUFFICES ASSUME IInv, [Next]_vars PROVE [Channel!Next]_(Channel!vars)
  OBVIOUS
<1> DEFINE count == [p \in Party |-> Len(sent[p])]
           given == [p \in Party |-> [i \in DOMAIN received[p] |-> received[p][i].plaintext]]
<1>1. ASSUME NEW p \in Party, Encrypt(p) PROVE Channel!Send(p)
  <2>1. /\ sent \in [Party -> Seq(Message)]
        /\ sent' = [sent EXCEPT ![p] = Append(@, NextMessage(p))]
        /\ received' = received
    BY <1>1 DEF Encrypt, IInv, TypeOK
  <2>2. Len(Append(sent[p], NextMessage(p))) = Len(sent[p]) + 1
    <3>1. \A s \in Seq(Message) : \A x : Len(Append(s, x)) = Len(s) + 1
      OBVIOUS
    <3> QED BY <2>1, <3>1
  <2>3. count' = [count EXCEPT ![p] = @ + 1]
    BY <2>1, <2>2
  <2>4. given' = given
    BY <2>1
  <2> QED BY <2>3, <2>4, Zenon DEF Channel!Send
<1>2. ASSUME NEW p \in Party, NEW i \in DOMAIN sent[Peer(p)], Decrypt(p, sent[Peer(p)][i])
      PROVE  Channel!Deliver(p, i) /\ i \in 1 .. count[Peer(p)]
  <2> DEFINE q == Peer(p)
             m == sent[q][i]
  <2>1. /\ q \in Party
        /\ sent[q] \in Seq(Message) /\ received[p] \in Seq(Message)
        /\ received \in [Party -> Seq(Message)]
        /\ SentInOrder(ratchet[q], q, sent[q])
        /\ ReceivedInOrder(ratchet[p], received[p], sent[q])
        /\ WellFormed(ratchet[p])
        /\ m \in Message /\ m.plaintext = i
    <3>1. received \in [Party -> Seq(Message)]
      BY DEF IInv, TypeOK
    <3> QED BY <3>1, PartyInOrder DEF SentInOrder
  <2>2. /\ Decrypts(ratchet[p], m)
        /\ received' = [received EXCEPT ![p] = Append(@, m)]
        /\ sent' = sent
    BY <1>2 DEF Decrypt
  <2>3. i \in 1 .. Len(sent[q])
    BY <2>1
  <2>4. ASSUME NEW j \in DOMAIN received[p], received[p][j].plaintext = i
        PROVE  FALSE
    <3>1. PICK l \in DOMAIN sent[q] : received[p][j] = sent[q][l]
      BY <2>1 DEF ReceivedInOrder
    <3>2. l = i
      BY <2>1, <2>4, <3>1 DEF SentInOrder
    <3>3. BehindReceiver(ratchet[p], m)
      BY <2>1, <3>1, <3>2 DEF ReceivedInOrder
    <3> QED BY <2>1, <2>2, <3>3, BehindIsRefused
  <2> HIDE DEF q, m
  <2>5. i \notin Channel!Range(given[p])
    <3>1. \A j \in DOMAIN given[p] : given[p][j] # i
      BY <2>4
    <3> QED BY <3>1 DEF Channel!Range
  <2>6. given' = [given EXCEPT ![p] = Append(@, i)]
    <3> DEFINE more == Append(received[p], m)
    <3>1. [j \in DOMAIN more |-> more[j].plaintext] = Append(given[p], i)
      <4>1. /\ DOMAIN received[p] = 1 .. Len(received[p])
            /\ DOMAIN more = 1 .. Len(received[p]) + 1
            /\ \A j \in DOMAIN received[p] : more[j] = received[p][j]
            /\ more[Len(received[p]) + 1] = m
            /\ Len(received[p]) \in Nat
        BY <2>1
      <4>2. given[p] = [j \in 1 .. Len(received[p]) |-> received[p][j].plaintext]
        BY <4>1
      <4>3. \A j \in 1 .. Len(received[p]) : received[p][j].plaintext \in Nat
        BY <2>1, <4>1, ChainFields
      <4>4. given[p] \in Seq(Nat) /\ Len(given[p]) = Len(received[p])
        <5> HIDE DEF given
        <5> QED BY <4>1, <4>2, <4>3
      <4>5. Append(given[p], i)
              = [j \in 1 .. Len(received[p]) + 1 |->
                    IF j = Len(received[p]) + 1 THEN i ELSE given[p][j]]
        <5> HIDE DEF given
        <5> QED BY <4>1, <4>4
      <4>6. \A j \in 1 .. Len(received[p]) + 1 :
              more[j].plaintext = IF j = Len(received[p]) + 1 THEN i ELSE given[p][j]
        <5>1. ASSUME NEW j \in 1 .. Len(received[p])
              PROVE  more[j].plaintext = given[p][j]
          BY <4>1, <4>2
        <5> HIDE DEF given, more
        <5> QED BY <2>1, <4>1, <5>1 DEF m
      <4> HIDE DEF more, given
      <4> QED BY <4>1, <4>5, <4>6
    <3>2. given' = [x \in Party |-> [j \in DOMAIN received'[x] |-> received'[x][j].plaintext]]
      OBVIOUS
    <3>3. \A x \in Party : received'[x] = IF x = p THEN more ELSE received[x]
      BY <2>1, <2>2
    <3> QED BY <3>1, <3>2, <3>3
  <2>7. Channel!Peer(p) = q
    BY DEF Channel!Peer, Peer, q
  <2>8. count[q] = Len(sent[q]) /\ count' = count
    BY <2>1, <2>2
  <2>9. i \in 1 .. count[q]
    BY <2>3, <2>8
  <2>10. count[Peer(p)] = count[Channel!Peer(p)] /\ i \in 1 .. count[Channel!Peer(p)]
    BY <2>7, <2>9 DEF q
  <2>11. Channel!Deliver(p, i)
    BY <2>5, <2>6, <2>8, <2>10 DEF Channel!Deliver
  <2> QED BY <2>9, <2>11 DEF q
<1>3. CASE UNCHANGED vars
  BY <1>3 DEF vars, Channel!vars
<1>4. \A p \in Party : Channel!Peer(p) = Peer(p)
  BY DEF Channel!Peer, Peer
<1>5. Channel!Party = Party
  BY DEF Channel!Party, Party
<1> QED
  BY <1>1, <1>2, <1>3, <1>4, <1>5 DEF Next, Channel!Next

-----------------------------------------------------------------------------
(* The theorems.                                                           *)

(* As soon as a message is encrypted its sender cannot derive its key any  *)
(* more, and as soon as it is decrypted neither can its recipient.         *)
THEOREM SpecForwardSecrecy == Spec => []ForwardSecrecy
  BY Invariance, IInvForwardSecrecy, PTL

(* A message that was decrypted once is refused ever after.                *)
THEOREM SpecNoReplay == Spec => []NoReplay
  BY Invariance, IInvNoReplay, PTL

(* No message key is used twice.                                           *)
THEOREM SpecMessageKeysUnique == Spec => []MessageKeysUnique
  BY Invariance, IInvMessageKeysUnique, PTL

(* Whatever the transport did, the next message either party encrypts can  *)
(* be decrypted by the other, up to the gap.                               *)
THEOREM SpecNextMessageDecrypts == Spec => []NextMessageDecrypts
  BY Invariance, IInvNextMessageDecrypts, PTL

(* The two ratchets implement the channel that gives each plaintext at     *)
(* most once: initial states map to initial states, steps to steps.        *)
THEOREM SpecImplementsChannel == Spec => ImplementsChannel
<1>1. Spec => []IInv
  BY Invariance
<1>2. Init => Channel!Init
  BY InitChannel
<1>3. IInv /\ [Next]_vars => [Channel!Next]_(Channel!vars)
  BY NextChannel
<1> QED
  BY <1>1, <1>2, <1>3, PTL DEF Spec, ImplementsChannel, Channel!Spec

-----------------------------------------------------------------------------
(* Replies ratchet forward (RepliesRatchetForward).                        *)
(*                                                                         *)
(* The inductive invariant of RatchetPair orders the root keys by length   *)
(* only.  Here they are shown to grow out of each other: everything a      *)
(* party can decrypt with, or has decrypted, comes from a prefix of its    *)
(* root key.                                                               *)

OnThePath(r, messages) ==
    /\ \A i \in DOMAIN r.receiver_chains :
          IsPrefix(r.receiver_chains[i].chain_key.chain, r.root_key)
    /\ \A i \in DOMAIN r.skipped_message_keys :
          IsPrefix(r.skipped_message_keys[i].message_key.chain, r.root_key)
    /\ \A i \in DOMAIN messages : IsPrefix(messages[i].mac_key.chain, r.root_key)

AllOnThePath == \A p \in Party : OnThePath(ratchet[p], received[p])

-----------------------------------------------------------------------------
LEMMA PrefixOfItself ==
    ASSUME NEW S, NEW s \in Seq(S)
    PROVE  IsPrefix(s, s)
  BY DEF IsPrefix

LEMMA PrefixOfAppended ==
    ASSUME NEW S, NEW s \in Seq(S), NEW t \in Seq(S), NEW x \in S, IsPrefix(s, t)
    PROVE  IsStrictPrefix(s, Append(t, x)) /\ IsPrefix(s, Append(t, x))
<1>1. /\ Len(s) <= Len(t) /\ Len(s) \in Nat /\ Len(t) \in Nat
      /\ SubSeq(s, 1, Len(s)) = SubSeq(t, 1, Len(s))
  BY DEF IsPrefix
<1>2. Append(t, x) \in Seq(S) /\ Len(Append(t, x)) = Len(t) + 1
  OBVIOUS
<1>3. SubSeq(Append(t, x), 1, Len(s)) = SubSeq(t, 1, Len(s))
  BY <1>1, <1>2
<1>4. IsPrefix(s, Append(t, x))
  BY <1>1, <1>2, <1>3 DEF IsPrefix
<1>5. s # Append(t, x)
  BY <1>1, <1>2
<1> QED BY <1>4, <1>5 DEF IsStrictPrefix

LEMMA LongerPath ==
    ASSUME NEW r, NEW e, NEW messages, NEW x, WellFormed(r), OnThePath(r, messages),
           messages \in Seq(Message),
           r.root_key \in RootKey, x \in SUBSET RatchetKey,
           e.root_key = Append(r.root_key, x),
           e.receiver_chains = r.receiver_chains,
           e.skipped_message_keys = r.skipped_message_keys
    PROVE  OnThePath(e, messages)
<1> DEFINE S == {InitialSecret} \cup SUBSET RatchetKey
<1>1. r.root_key \in Seq(S) /\ x \in S
  BY DEF RootKey
<1>2. /\ \A i \in DOMAIN r.receiver_chains : r.receiver_chains[i].chain_key.chain \in Seq(S)
      /\ \A i \in DOMAIN r.skipped_message_keys :
            r.skipped_message_keys[i].message_key.chain \in Seq(S)
      /\ \A i \in DOMAIN messages : messages[i].mac_key.chain \in Seq(S)
  <2>1. RootKey = Seq(S)
    BY DEF RootKey
  <2> HIDE DEF S
  <2>2. \A i \in DOMAIN r.receiver_chains : r.receiver_chains[i].chain_key.chain \in RootKey
    BY RatchetFields, ChainFields
  <2>3. \A i \in DOMAIN r.skipped_message_keys :
           r.skipped_message_keys[i].message_key.chain \in RootKey
    BY RatchetFields, ChainFields
  <2>4. \A i \in DOMAIN messages : messages[i] \in Message
    BY messages \in Seq(Message)
  <2>5. \A i \in DOMAIN messages : messages[i].mac_key.chain \in RootKey
    BY <2>4, ChainFields
  <2> QED BY <2>1, <2>2, <2>3, <2>5
<1>3. ASSUME NEW s \in Seq(S), IsPrefix(s, r.root_key)
      PROVE  IsPrefix(s, e.root_key)
  <2> HIDE DEF S
  <2> QED BY <1>1, <1>3, PrefixOfAppended
<1> HIDE DEF S
<1> QED BY <1>2, <1>3 DEF OnThePath

(* What a party encrypts is under a root key that goes on from all it has  *)
(* received, and that root key is the party's afterwards.                  *)
LEMMA EncryptOnThePath ==
    ASSUME IInv, AllOnThePath, NEW p \in Party, Encrypt(p)
    PROVE  /\ AllOnThePath'
           /\ \A m \in Range(received[p]) :
                 IsStrictPrefix(m.mac_key.chain, Last(sent'[p]).mac_key.chain)
<1> DEFINE r == ratchet[p]
           k == FreshKey(p)
           n == Len(sent[p]) + 1
           e == AfterEncrypt(r, k)
           m == EncryptedMessage(r, k, n)
           S == {InitialSecret} \cup SUBSET RatchetKey
<1>1. /\ ratchet \in [Party -> RatchetState]
      /\ sent \in [Party -> Seq(Message)]
      /\ received \in [Party -> Seq(Message)]
      /\ generated \in [Party -> Nat]
  BY DEF IInv, TypeOK
<1>2. /\ WellFormed(r) /\ ChainsInOrder(r, p) /\ OnThePath(r, received[p])
      /\ r.root_key \in RootKey
      /\ k \in RatchetKey /\ n \in Nat
  <2>1. WellFormed(r) /\ ChainsInOrder(r, p) /\ OnThePath(r, received[p])
    BY PartyInOrder DEF AllOnThePath
  <2>2. k \in RatchetKey /\ n \in Nat
    BY <1>1 DEF FreshKey, RatchetKey
  <2> QED BY <2>1, <2>2, RatchetFields
<1>3. /\ ratchet' = [ratchet EXCEPT ![p] = e]
      /\ sent' = [sent EXCEPT ![p] = Append(@, m)]
      /\ received' = received
  BY DEF Encrypt, NextMessage
<1>4. ASSUME NEW i \in DOMAIN received[p]
      PROVE  /\ received[p][i].mac_key.chain \in RootKey
             /\ IsPrefix(received[p][i].mac_key.chain, r.root_key)
             /\ ~IsChainOf(received[p][i].mac_key.chain, p)
  <2>1. received[p][i] \in Message /\ ReceivedInOrder(r, received[p], sent[Peer(p)])
        /\ Peer(p) \in Party /\ Peer(Peer(p)) = p
        /\ SentInOrder(ratchet[Peer(p)], Peer(p), sent[Peer(p)])
    BY PartyInOrder
  <2>2. PICK j \in DOMAIN sent[Peer(p)] : received[p][i] = sent[Peer(p)][j]
    BY <2>1 DEF ReceivedInOrder
  <2>3. IsChainOf(received[p][i].mac_key.chain, Peer(p))
    BY <2>1, <2>2 DEF SentInOrder
  <2>4. received[p][i].mac_key.chain \in RootKey
    BY <2>1, ChainFields
  <2>5. ~IsChainOf(received[p][i].mac_key.chain, p)
    BY <2>1, <2>3, <2>4, ChainAlternates
  <2> QED BY <1>2, <2>4, <2>5 DEF OnThePath
<1> HIDE DEF e, m, k, n, r
<1>5. ASSUME r.sender_chain # <<>>
      PROVE  OnThePath(e, received[p]) /\ m \in Message
             /\ \A i \in DOMAIN received[p] :
                   IsStrictPrefix(received[p][i].mac_key.chain, m.mac_key.chain)
  <2>1. /\ e.root_key = r.root_key
        /\ e.receiver_chains = r.receiver_chains
        /\ e.skipped_message_keys = r.skipped_message_keys
        /\ m \in Message
        /\ m.mac_key.chain = r.root_key
    BY <1>2, <1>5, EncryptOnChain DEF e, m, ChainsInOrder
  <2>2. OnThePath(e, received[p])
    BY <1>2, <2>1 DEF OnThePath
  <2>3. IsChainOf(r.root_key, p)
    BY <1>2, <1>5 DEF ChainsInOrder
  <2>4. ASSUME NEW i \in DOMAIN received[p]
        PROVE  IsStrictPrefix(received[p][i].mac_key.chain, m.mac_key.chain)
    BY <1>4, <2>1, <2>3 DEF IsStrictPrefix
  <2> QED BY <2>1, <2>2, <2>4
<1>6. ASSUME r.sender_chain = <<>>
      PROVE  OnThePath(e, received[p]) /\ m \in Message
             /\ \A i \in DOMAIN received[p] :
                   IsStrictPrefix(received[p][i].mac_key.chain, m.mac_key.chain)
  <2> DEFINE x == {k, r.receiver_chains[1].ratchet_key}
  <2>1. x \in SUBSET RatchetKey
    <3>1. r.receiver_chains # <<>> /\ r.receiver_chains \in Seq(Chain)
      BY <1>2, <1>6 DEF WellFormed, RatchetState
    <3>2. r.receiver_chains[1] \in Chain
      BY <3>1
    <3> QED BY <1>2, <3>2 DEF Chain
  <2>2. /\ e.root_key = Append(r.root_key, x)
        /\ e.receiver_chains = r.receiver_chains
        /\ e.skipped_message_keys = r.skipped_message_keys
        /\ m \in Message
        /\ m.mac_key.chain = Append(r.root_key, x)
    BY <1>2, <1>6, EncryptNewChain DEF e, m
  <2> HIDE DEF x
  <2>3. OnThePath(e, received[p])
    BY <1>1, <1>2, <2>1, <2>2, LongerPath
  <2>4. r.root_key \in Seq(S) /\ x \in S /\ RootKey = Seq(S)
    BY <1>2, <2>1 DEF RootKey
  <2> HIDE DEF S
  <2>5. ASSUME NEW i \in DOMAIN received[p]
        PROVE  IsStrictPrefix(received[p][i].mac_key.chain, m.mac_key.chain)
    BY <1>4, <2>2, <2>4, PrefixOfAppended
  <2> QED BY <2>2, <2>3, <2>5
<1>7. /\ OnThePath(e, received[p]) /\ m \in Message
      /\ \A i \in DOMAIN received[p] :
            IsStrictPrefix(received[p][i].mac_key.chain, m.mac_key.chain)
  BY <1>5, <1>6
<1>8. Last(sent'[p]) = m
  <2>1. sent'[p] = Append(sent[p], m) /\ sent[p] \in Seq(Message)
    BY <1>1, <1>3
  <2> QED BY <1>7, <2>1 DEF Last
<1>9. AllOnThePath'
  BY <1>1, <1>3, <1>7 DEF AllOnThePath, r
<1> QED BY <1>7, <1>8, <1>9, RangeOfSequence

-----------------------------------------------------------------------------
(* Decryption.                                                             *)

(* What was on the path stays on it when a chain that is on it moves on    *)
(* and the keys it skips are stored.                                       *)
LEMMA SkippedOnThePath ==
    ASSUME NEW path, NEW skipped \in Seq(SkippedKey),
           Len(skipped) <= OLM_MAX_SKIPPED_MESSAGE_KEYS,
           \A i \in DOMAIN skipped : IsPrefix(skipped[i].message_key.chain, path),
           NEW chain \in Chain, IsPrefix(chain.chain_key.chain, path),
           NEW counter \in Nat, chain.chain_key.index <= counter
    PROVE  \A i \in DOMAIN AfterSkipping(skipped, chain, counter) :
              IsPrefix(AfterSkipping(skipped, chain, counter)[i].message_key.chain, path)
<1> DEFINE new == counter - chain.chain_key.index
           after == AfterSkipping(skipped, chain, counter)
<1>1. /\ after \in Seq(SkippedKey)
      /\ \A i \in 1 .. Len(after) :
            IF i <= new
              THEN after[i].message_key.chain = chain.chain_key.chain
              ELSE i - new \in 1 .. Len(skipped) /\ after[i] = skipped[i - new]
  BY SkippingProperties
<1>2. DOMAIN after = 1 .. Len(after) /\ DOMAIN skipped = 1 .. Len(skipped)
  BY <1>1
<1> HIDE DEF after, new
<1>3. \A i \in DOMAIN after : IsPrefix(after[i].message_key.chain, path)
  BY <1>1, <1>2
<1> QED BY <1>3 DEF after

LEMMA DecryptOnThePath ==
    ASSUME NEW r, WellFormed(r), NEW m \in Message, Decrypts(r, m),
           NEW messages \in Seq(Message), OnThePath(r, messages)
    PROVE  OnThePath(AfterDecrypt(r, m), Append(messages, m))
<1> DEFINE e == AfterDecrypt(r, m)
           all == Append(messages, m)
<1>1. /\ DOMAIN r.receiver_chains = 1 .. Len(r.receiver_chains)
      /\ DOMAIN r.skipped_message_keys = 1 .. Len(r.skipped_message_keys)
      /\ r.skipped_message_keys \in Seq(SkippedKey)
      /\ Len(r.skipped_message_keys) <= OLM_MAX_SKIPPED_MESSAGE_KEYS
      /\ m.counter \in Nat
  BY RatchetFields, ChainFields DEF WellFormed, RatchetState
<1>2. \A path : (/\ IsPrefix(m.mac_key.chain, path)
                 /\ \A i \in DOMAIN messages : IsPrefix(messages[i].mac_key.chain, path))
               => \A i \in DOMAIN all : IsPrefix(all[i].mac_key.chain, path)
  OBVIOUS
<1> HIDE DEF e, all
<1>3. ASSUME AlreadyAdvanced(r, m)
      PROVE  OnThePath(e, all)
  <2>1. /\ e.root_key = r.root_key
        /\ e.receiver_chains = r.receiver_chains
        /\ WellFormed(e)
        /\ Len(e.skipped_message_keys) = Len(r.skipped_message_keys) - 1
        /\ \E i \in 1 .. Len(r.skipped_message_keys) :
              \A j \in 1 .. Len(r.skipped_message_keys) - 1 :
                 e.skipped_message_keys[j] = IF j < i THEN r.skipped_message_keys[j]
                                                      ELSE r.skipped_message_keys[j + 1]
    BY <1>3, DecryptSkipped DEF e
  <2>2. PICK i \in DOMAIN r.skipped_message_keys :
           r.skipped_message_keys[i].message_key = m.mac_key
    BY <1>3 DEF Decrypts, AlreadyAdvanced, SkippedKeysFor
  <2>3. IsPrefix(m.mac_key.chain, r.root_key)
    BY <2>2 DEF OnThePath
  <2>4. \A j \in DOMAIN e.skipped_message_keys :
           IsPrefix(e.skipped_message_keys[j].message_key.chain, r.root_key)
    <3>1. /\ DOMAIN e.skipped_message_keys = 1 .. Len(r.skipped_message_keys) - 1
          /\ Len(r.skipped_message_keys) \in Nat
      BY <2>1, RatchetFields
    <3>2. ASSUME NEW j \in DOMAIN e.skipped_message_keys
          PROVE  \E l \in DOMAIN r.skipped_message_keys :
                    e.skipped_message_keys[j] = r.skipped_message_keys[l]
      <4>1. /\ j \in DOMAIN r.skipped_message_keys
            /\ j + 1 \in DOMAIN r.skipped_message_keys
        BY <1>1, <3>1
      <4> QED BY <2>1, <3>1, <4>1
    <3> QED BY <3>2 DEF OnThePath
  <2> QED BY <1>2, <2>1, <2>3, <2>4 DEF OnThePath
<1>4. ASSUME HasReceiverChain(r, m.ratchet_key), ~AlreadyAdvanced(r, m)
      PROVE  OnThePath(e, all)
  <2> DEFINE i == ReceiverChain(r, m.ratchet_key)
             c == r.receiver_chains[i]
  <2>1. /\ e.root_key = r.root_key
        /\ WellFormed(e)
        /\ Len(e.receiver_chains) = Len(r.receiver_chains)
        /\ \A j \in 1 .. Len(r.receiver_chains) :
             j # i => e.receiver_chains[j] = r.receiver_chains[j]
        /\ e.receiver_chains[i].chain_key.chain = c.chain_key.chain
        /\ e.skipped_message_keys = AfterSkipping(r.skipped_message_keys, c, m.counter)
        /\ i \in 1 .. Len(r.receiver_chains)
        /\ c \in Chain
        /\ c.chain_key.index <= m.counter
        /\ m.mac_key.chain = c.chain_key.chain
    BY <1>4, DecryptOnKnownChain DEF e
  <2> HIDE DEF i
  <2>2. IsPrefix(c.chain_key.chain, r.root_key)
    BY <1>1, <2>1 DEF OnThePath
  <2>3. \A j \in DOMAIN e.receiver_chains :
           IsPrefix(e.receiver_chains[j].chain_key.chain, r.root_key)
    <3>1. DOMAIN e.receiver_chains = DOMAIN r.receiver_chains
      BY <1>1, <2>1, RatchetFields
    <3> QED BY <1>1, <2>1, <3>1 DEF OnThePath
  <2>4. \A j \in DOMAIN e.skipped_message_keys :
           IsPrefix(e.skipped_message_keys[j].message_key.chain, r.root_key)
    <3>1. \A j \in DOMAIN r.skipped_message_keys :
             IsPrefix(r.skipped_message_keys[j].message_key.chain, r.root_key)
      BY DEF OnThePath
    <3> DEFINE after == AfterSkipping(r.skipped_message_keys, c, m.counter)
    <3> HIDE DEF c
    <3>2. \A j \in DOMAIN after : IsPrefix(after[j].message_key.chain, r.root_key)
      BY <1>1, <2>1, <2>2, <3>1, SkippedOnThePath
    <3> HIDE DEF after
    <3>3. e.skipped_message_keys = after
      BY <2>1 DEF after
    <3> QED BY <3>2, <3>3
  <2>5. IsPrefix(m.mac_key.chain, r.root_key)
    BY <2>1, <2>2
  <2> HIDE DEF c
  <2> QED BY <1>2, <2>1, <2>3, <2>4, <2>5 DEF OnThePath
<1>5. ASSUME ~HasReceiverChain(r, m.ratchet_key)
      PROVE  OnThePath(e, all)
  <2> DEFINE x == {r.sender_chain[1].ratchet_key, m.ratchet_key}
             root == Append(r.root_key, x)
             c == [ratchet_key |-> m.ratchet_key,
                   chain_key   |-> [chain |-> root, index |-> 0]]
             S == {InitialSecret} \cup SUBSET RatchetKey
  <2>1. /\ r.sender_chain # <<>>
        /\ WellFormed(e)
        /\ e.root_key = root
        /\ Len(e.receiver_chains) \in 1 .. Len(r.receiver_chains) + 1
        /\ \A j \in 2 .. Len(e.receiver_chains) :
             e.receiver_chains[j] = r.receiver_chains[j - 1]
        /\ e.receiver_chains[1].chain_key.chain = root
        /\ e.skipped_message_keys = AfterSkipping(r.skipped_message_keys, c, m.counter)
        /\ c \in Chain
        /\ m.mac_key.chain = root
    BY <1>5, DecryptOnNewChain DEF e
  <2>2. c.chain_key.chain = root /\ c.chain_key.index = 0
    OBVIOUS
  <2>3. r.root_key \in Seq(S) /\ x \in S /\ RootKey = Seq(S)
    <3>1. r.sender_chain[1] \in Chain /\ r.root_key \in RootKey
      BY <2>1, RatchetFields
    <3> QED BY <3>1 DEF RootKey, Chain, Message
  <2>4. /\ \A i \in DOMAIN r.receiver_chains : r.receiver_chains[i].chain_key.chain \in RootKey
        /\ \A i \in DOMAIN r.skipped_message_keys :
              r.skipped_message_keys[i].message_key.chain \in RootKey
        /\ \A i \in DOMAIN messages : messages[i].mac_key.chain \in RootKey
    BY RatchetFields, ChainFields
  <2> HIDE DEF S, x, c
  <2>5. root \in Seq(S) /\ IsPrefix(root, root)
    <3>1. root \in Seq(S)
      BY <2>3
    <3> HIDE DEF root
    <3> QED BY <3>1, PrefixOfItself
  <2>6. ASSUME NEW s \in Seq(S), IsPrefix(s, r.root_key)
        PROVE  IsPrefix(s, root)
    BY <2>3, <2>6, PrefixOfAppended
  <2> HIDE DEF root
  <2>7. /\ \A j \in DOMAIN r.receiver_chains :
              IsPrefix(r.receiver_chains[j].chain_key.chain, root)
        /\ \A j \in DOMAIN r.skipped_message_keys :
              IsPrefix(r.skipped_message_keys[j].message_key.chain, root)
        /\ \A j \in DOMAIN messages : IsPrefix(messages[j].mac_key.chain, root)
    BY <2>3, <2>4, <2>6 DEF OnThePath
  <2>8. ASSUME NEW j \in DOMAIN e.receiver_chains
        PROVE  IsPrefix(e.receiver_chains[j].chain_key.chain, root)
    <3>1. j \in 1 .. Len(e.receiver_chains) /\ Len(r.receiver_chains) \in Nat
      BY <2>1, RatchetFields
    <3>2. CASE j = 1
      BY <2>1, <2>5, <3>2
    <3>3. CASE j # 1
      <4>1. j - 1 \in DOMAIN r.receiver_chains /\ j \in 2 .. Len(e.receiver_chains)
        BY <1>1, <2>1, <3>1, <3>3
      <4>2. e.receiver_chains[j] = r.receiver_chains[j - 1]
        BY <2>1, <4>1
      <4> QED BY <2>7, <4>1, <4>2
    <3> QED BY <3>2, <3>3
  <2>9. \A j \in DOMAIN e.skipped_message_keys :
           IsPrefix(e.skipped_message_keys[j].message_key.chain, root)
    <3> DEFINE after == AfterSkipping(r.skipped_message_keys, c, m.counter)
    <3>1. IsPrefix(c.chain_key.chain, root) /\ c.chain_key.index <= m.counter
      BY <1>1, <2>2, <2>5
    <3>2. \A j \in DOMAIN after : IsPrefix(after[j].message_key.chain, root)
      BY <1>1, <2>1, <2>7, <3>1, SkippedOnThePath
    <3> HIDE DEF after
    <3>3. e.skipped_message_keys = after
      BY <2>1 DEF after
    <3> QED BY <3>2, <3>3
  <2> QED BY <1>2, <2>1, <2>5, <2>7, <2>8, <2>9 DEF OnThePath
<1> QED BY <1>3, <1>4, <1>5 DEF e, all

-----------------------------------------------------------------------------
LEMMA InitOnThePath == Init => AllOnThePath
<1> SUFFICES ASSUME Init PROVE AllOnThePath
  OBVIOUS
<1> DEFINE a == InitialiseAsAlice(InitialSecret, <<Alice, 0>>)
           b == InitialiseAsBob(InitialSecret, <<Alice, 0>>)
<1>1. /\ ratchet[Alice] = a /\ ratchet[Bob] = b
      /\ received[Alice] = <<>> /\ received[Bob] = <<>>
  BY PartiesAssumption DEF Init, Party
<1>2. OnThePath(a, <<>>)
  BY DEF OnThePath, InitialiseAsAlice
<1>3. OnThePath(b, <<>>)
  <2>1. /\ DOMAIN b.receiver_chains = {1}
        /\ b.receiver_chains[1].chain_key.chain = <<InitialSecret>>
        /\ b.root_key = <<InitialSecret>>
        /\ DOMAIN b.skipped_message_keys = {}
    BY DEF InitialiseAsBob, NewChainKey
  <2>2. IsPrefix(<<InitialSecret>>, <<InitialSecret>>)
    <3>1. <<InitialSecret>> \in Seq({InitialSecret})
      OBVIOUS
    <3> QED BY <3>1, PrefixOfItself
  <2> HIDE DEF b
  <2> QED BY <2>1, <2>2 DEF OnThePath
<1> HIDE DEF a, b
<1> QED BY <1>1, <1>2, <1>3 DEF AllOnThePath, Party

(* One step keeps everything on the path, and if it encrypts, it does so   *)
(* further along the path than all its party had received.                 *)
LEMMA NextOnThePath ==
    ASSUME IInv, AllOnThePath, [Next]_vars
    PROVE  /\ AllOnThePath'
           /\ \A p \in Party : sent'[p] # sent[p] =>
                 \A m \in Range(received[p]) :
                    IsStrictPrefix(m.mac_key.chain, Last(sent'[p]).mac_key.chain)
<1>1. ASSUME NEW p \in Party, Encrypt(p)
      PROVE  /\ AllOnThePath'
             /\ \A q \in Party : sent'[q] # sent[q] =>
                   \A m \in Range(received[q]) :
                      IsStrictPrefix(m.mac_key.chain, Last(sent'[q]).mac_key.chain)
  <2>1. \A q \in Party : sent'[q] # sent[q] => q = p
    BY <1>1 DEF Encrypt, IInv, TypeOK
  <2> QED BY <1>1, <2>1, EncryptOnThePath
<1>2. ASSUME NEW p \in Party, NEW i \in DOMAIN sent[Peer(p)], Decrypt(p, sent[Peer(p)][i])
      PROVE  AllOnThePath' /\ sent' = sent
  <2> DEFINE m == sent[Peer(p)][i]
  <2>1. /\ Decrypts(ratchet[p], m)
        /\ ratchet' = [ratchet EXCEPT ![p] = AfterDecrypt(@, m)]
        /\ received' = [received EXCEPT ![p] = Append(@, m)]
        /\ sent' = sent
    BY <1>2 DEF Decrypt
  <2>2. m \in Message /\ WellFormed(ratchet[p]) /\ received[p] \in Seq(Message)
    <3>1. Peer(p) \in Party
      BY PartyInOrder
    <3> QED BY <3>1, PartyInOrder
  <2> HIDE DEF m
  <2>3. OnThePath(AfterDecrypt(ratchet[p], m), Append(received[p], m))
    BY <2>1, <2>2, DecryptOnThePath DEF AllOnThePath
  <2>4. ratchet \in [Party -> RatchetState] /\ received \in [Party -> Seq(Message)]
    BY DEF IInv, TypeOK
  <2>5. ASSUME NEW q \in Party
        PROVE  OnThePath(ratchet'[q], received'[q])
    BY <2>1, <2>3, <2>4 DEF AllOnThePath
  <2> QED BY <2>1, <2>5 DEF AllOnThePath
<1>3. CASE UNCHANGED vars
  BY <1>3 DEF vars, AllOnThePath
<1> QED BY <1>1, <1>2, <1>3 DEF Next

(* A reply heals the session: whatever a party encrypts is under a root    *)
(* key that builds on that of every message it had decrypted before and    *)
(* took in at least one more Diffie-Hellman secret.                        *)
THEOREM SpecRepliesRatchetForward == Spec => RepliesRatchetForward
<1> DEFINE Forward == \A p \in Party : sent'[p] # sent[p] =>
                         \A m \in Range(received[p]) :
                            IsStrictPrefix(m.mac_key.chain, Last(sent'[p]).mac_key.chain)
<1>1. Spec => []IInv
  BY Invariance
<1>2. Init => AllOnThePath
  BY InitOnThePath
<1>3. IInv /\ AllOnThePath /\ [Next]_vars => AllOnThePath' /\ [Forward]_vars
  BY NextOnThePath
<1> HIDE DEF Forward
<1>4. Spec => [][Forward]_vars
  BY <1>1, <1>2, <1>3, PTL DEF Spec
<1> QED BY <1>4 DEF RepliesRatchetForward, Forward

-----------------------------------------------------------------------------
(* Skipped keys are owed (SkippedKeysAreOwed).                             *)
(*                                                                         *)
(* The skipping loop stores keys for messages its party has not seen.      *)
(* That these messages exist rests on the sender: what it sent on a chain  *)
(* is numbered without a gap.                                              *)

(* Message number n of that chain and ratchet key is among the messages.   *)
IsAmong(messages, ratchet_key, chain, n) ==
    \E j \in DOMAIN messages :
        /\ messages[j].ratchet_key = ratchet_key
        /\ messages[j].mac_key.chain = chain
        /\ messages[j].mac_key.index = n

(* All messages before a sent one on its chain were sent too.              *)
WithoutGap(messages) ==
    \A i \in DOMAIN messages : \A n \in 0 .. messages[i].mac_key.index - 1 :
        IsAmong(messages, messages[i].ratchet_key, messages[i].mac_key.chain, n)

(* So were all before the sender's next one.                               *)
SenderWithoutGap(r, messages) ==
    r.sender_chain # <<>> =>
        \A n \in 0 .. r.sender_chain[1].chain_key.index - 1 :
            IsAmong(messages, r.sender_chain[1].ratchet_key,
                    r.sender_chain[1].chain_key.chain, n)

(* Every skipped key is the key of a message of the peer.                  *)
SkippedWereSent(r, peers) ==
    \A i \in DOMAIN r.skipped_message_keys :
        IsAmong(peers, r.skipped_message_keys[i].ratchet_key,
                r.skipped_message_keys[i].message_key.chain,
                r.skipped_message_keys[i].message_key.index)

Numbered(p) ==
    /\ WithoutGap(sent[p])
    /\ SenderWithoutGap(ratchet[p], sent[p])
    /\ SkippedWereSent(ratchet[p], sent[Peer(p)])

AllNumbered == \A p \in Party : Numbered(p)

-----------------------------------------------------------------------------
LEMMA AmongMore ==
    ASSUME NEW messages \in Seq(Message), NEW m \in Message,
           NEW ratchet_key, NEW chain, NEW n, IsAmong(messages, ratchet_key, chain, n)
    PROVE  IsAmong(Append(messages, m), ratchet_key, chain, n)
  BY DEF IsAmong

LEMMA LastIsAmong ==
    ASSUME NEW messages \in Seq(Message), NEW m \in Message
    PROVE  IsAmong(Append(messages, m), m.ratchet_key, m.mac_key.chain, m.mac_key.index)
<1>1. /\ Len(messages) + 1 \in DOMAIN Append(messages, m)
      /\ Append(messages, m)[Len(messages) + 1] = m
  OBVIOUS
<1> HIDE DEF Message
<1> QED BY <1>1 DEF IsAmong

(* Encryption numbers on.                                                  *)
LEMMA EncryptNumbered ==
    ASSUME NEW r, WellFormed(r), NEW k \in RatchetKey, NEW n \in Nat,
           NEW messages \in Seq(Message),
           WithoutGap(messages), SenderWithoutGap(r, messages)
    PROVE  LET e == AfterEncrypt(r, k)
               m == EncryptedMessage(r, k, n)
           IN  /\ m \in Message
               /\ e.skipped_message_keys = r.skipped_message_keys
               /\ WithoutGap(Append(messages, m))
               /\ SenderWithoutGap(e, Append(messages, m))
<1> DEFINE e == AfterEncrypt(r, k)
           m == EncryptedMessage(r, k, n)
           more == Append(messages, m)
<1>1. /\ m \in Message
      /\ e.skipped_message_keys = r.skipped_message_keys
      /\ WellFormed(e)
      /\ e.sender_chain # <<>>
      /\ e.sender_chain[1].ratchet_key = m.ratchet_key
      /\ e.sender_chain[1].chain_key.chain = m.mac_key.chain
      /\ e.sender_chain[1].chain_key.index = m.mac_key.index + 1
      /\ \/ m.mac_key.index = 0
         \/ /\ r.sender_chain # <<>>
            /\ m.ratchet_key = r.sender_chain[1].ratchet_key
            /\ m.mac_key = r.sender_chain[1].chain_key
  <2>1. CASE r.sender_chain # <<>>
    BY <2>1, EncryptOnChain
  <2>2. CASE r.sender_chain = <<>>
    <3> DEFINE root == Append(r.root_key, {k, r.receiver_chains[1].ratchet_key})
    <3>1. /\ m \in Message
          /\ e.skipped_message_keys = r.skipped_message_keys
          /\ WellFormed(e)
          /\ e.sender_chain # <<>>
          /\ e.sender_chain[1].ratchet_key = k
          /\ e.sender_chain[1].chain_key.chain = root
          /\ e.sender_chain[1].chain_key.index = 1
          /\ m.ratchet_key = k
          /\ m.mac_key.chain = root
          /\ m.mac_key.index = 0
      BY <2>2, EncryptNewChain
    <3> HIDE DEF root, e, m
    <3> QED BY <3>1
  <2> QED BY <2>1, <2>2
<1>2. m.mac_key.index \in Nat
  BY <1>1, ChainFields
<1> HIDE DEF e, m
<1>3. ASSUME NEW i \in 0 .. m.mac_key.index - 1
      PROVE  IsAmong(messages, m.ratchet_key, m.mac_key.chain, i)
  BY <1>1, <1>2, <1>3 DEF SenderWithoutGap
<1>4. ASSUME NEW i \in 0 .. m.mac_key.index
      PROVE  IsAmong(more, m.ratchet_key, m.mac_key.chain, i)
  <2>1. CASE i = m.mac_key.index
    BY <1>1, <2>1, LastIsAmong
  <2>2. CASE i # m.mac_key.index
    <3>1. i \in 0 .. m.mac_key.index - 1
      BY <1>2, <1>4, <2>2
    <3> QED BY <1>1, <1>3, <3>1, AmongMore
  <2> QED BY <2>1, <2>2
<1>5. WithoutGap(more)
  <2> SUFFICES ASSUME NEW i \in DOMAIN more, NEW l \in 0 .. more[i].mac_key.index - 1
               PROVE  IsAmong(more, more[i].ratchet_key, more[i].mac_key.chain, l)
    BY DEF WithoutGap
  <2>1. CASE more[i] = m
    <3>1. l \in 0 .. m.mac_key.index
      BY <1>2, <2>1
    <3> QED BY <1>4, <2>1, <3>1
  <2>2. CASE i \in DOMAIN messages /\ more[i] = messages[i]
    <3>1. IsAmong(messages, more[i].ratchet_key, more[i].mac_key.chain, l)
      BY <2>2 DEF WithoutGap
    <3> QED BY <1>1, <3>1, AmongMore
  <2>3. more[i] = m \/ (i \in DOMAIN messages /\ more[i] = messages[i])
    BY <1>1
  <2> QED BY <2>1, <2>2, <2>3
<1>6. SenderWithoutGap(e, more)
  <2>1. e.sender_chain[1].chain_key.index - 1 = m.mac_key.index
    BY <1>1, <1>2
  <2> QED BY <1>1, <1>4, <2>1 DEF SenderWithoutGap
<1> QED BY <1>1, <1>5, <1>6 DEF e, m

-----------------------------------------------------------------------------
(* The keys the loop stores are those of messages before the one received. *)
LEMMA SkippingNumbered ==
    ASSUME NEW skipped \in Seq(SkippedKey),
           Len(skipped) <= OLM_MAX_SKIPPED_MESSAGE_KEYS,
           NEW chain \in Chain, NEW counter \in Nat, chain.chain_key.index <= counter,
           NEW peers,
           \A n \in 0 .. counter - 1 :
              IsAmong(peers, chain.ratchet_key, chain.chain_key.chain, n),
           \A i \in DOMAIN skipped :
              IsAmong(peers, skipped[i].ratchet_key, skipped[i].message_key.chain,
                      skipped[i].message_key.index),
           NEW e, e.skipped_message_keys = AfterSkipping(skipped, chain, counter)
    PROVE  SkippedWereSent(e, peers)
<1> DEFINE new == counter - chain.chain_key.index
           after == AfterSkipping(skipped, chain, counter)
<1>1. /\ after \in Seq(SkippedKey)
      /\ \A i \in 1 .. Len(after) :
            IF i <= new
              THEN /\ after[i].ratchet_key = chain.ratchet_key
                   /\ after[i].message_key.chain = chain.chain_key.chain
                   /\ after[i].message_key.index = counter - i
              ELSE i - new \in 1 .. Len(skipped) /\ after[i] = skipped[i - new]
  BY SkippingProperties
<1>2. /\ DOMAIN after = 1 .. Len(after) /\ DOMAIN skipped = 1 .. Len(skipped)
      /\ chain.chain_key.index \in Nat /\ new \in Nat /\ Len(after) \in Nat
  BY <1>1, ChainFields
<1> HIDE DEF after
<1>3. ASSUME NEW i \in DOMAIN after
      PROVE  IsAmong(peers, after[i].ratchet_key, after[i].message_key.chain,
                     after[i].message_key.index)
  <2>1. CASE i <= new
    <3>1. counter - i \in 0 .. counter - 1
      BY <1>2, <2>1
    <3> QED BY <1>1, <1>2, <2>1, <3>1
  <2>2. CASE ~(i <= new)
    BY <1>1, <1>2, <2>2
  <2> QED BY <2>1, <2>2
<1> QED BY <1>3 DEF SkippedWereSent, after

LEMMA DecryptNumbered ==
    ASSUME NEW r, WellFormed(r), NEW mine, SenderWithoutGap(r, mine),
           NEW peers \in Seq(Message), WithoutGap(peers), SkippedWereSent(r, peers),
           NEW l \in DOMAIN peers, peers[l].counter = peers[l].mac_key.index,
           Decrypts(r, peers[l])
    PROVE  LET e == AfterDecrypt(r, peers[l])
           IN  SenderWithoutGap(e, mine) /\ SkippedWereSent(e, peers)
<1> DEFINE m == peers[l]
           e == AfterDecrypt(r, m)
<1>1. m \in Message /\ m.counter \in Nat
  BY ChainFields
<1>2. /\ DOMAIN r.skipped_message_keys = 1 .. Len(r.skipped_message_keys)
      /\ Len(r.skipped_message_keys) \in Nat
      /\ r.skipped_message_keys \in Seq(SkippedKey)
      /\ Len(r.skipped_message_keys) <= OLM_MAX_SKIPPED_MESSAGE_KEYS
  BY RatchetFields DEF WellFormed, RatchetState
<1>3. \A n \in 0 .. m.counter - 1 : IsAmong(peers, m.ratchet_key, m.mac_key.chain, n)
  BY DEF WithoutGap
<1>4. \A i \in DOMAIN r.skipped_message_keys :
         IsAmong(peers, r.skipped_message_keys[i].ratchet_key,
                 r.skipped_message_keys[i].message_key.chain,
                 r.skipped_message_keys[i].message_key.index)
  BY DEF SkippedWereSent
<1>5. Decrypts(r, m)
  OBVIOUS
<1> HIDE DEF e, m
<1>6. ASSUME AlreadyAdvanced(r, m)
      PROVE  SenderWithoutGap(e, mine) /\ SkippedWereSent(e, peers)
  <2>1. /\ WellFormed(e)
        /\ e.sender_chain = r.sender_chain
        /\ Len(e.skipped_message_keys) = Len(r.skipped_message_keys) - 1
        /\ \E i \in 1 .. Len(r.skipped_message_keys) :
              \A j \in 1 .. Len(r.skipped_message_keys) - 1 :
                 e.skipped_message_keys[j] = IF j < i THEN r.skipped_message_keys[j]
                                                      ELSE r.skipped_message_keys[j + 1]
    BY <1>1, <1>5, <1>6, DecryptSkipped DEF e
  <2>2. DOMAIN e.skipped_message_keys = 1 .. Len(r.skipped_message_keys) - 1
    BY <2>1, RatchetFields
  <2>3. ASSUME NEW j \in DOMAIN e.skipped_message_keys
        PROVE  \E i \in DOMAIN r.skipped_message_keys :
                  e.skipped_message_keys[j] = r.skipped_message_keys[i]
    <3>1. j \in DOMAIN r.skipped_message_keys /\ j + 1 \in DOMAIN r.skipped_message_keys
      BY <1>2, <2>2
    <3> QED BY <2>1, <2>2, <3>1
  <2>4. SkippedWereSent(e, peers)
    BY <1>4, <2>3 DEF SkippedWereSent
  <2> QED BY <2>1, <2>4 DEF SenderWithoutGap
<1>7. ASSUME HasReceiverChain(r, m.ratchet_key), ~AlreadyAdvanced(r, m)
      PROVE  SenderWithoutGap(e, mine) /\ SkippedWereSent(e, peers)
  <2> DEFINE c == r.receiver_chains[ReceiverChain(r, m.ratchet_key)]
  <2>1. /\ e.sender_chain = r.sender_chain
        /\ e.skipped_message_keys = AfterSkipping(r.skipped_message_keys, c, m.counter)
        /\ c \in Chain
        /\ c.ratchet_key = m.ratchet_key
        /\ c.chain_key.index <= m.counter
        /\ m.mac_key.chain = c.chain_key.chain
    BY <1>1, <1>5, <1>7, DecryptOnKnownChain DEF e
  <2> HIDE DEF c
  <2>2. \A n \in 0 .. m.counter - 1 :
           IsAmong(peers, c.ratchet_key, c.chain_key.chain, n)
    BY <1>3, <2>1
  <2>3. SkippedWereSent(e, peers)
    BY <1>1, <1>2, <1>4, <2>1, <2>2, SkippingNumbered
  <2> QED BY <2>1, <2>3 DEF SenderWithoutGap
<1>8. ASSUME ~HasReceiverChain(r, m.ratchet_key)
      PROVE  SenderWithoutGap(e, mine) /\ SkippedWereSent(e, peers)
  <2> DEFINE root == Append(r.root_key, {r.sender_chain[1].ratchet_key, m.ratchet_key})
             c == [ratchet_key |-> m.ratchet_key,
                   chain_key   |-> [chain |-> root, index |-> 0]]
  <2>1. /\ e.sender_chain = <<>>
        /\ e.skipped_message_keys = AfterSkipping(r.skipped_message_keys, c, m.counter)
        /\ c \in Chain
        /\ m.mac_key.chain = root
    BY <1>1, <1>5, <1>8, DecryptOnNewChain DEF e
  <2>2. /\ c.ratchet_key = m.ratchet_key
        /\ c.chain_key.chain = root
        /\ c.chain_key.index <= m.counter
    BY <1>1
  <2> HIDE DEF root, c
  <2>3. \A n \in 0 .. m.counter - 1 :
           IsAmong(peers, c.ratchet_key, c.chain_key.chain, n)
    BY <1>3, <2>1, <2>2
  <2>4. SkippedWereSent(e, peers)
    BY <1>1, <1>2, <1>4, <2>1, <2>2, <2>3, SkippingNumbered
  <2> QED BY <2>1, <2>4 DEF SenderWithoutGap
<1> QED BY <1>6, <1>7, <1>8 DEF e, m

-----------------------------------------------------------------------------
LEMMA InitNumbered == Init => AllNumbered
<1> SUFFICES ASSUME Init, NEW p \in Party PROVE Numbered(p)
  BY DEF AllNumbered
<1>1. Peer(p) \in Party
  BY PeerIsParty
<1>2. sent[p] = <<>> /\ ratchet[p].skipped_message_keys = <<>>
  BY DEF Init, InitialiseAsAlice, InitialiseAsBob
<1>3. ratchet[p].sender_chain # <<>> => ratchet[p].sender_chain[1].chain_key.index = 0
  BY DEF Init, InitialiseAsAlice, InitialiseAsBob, NewChainKey
<1> QED BY <1>2, <1>3 DEF Numbered, WithoutGap, SenderWithoutGap, SkippedWereSent

LEMMA NextNumbered ==
    ASSUME IInv, AllNumbered, [Next]_vars
    PROVE  AllNumbered'
<1>1. /\ ratchet \in [Party -> RatchetState]
      /\ sent \in [Party -> Seq(Message)]
  BY DEF IInv, TypeOK
<1>2. ASSUME NEW p \in Party, Encrypt(p)
      PROVE  AllNumbered'
  <2> DEFINE r == ratchet[p]
             m == EncryptedMessage(r, FreshKey(p), Len(sent[p]) + 1)
             e == AfterEncrypt(r, FreshKey(p))
             q == Peer(p)
  <2>1. /\ WellFormed(r) /\ Numbered(p) /\ Numbered(q)
        /\ q \in Party /\ q # p /\ Peer(q) = p
        /\ \A x \in Party : x = p \/ x = q
    BY PartyInOrder, PeerIsParty DEF AllNumbered
  <2>2. FreshKey(p) \in RatchetKey /\ Len(sent[p]) + 1 \in Nat
    BY <1>1 DEF IInv, TypeOK, FreshKey, RatchetKey
  <2>3. /\ ratchet' = [ratchet EXCEPT ![p] = e]
        /\ sent' = [sent EXCEPT ![p] = Append(@, m)]
    BY <1>2 DEF Encrypt, NextMessage
  <2> HIDE DEF r
  <2>4. /\ m \in Message
        /\ e.skipped_message_keys = r.skipped_message_keys
        /\ WithoutGap(Append(sent[p], m))
        /\ SenderWithoutGap(e, Append(sent[p], m))
    BY <1>1, <2>1, <2>2, EncryptNumbered DEF Numbered, r
  <2> HIDE DEF m, e, q
  <2>5. /\ ratchet'[p] = e /\ ratchet'[q] = ratchet[q]
        /\ sent'[p] = Append(sent[p], m) /\ sent'[q] = sent[q]
    BY <1>1, <2>1, <2>3
  <2>6. Numbered(p)'
    BY <2>1, <2>4, <2>5 DEF Numbered, SkippedWereSent, q, r
  <2>7. Numbered(q)'
    <3>1. SkippedWereSent(ratchet[q], Append(sent[p], m))
      BY <1>1, <2>1, <2>4, AmongMore DEF Numbered, SkippedWereSent
    <3> QED BY <2>1, <2>5, <3>1 DEF Numbered
  <2> QED BY <2>1, <2>6, <2>7 DEF AllNumbered
<1>3. ASSUME NEW p \in Party, NEW l \in DOMAIN sent[Peer(p)], Decrypt(p, sent[Peer(p)][l])
      PROVE  AllNumbered'
  <2> DEFINE r == ratchet[p]
             q == Peer(p)
             e == AfterDecrypt(r, sent[q][l])
  <2>1. /\ WellFormed(r) /\ Numbered(p) /\ Numbered(q)
        /\ q \in Party /\ q # p /\ Peer(q) = p
        /\ \A x \in Party : x = p \/ x = q
        /\ sent[q] \in Seq(Message)
        /\ SentInOrder(ratchet[q], q, sent[q])
    BY <1>1, PartyInOrder, PeerIsParty DEF AllNumbered
  <2>2. /\ Decrypts(r, sent[q][l])
        /\ ratchet' = [ratchet EXCEPT ![p] = e]
        /\ sent' = sent
    BY <1>3 DEF Decrypt
  <2>3. l \in DOMAIN sent[q] /\ sent[q][l].counter = sent[q][l].mac_key.index
    BY <2>1 DEF SentInOrder
  <2>4. SenderWithoutGap(r, sent[p]) /\ SkippedWereSent(r, sent[q]) /\ WithoutGap(sent[q])
    BY <2>1 DEF Numbered
  <2> HIDE DEF r, q
  <2>5. SenderWithoutGap(e, sent[p]) /\ SkippedWereSent(e, sent[q])
    BY <2>1, <2>2, <2>3, <2>4, DecryptNumbered
  <2> HIDE DEF e
  <2>6. ratchet'[p] = e /\ ratchet'[q] = ratchet[q]
    BY <1>1, <2>1, <2>2
  <2>7. Numbered(p)'
    BY <2>1, <2>2, <2>5, <2>6 DEF Numbered, q
  <2>8. Numbered(q)'
    BY <2>1, <2>2, <2>6 DEF Numbered
  <2> QED BY <2>1, <2>7, <2>8 DEF AllNumbered
<1>4. CASE UNCHANGED vars
  BY <1>4 DEF vars, AllNumbered, Numbered
<1> QED BY <1>2, <1>3, <1>4 DEF Next

(* A key that was received is not among the skipped ones, and no two       *)
(* skipped keys are the same: that is in IInv already.                     *)
LEMMA NumberedAreOwed == IInv /\ AllNumbered => SkippedKeysAreOwed
<1> SUFFICES ASSUME IInv, AllNumbered, NEW p \in Party,
                    NEW i \in DOMAIN ratchet[p].skipped_message_keys
             PROVE  /\ \E m \in Range(sent[Peer(p)]) \ Range(received[p]) :
                          /\ m.mac_key = ratchet[p].skipped_message_keys[i].message_key
                          /\ m.ratchet_key = ratchet[p].skipped_message_keys[i].ratchet_key
                    /\ \A j \in DOMAIN ratchet[p].skipped_message_keys :
                          ratchet[p].skipped_message_keys[i].message_key
                            = ratchet[p].skipped_message_keys[j].message_key => i = j
  BY DEF SkippedKeysAreOwed
<1> DEFINE r == ratchet[p]
           key == r.skipped_message_keys[i]
           peers == sent[Peer(p)]
<1>1. /\ SkippedWereSent(r, peers)
      /\ SkippedInOrder(r, p)
      /\ ReceivedInOrder(r, received[p], peers)
      /\ key \in SkippedKey
      /\ \A j \in DOMAIN peers : peers[j] \in Message
  BY PartyInOrder, RatchetFields DEF AllNumbered, Numbered
<1>2. PICK j \in DOMAIN peers : /\ peers[j].ratchet_key = key.ratchet_key
                                /\ peers[j].mac_key.chain = key.message_key.chain
                                /\ peers[j].mac_key.index = key.message_key.index
  BY <1>1 DEF SkippedWereSent, IsAmong
<1>3. peers[j].mac_key = key.message_key
  BY <1>1, <1>2 DEF Message, SkippedKey, ChainKey
<1>4. \A l \in DOMAIN received[p] : received[p][l].mac_key # key.message_key
  BY <1>1 DEF ReceivedInOrder, BehindReceiver
<1>5. peers[j] \in Range(peers) /\ peers[j] \notin Range(received[p])
  BY <1>3, <1>4, RangeOfSequence
<1>6. \A l \in DOMAIN r.skipped_message_keys :
         key.message_key = r.skipped_message_keys[l].message_key => i = l
  BY <1>1 DEF SkippedInOrder
<1> QED BY <1>2, <1>3, <1>5, <1>6

(* Every skipped key a party keeps is the key of exactly one message that  *)
(* was really sent to it and that it has not decrypted, and none is kept   *)
(* twice.                                                                  *)
THEOREM SpecSkippedKeysAreOwed == Spec => []SkippedKeysAreOwed
<1>1. Spec => []IInv
  BY Invariance
<1>2. Init => AllNumbered
  BY InitNumbered
<1>3. IInv /\ AllNumbered /\ [Next]_vars => AllNumbered'
  BY NextNumbered
<1>4. IInv /\ AllNumbered => SkippedKeysAreOwed
  BY NumberedAreOwed
<1> QED BY <1>1, <1>2, <1>3, <1>4, PTL DEF Spec

-----------------------------------------------------------------------------
(***************************************************************************)
(* Messages are lost to the limits only (LostOnlyToLimits, NothingLost).   *)
(*                                                                         *)
(* A message that was passed over keeps its skipped key until that many    *)
(* other keys have been put in front of it, and its chain stays in the     *)
(* list until that many newer ones have come.  "That many" is said with an *)
(* injection, which needs no cardinality until the end.                    *)
(***************************************************************************)
AtLeast(S, n) == ExistsInjection(1 .. n, S)

LEMMA AtLeastByIndex ==
    ASSUME NEW S, NEW n, NEW f \in [1 .. n -> S],
           \A i, j \in 1 .. n : f[i] = f[j] => i = j
    PROVE  AtLeast(S, n)
<1>1. f \in Injection(1 .. n, S)
  BY DEF Injection, IsInjective
<1> QED BY <1>1 DEF AtLeast, ExistsInjection

LEMMA AtLeastMore ==
    ASSUME NEW S, NEW T, NEW n, S \subseteq T, AtLeast(S, n)
    PROVE  AtLeast(T, n)
<1>1. PICK f \in Injection(1 .. n, S) : TRUE
  BY DEF AtLeast, ExistsInjection
<1>2. f \in Injection(1 .. n, T)
  BY <1>1 DEF Injection, IsInjective
<1> QED BY <1>2 DEF AtLeast, ExistsInjection

LEMMA AtLeastCounted ==
    ASSUME NEW S, IsFiniteSet(S), NEW n \in Nat, AtLeast(S, n)
    PROVE  Cardinality(S) >= n
<1>1. PICK f \in Injection(1 .. n, S) : TRUE
  BY DEF AtLeast, ExistsInjection
<1>2. Cardinality(1 .. n) <= Cardinality(S)
  BY <1>1, FS_Injection
<1>3. Cardinality(1 .. n) = n
  BY FS_Interval
<1>4. Cardinality(S) \in Nat
  BY FS_CardinalityType
<1> QED BY <1>2, <1>3, <1>4

LEMMA RangeIsFinite ==
    ASSUME NEW S, NEW s \in Seq(S)
    PROVE  IsFiniteSet(Range(s)) /\ Cardinality(Range(s)) <= Len(s)
<1>1. /\ Len(s) \in Nat /\ DOMAIN s = 1 .. Len(s)
      /\ IsFiniteSet(1 .. Len(s)) /\ Cardinality(1 .. Len(s)) = Len(s)
  <2>1. Len(s) \in Nat /\ DOMAIN s = 1 .. Len(s)
    OBVIOUS
  <2> QED BY <2>1, FS_Interval
<1>2. s \in [1 .. Len(s) -> Range(s)]
  BY <1>1 DEF Range
<1>3. s \in Surjection(1 .. Len(s), Range(s))
  BY <1>1, <1>2 DEF Surjection, Range
<1> QED BY <1>1, <1>3, FS_Surjection

(* Two prefixes of the same path are prefixes of each other.               *)
LEMMA PrefixesOfOne ==
    ASSUME NEW S, NEW a \in Seq(S), NEW b \in Seq(S), NEW c \in Seq(S),
           IsPrefix(a, c), IsPrefix(b, c), Len(a) < Len(b)
    PROVE  IsStrictPrefix(a, b)
<1>1. /\ Len(a) \in Nat /\ Len(b) \in Nat /\ Len(c) \in Nat
      /\ Len(b) <= Len(c) /\ Len(a) < Len(b)
      /\ SubSeq(a, 1, Len(a)) = SubSeq(c, 1, Len(a))
      /\ SubSeq(b, 1, Len(b)) = SubSeq(c, 1, Len(b))
  BY DEF IsPrefix
<1>2. b = SubSeq(c, 1, Len(b))
  BY <1>1
<1>3. SubSeq(SubSeq(c, 1, Len(b)), 1, Len(a)) = SubSeq(c, 1, Len(a))
  BY <1>1
<1>4. SubSeq(b, 1, Len(a)) = SubSeq(c, 1, Len(a))
  BY <1>2, <1>3
<1> QED BY <1>1, <1>4 DEF IsStrictPrefix, IsPrefix

-----------------------------------------------------------------------------
(* A ratchet key is of one chain of its owner, and there is one chain for  *)
(* every root key of that length.                                          *)
SameName(k, c, l, d) == k = l \/ Len(c) = Len(d) => k = l /\ c = d

OneName(names) == \A x, y \in names : SameName(x[1], x[2], y[1], y[2])

Names(messages, sending, receiving) ==
    {<<messages[i].ratchet_key, messages[i].mac_key.chain>> : i \in DOMAIN messages}
    \cup {<<sending[i].ratchet_key, sending[i].chain_key.chain>> : i \in DOMAIN sending}
    \cup {<<receiving[i].ratchet_key, receiving[i].chain_key.chain>> : i \in DOMAIN receiving}

Named(p) ==
    OneName(Names(sent[p], ratchet[p].sender_chain, ratchet[Peer(p)].receiver_chains))

LEMMA NamesAgree ==
    ASSUME NEW messages, NEW sending, NEW receiving,
           OneName(Names(messages, sending, receiving))
    PROVE  /\ \A i, j \in DOMAIN messages :
                 SameName(messages[i].ratchet_key, messages[i].mac_key.chain,
                          messages[j].ratchet_key, messages[j].mac_key.chain)
           /\ \A i \in DOMAIN messages : \A j \in DOMAIN receiving :
                 SameName(messages[i].ratchet_key, messages[i].mac_key.chain,
                          receiving[j].ratchet_key, receiving[j].chain_key.chain)
           /\ \A i, j \in DOMAIN receiving :
                 SameName(receiving[i].ratchet_key, receiving[i].chain_key.chain,
                          receiving[j].ratchet_key, receiving[j].chain_key.chain)
<1> DEFINE names == Names(messages, sending, receiving)
<1>1. /\ \A i \in DOMAIN messages :
            <<messages[i].ratchet_key, messages[i].mac_key.chain>> \in names
      /\ \A i \in DOMAIN receiving :
            <<receiving[i].ratchet_key, receiving[i].chain_key.chain>> \in names
  BY Zenon DEF Names
<1>2. \A x, y \in names : SameName(x[1], x[2], y[1], y[2])
  BY DEF OneName
<1> HIDE DEF names, SameName
<1>3. \A i, j \in DOMAIN messages :
         SameName(messages[i].ratchet_key, messages[i].mac_key.chain,
                  messages[j].ratchet_key, messages[j].mac_key.chain)
  BY <1>1, <1>2
<1>4. \A i \in DOMAIN messages : \A j \in DOMAIN receiving :
         SameName(messages[i].ratchet_key, messages[i].mac_key.chain,
                  receiving[j].ratchet_key, receiving[j].chain_key.chain)
  BY <1>1, <1>2
<1>5. \A i, j \in DOMAIN receiving :
         SameName(receiving[i].ratchet_key, receiving[i].chain_key.chain,
                  receiving[j].ratchet_key, receiving[j].chain_key.chain)
  BY <1>1, <1>2
<1> QED BY <1>3, <1>4, <1>5

LEMMA OneMoreName ==
    ASSUME NEW names, NEW name, OneName(names),
           \/ name \in names
           \/ \A x \in names : x[1] # name[1] /\ Len(x[2]) # Len(name[2])
    PROVE  OneName(names \cup {name})
<1>1. ASSUME NEW x \in names \cup {name}, NEW y \in names \cup {name}
      PROVE  SameName(x[1], x[2], y[1], y[2])
  <2>1. CASE x \in names /\ y \in names
    BY <2>1 DEF OneName
  <2>2. CASE x = y
    BY <2>2 DEF SameName
  <2>3. CASE name \notin names /\ x # y /\ x \in names /\ y = name
    BY <2>3 DEF SameName
  <2>4. CASE name \notin names /\ x # y /\ x = name /\ y \in names
    BY <2>4 DEF SameName
  <2> QED BY <2>1, <2>2, <2>3, <2>4
<1> QED BY <1>1 DEF OneName

LEMMA FewerNames ==
    ASSUME NEW names, NEW more, names \subseteq more, OneName(more)
    PROVE  OneName(names)
  BY DEF OneName

(* Encryption uses the newest name or makes a new one.                     *)
LEMMA EncryptNames ==
    ASSUME NEW p \in Party, NEW r, NEW s, WellFormed(r), WellFormed(s),
           NEW k \in RatchetKey, NEW n \in Nat, NEW messages \in Seq(Message),
           OneName(Names(messages, r.sender_chain, s.receiver_chains)),
           ChainsInOrder(s, Peer(p)), SentInOrder(r, p, messages),
           r.sender_chain = <<>> => Level(r, s),
           \A i \in DOMAIN messages : messages[i].ratchet_key # k,
           \A i \in DOMAIN s.receiver_chains : s.receiver_chains[i].ratchet_key # k
    PROVE  OneName(Names(Append(messages, EncryptedMessage(r, k, n)),
                         AfterEncrypt(r, k).sender_chain, s.receiver_chains))
<1> DEFINE e == AfterEncrypt(r, k)
           m == EncryptedMessage(r, k, n)
           more == Append(messages, m)
           old == Names(messages, r.sender_chain, s.receiver_chains)
           name == <<m.ratchet_key, m.mac_key.chain>>
<1>1. /\ m \in Message
      /\ WellFormed(e)
      /\ e.sender_chain # <<>>
      /\ e.sender_chain[1].ratchet_key = m.ratchet_key
      /\ e.sender_chain[1].chain_key.chain = m.mac_key.chain
      /\ r.sender_chain # <<>> => /\ m.ratchet_key = r.sender_chain[1].ratchet_key
                                  /\ m.mac_key.chain = r.sender_chain[1].chain_key.chain
      /\ r.sender_chain = <<>> =>
            /\ m.ratchet_key = k
            /\ m.mac_key.chain = Append(r.root_key, {k, r.receiver_chains[1].ratchet_key})
  <2>1. CASE r.sender_chain # <<>>
    BY <2>1, EncryptOnChain
  <2>2. CASE r.sender_chain = <<>>
    <3> DEFINE root == Append(r.root_key, {k, r.receiver_chains[1].ratchet_key})
    <3>1. /\ m \in Message
          /\ WellFormed(e)
          /\ e.sender_chain # <<>>
          /\ e.sender_chain[1].ratchet_key = k
          /\ e.sender_chain[1].chain_key.chain = root
          /\ m.ratchet_key = k
          /\ m.mac_key.chain = root
      BY <2>2, EncryptNewChain
    <3> HIDE DEF root, e, m
    <3> QED BY <2>2, <3>1 DEF root
  <2> QED BY <2>1, <2>2
<1> HIDE DEF e, m
<1>2. DOMAIN e.sender_chain = {1}
  <2>1. e.sender_chain \in Seq(Chain) /\ Len(e.sender_chain) <= 1
    BY <1>1 DEF WellFormed, RatchetState
  <2> QED BY <1>1, <2>1
<1>3. \A i \in DOMAIN more : more[i] = m \/ (i \in DOMAIN messages /\ more[i] = messages[i])
  OBVIOUS
<1> HIDE DEF more
<1>4. Names(more, e.sender_chain, s.receiver_chains) \subseteq old \cup {name}
  <2> SUFFICES ASSUME NEW x \in Names(more, e.sender_chain, s.receiver_chains)
               PROVE  x \in old \/ x = name
    OBVIOUS
  <2>1. ASSUME NEW i \in DOMAIN more, x = <<more[i].ratchet_key, more[i].mac_key.chain>>
        PROVE  x \in old \/ x = name
    BY <1>3, <2>1 DEF Names
  <2>2. ASSUME NEW i \in DOMAIN e.sender_chain,
               x = <<e.sender_chain[i].ratchet_key, e.sender_chain[i].chain_key.chain>>
        PROVE  x = name
    BY <1>1, <1>2, <2>2
  <2>3. ASSUME NEW i \in DOMAIN s.receiver_chains,
               x = <<s.receiver_chains[i].ratchet_key, s.receiver_chains[i].chain_key.chain>>
        PROVE  x \in old
    BY <2>3 DEF Names
  <2> QED BY <2>1, <2>2, <2>3 DEF Names
<1>5. ASSUME r.sender_chain # <<>>
      PROVE  name \in old
  <2>1. 1 \in DOMAIN r.sender_chain
    BY <1>5 DEF WellFormed, RatchetState
  <2> QED BY <1>1, <1>5, <2>1 DEF Names
<1>6. ASSUME r.sender_chain = <<>>, NEW x \in old
      PROVE  x[1] # name[1] /\ Len(x[2]) # Len(name[2])
  <2>1. Len(m.mac_key.chain) = Len(r.root_key) + 1 /\ Len(r.root_key) \in Nat
    <3>1. r.root_key \in RootKey /\ Len(r.root_key) \in Nat
      BY RatchetFields
    <3> QED BY <1>1, <1>6, <3>1 DEF RootKey
  <2>2. ASSUME NEW i \in DOMAIN messages,
               x = <<messages[i].ratchet_key, messages[i].mac_key.chain>>
        PROVE  x[1] # name[1] /\ Len(x[2]) # Len(name[2])
    <3>1. Len(messages[i].mac_key.chain) < Len(r.root_key)
      BY <1>6 DEF SentInOrder, BehindSender
    <3>2. Len(messages[i].mac_key.chain) \in Nat
      BY ChainFields
    <3> QED BY <1>1, <1>6, <2>1, <2>2, <3>1, <3>2
  <2>3. ASSUME NEW i \in DOMAIN s.receiver_chains,
               x = <<s.receiver_chains[i].ratchet_key, s.receiver_chains[i].chain_key.chain>>
        PROVE  x[1] # name[1] /\ Len(x[2]) # Len(name[2])
    <3>1. /\ Len(s.receiver_chains[i].chain_key.chain) <= Len(s.root_key)
          /\ s.root_key = r.root_key
      BY <1>6 DEF ChainsInOrder, Level
    <3>2. Len(s.receiver_chains[i].chain_key.chain) \in Nat
      BY RatchetFields, ChainFields
    <3> QED BY <1>1, <1>6, <2>1, <2>3, <3>1, <3>2
  <2>4. DOMAIN r.sender_chain = {}
    BY <1>6
  <2> QED BY <2>2, <2>3, <2>4 DEF Names
<1> HIDE DEF old, name
<1>7. OneName(old)
  BY DEF old
<1>8. name \in old \/ \A x \in old : x[1] # name[1] /\ Len(x[2]) # Len(name[2])
  BY <1>5, <1>6
<1>9. OneName(old \cup {name})
  BY <1>7, <1>8, OneMoreName
<1> QED BY <1>4, <1>9, FewerNames DEF e, m, more

(* Decryption takes over a name from the message, or forgets one.          *)
LEMMA DecryptChains ==
    ASSUME NEW r, WellFormed(r), NEW m \in Message, Decrypts(r, m)
    PROVE  LET e == AfterDecrypt(r, m)
           IN  /\ WellFormed(e)
               /\ e.sender_chain = r.sender_chain \/ e.sender_chain = <<>>
               /\ \A j \in DOMAIN e.receiver_chains :
                     \/ /\ e.receiver_chains[j].ratchet_key = m.ratchet_key
                        /\ e.receiver_chains[j].chain_key.chain = m.mac_key.chain
                        /\ ~AlreadyAdvanced(r, m)
                        /\ e.receiver_chains[j].chain_key.index = m.counter + 1
                     \/ \E l \in DOMAIN r.receiver_chains :
                           e.receiver_chains[j] = r.receiver_chains[l]
<1> DEFINE e == AfterDecrypt(r, m)
<1>1. ASSUME AlreadyAdvanced(r, m)
      PROVE  /\ WellFormed(e)
             /\ e.sender_chain = r.sender_chain
             /\ e.receiver_chains = r.receiver_chains
  BY <1>1, DecryptSkipped
<1>2. ASSUME HasReceiverChain(r, m.ratchet_key), ~AlreadyAdvanced(r, m)
      PROVE  /\ WellFormed(e)
             /\ e.sender_chain = r.sender_chain
             /\ \A j \in DOMAIN e.receiver_chains :
                   \/ /\ e.receiver_chains[j].ratchet_key = m.ratchet_key
                      /\ e.receiver_chains[j].chain_key.chain = m.mac_key.chain
                      /\ e.receiver_chains[j].chain_key.index = m.counter + 1
                   \/ \E l \in DOMAIN r.receiver_chains :
                         e.receiver_chains[j] = r.receiver_chains[l]
  <2> DEFINE i == ReceiverChain(r, m.ratchet_key)
  <2>1. /\ WellFormed(e)
        /\ e.sender_chain = r.sender_chain
        /\ Len(e.receiver_chains) = Len(r.receiver_chains)
        /\ \A j \in 1 .. Len(r.receiver_chains) :
              j # i => e.receiver_chains[j] = r.receiver_chains[j]
        /\ e.receiver_chains[i].ratchet_key = m.ratchet_key
        /\ e.receiver_chains[i].chain_key.chain = r.receiver_chains[i].chain_key.chain
        /\ e.receiver_chains[i].chain_key.index = m.counter + 1
        /\ m.mac_key.chain = r.receiver_chains[i].chain_key.chain
    BY <1>2, DecryptOnKnownChain
  <2> HIDE DEF e, i
  <2>2. /\ DOMAIN e.receiver_chains = 1 .. Len(r.receiver_chains)
        /\ DOMAIN r.receiver_chains = 1 .. Len(r.receiver_chains)
    BY <2>1, RatchetFields
  <2> QED BY <2>1, <2>2
<1>3. ASSUME ~HasReceiverChain(r, m.ratchet_key)
      PROVE  /\ WellFormed(e)
             /\ e.sender_chain = <<>>
             /\ \A j \in DOMAIN e.receiver_chains :
                   \/ /\ e.receiver_chains[j].ratchet_key = m.ratchet_key
                      /\ e.receiver_chains[j].chain_key.chain = m.mac_key.chain
                      /\ e.receiver_chains[j].chain_key.index = m.counter + 1
                   \/ \E l \in DOMAIN r.receiver_chains :
                         e.receiver_chains[j] = r.receiver_chains[l]
  <2> DEFINE root == Append(r.root_key, {r.sender_chain[1].ratchet_key, m.ratchet_key})
  <2>1. /\ WellFormed(e)
        /\ e.sender_chain = <<>>
        /\ Len(e.receiver_chains) \in 1 .. Len(r.receiver_chains) + 1
        /\ \A j \in 2 .. Len(e.receiver_chains) :
              e.receiver_chains[j] = r.receiver_chains[j - 1]
        /\ e.receiver_chains[1].ratchet_key = m.ratchet_key
        /\ e.receiver_chains[1].chain_key.chain = root
        /\ e.receiver_chains[1].chain_key.index = m.counter + 1
        /\ m.mac_key.chain = root
    BY <1>3, DecryptOnNewChain
  <2> HIDE DEF e, root
  <2>2. /\ DOMAIN e.receiver_chains = 1 .. Len(e.receiver_chains)
        /\ DOMAIN r.receiver_chains = 1 .. Len(r.receiver_chains)
        /\ Len(r.receiver_chains) \in Nat
    BY <2>1, RatchetFields
  <2>3. ASSUME NEW j \in DOMAIN e.receiver_chains, j # 1
        PROVE  j \in 2 .. Len(e.receiver_chains) /\ j - 1 \in DOMAIN r.receiver_chains
    BY <2>1, <2>2, <2>3
  <2> QED BY <2>1, <2>3
<1>4. ~HasReceiverChain(r, m.ratchet_key) => ~AlreadyAdvanced(r, m)
  BY DEF AlreadyAdvanced
<1> HIDE DEF e
<1> QED BY <1>1, <1>2, <1>3, <1>4 DEF e

LEMMA DecryptNames ==
    ASSUME NEW r, WellFormed(r), NEW peers, NEW l \in DOMAIN peers, peers[l] \in Message,
           Decrypts(r, peers[l]), NEW sending,
           OneName(Names(peers, sending, r.receiver_chains))
    PROVE  OneName(Names(peers, sending, AfterDecrypt(r, peers[l]).receiver_chains))
<1> DEFINE e == AfterDecrypt(r, peers[l])
           old == Names(peers, sending, r.receiver_chains)
<1>1. \A j \in DOMAIN e.receiver_chains :
         \/ /\ e.receiver_chains[j].ratchet_key = peers[l].ratchet_key
            /\ e.receiver_chains[j].chain_key.chain = peers[l].mac_key.chain
         \/ \E i \in DOMAIN r.receiver_chains :
               e.receiver_chains[j] = r.receiver_chains[i]
  BY DecryptChains
<1> HIDE DEF e
<1>2. Names(peers, sending, e.receiver_chains) \subseteq old
  <2> SUFFICES ASSUME NEW j \in DOMAIN e.receiver_chains
               PROVE  <<e.receiver_chains[j].ratchet_key,
                        e.receiver_chains[j].chain_key.chain>> \in old
    BY DEF Names
  <2> QED BY <1>1 DEF Names
<1> QED BY <1>2, FewerNames DEF e

-----------------------------------------------------------------------------
(* Newer chains are in front of older ones, and on all but the last some   *)
(* message was received.  A chain is missing only when none was needed yet *)
(* or enough newer ones have been received on.                             *)
NewerIn(messages, m) ==
    {n.ratchet_key : n \in {l \in Range(messages) :
                              IsStrictPrefix(m.mac_key.chain, l.mac_key.chain)}}

ReceivedOn(messages, chain) ==
    \E l \in DOMAIN messages : /\ messages[l].ratchet_key = chain.ratchet_key
                               /\ messages[l].mac_key.chain = chain.chain_key.chain

NewestChainFirst(r) ==
    \A i, j \in DOMAIN r.receiver_chains :
        i < j => Len(r.receiver_chains[j].chain_key.chain)
                   < Len(r.receiver_chains[i].chain_key.chain)

ChainsUsed(r, messages) ==
    \A i \in DOMAIN r.receiver_chains :
        i < Len(r.receiver_chains) => ReceivedOn(messages, r.receiver_chains[i])

ChainKept(r, m, messages) ==
    Len(m.mac_key.chain) <= Len(r.root_key) =>
        \/ HasReceiverChain(r, m.ratchet_key)
        \/ AtLeast(NewerIn(messages, m), OLM_MAX_RECEIVER_CHAINS)

ChainsKept(r, peers, messages) ==
    /\ NewestChainFirst(r)
    /\ ChainsUsed(r, messages)
    /\ \A l \in DOMAIN peers : ChainKept(r, peers[l], messages)

LEMMA NewerInMore ==
    ASSUME NEW messages \in Seq(Message), NEW x, NEW m
    PROVE  NewerIn(messages, m) \subseteq NewerIn(Append(messages, x), m)
<1>1. Range(messages) \subseteq Range(Append(messages, x))
  BY DEF Range
<1> QED BY <1>1, Zenon DEF NewerIn

LEMMA ReceivedOnMore ==
    ASSUME NEW messages \in Seq(Message), NEW x, NEW chain, ReceivedOn(messages, chain)
    PROVE  ReceivedOn(Append(messages, x), chain)
<1>1. \A l \in DOMAIN messages : l \in DOMAIN Append(messages, x)
                                 /\ Append(messages, x)[l] = messages[l]
  OBVIOUS
<1> QED BY <1>1, Zenon DEF ReceivedOn

(* A party's own encryption makes its root key at most one longer, and no  *)
(* chain of the peer is of that length.                                    *)
LEMMA EncryptChainsKept ==
    ASSUME NEW p \in Party, NEW r, WellFormed(r), NEW k \in RatchetKey,
           ChainsInOrder(r, p),
           NEW peers, \A l \in DOMAIN peers : /\ peers[l] \in Message
                                              /\ IsChainOf(peers[l].mac_key.chain, Peer(p)),
           NEW messages, ChainsKept(r, peers, messages)
    PROVE  ChainsKept(AfterEncrypt(r, k), peers, messages)
<1> DEFINE e == AfterEncrypt(r, k)
<1>1. /\ Peer(p) \in Party /\ Peer(Peer(p)) = p
      /\ r.root_key \in RootKey /\ Len(r.root_key) \in Nat
  BY PeerIsParty, RatchetFields
<1>2. CASE r.sender_chain # <<>>
  <2>1. /\ e.root_key = r.root_key
        /\ e.receiver_chains = r.receiver_chains
    BY <1>2, EncryptOnChain
  <2> HIDE DEF e
  <2> QED BY <2>1 DEF ChainsKept, NewestChainFirst, ChainsUsed, ChainKept,
                      HasReceiverChain, e
<1>3. CASE r.sender_chain = <<>>
  <2> DEFINE secret == {k, r.receiver_chains[1].ratchet_key}
  <2>1. /\ e.root_key = Append(r.root_key, secret)
        /\ e.receiver_chains = r.receiver_chains
    BY <1>3, EncryptNewChain DEFS RootKey
  <2>2. IsChainOf(r.root_key, Peer(p))
    BY <1>3 DEF ChainsInOrder
  <2> HIDE DEF e, secret
  <2>3. /\ Len(e.root_key) = Len(r.root_key) + 1
        /\ IsChainOf(e.root_key, p)
    <3> DEFINE q == Peer(p)
    <3>1. q \in Party /\ Peer(q) = p /\ IsChainOf(r.root_key, q)
      BY <1>1, <2>2
    <3> HIDE DEF q
    <3> QED BY <1>1, <2>1, <3>1, ChainAlternates
  <2>4. ASSUME NEW l \in DOMAIN peers, Len(peers[l].mac_key.chain) <= Len(e.root_key)
        PROVE  Len(peers[l].mac_key.chain) <= Len(r.root_key)
    <3>1. Len(peers[l].mac_key.chain) \in Nat /\ peers[l].mac_key.chain \in RootKey
      BY ChainFields
    <3>2. IsChainOf(peers[l].mac_key.chain, Peer(p))
      OBVIOUS
    <3>3. ~IsChainOf(peers[l].mac_key.chain, p)
      BY <1>1, <3>1, <3>2, ChainAlternates
    <3>4. Len(peers[l].mac_key.chain) # Len(e.root_key)
      BY <2>3, <3>3 DEF IsChainOf
    <3> QED BY <1>1, <2>3, <2>4, <3>1, <3>4
  <2>5. \A l \in DOMAIN peers : ChainKept(e, peers[l], messages)
    BY <2>1, <2>4 DEF ChainsKept, ChainKept, HasReceiverChain
  <2>6. NewestChainFirst(e) /\ ChainsUsed(e, messages)
    BY <2>1 DEF ChainsKept, NewestChainFirst, ChainsUsed
  <2> QED BY <2>5, <2>6 DEF ChainsKept, e
<1> QED BY <1>2, <1>3

(* The peer encrypts on the newest chain or on one that is not known yet.  *)
LEMMA MoreChainsKept ==
    ASSUME NEW r, NEW peers \in Seq(Message), NEW m, NEW messages,
           ChainsKept(r, peers, messages),
           Len(m.mac_key.chain) <= Len(r.root_key) => HasReceiverChain(r, m.ratchet_key)
    PROVE  ChainsKept(r, Append(peers, m), messages)
<1>1. \A l \in DOMAIN Append(peers, m) :
         \/ Append(peers, m)[l] = m
         \/ l \in DOMAIN peers /\ Append(peers, m)[l] = peers[l]
  OBVIOUS
<1>2. ChainKept(r, m, messages)
  BY DEF ChainKept
<1> QED BY <1>1, <1>2 DEF ChainsKept

(* A chain that falls off the list was the oldest of as many as fit, and   *)
(* on all that are there instead messages have been received.              *)
LEMMA DecryptChainsKept ==
    ASSUME NEW p, NEW r, WellFormed(r), NEW peers, NEW sending,
           NEW m \in Message, Decrypts(r, m),
           NEW l0 \in DOMAIN peers, m = peers[l0],
           \A l \in DOMAIN peers : peers[l] \in Message,
           NEW messages \in Seq(Message),
           ChainsInOrder(r, p),
           OneName(Names(peers, sending, r.receiver_chains)),
           OnThePath(r, messages),
           ChainsKept(r, peers, messages)
    PROVE  ChainsKept(AfterDecrypt(r, m), peers, Append(messages, m))
<1> DEFINE e == AfterDecrypt(r, m)
           all == Append(messages, m)
<1>1. /\ NewestChainFirst(r)
      /\ ChainsUsed(r, messages)
      /\ \A l \in DOMAIN peers : ChainKept(r, peers[l], messages)
  BY DEF ChainsKept
<1>2. \A chain : ReceivedOn(messages, chain) => ReceivedOn(all, chain)
  BY ReceivedOnMore
<1>3. \A x : AtLeast(NewerIn(messages, x), OLM_MAX_RECEIVER_CHAINS)
               => AtLeast(NewerIn(all, x), OLM_MAX_RECEIVER_CHAINS)
  BY NewerInMore, AtLeastMore
<1>4. /\ DOMAIN r.receiver_chains = 1 .. Len(r.receiver_chains)
      /\ Len(r.receiver_chains) \in Nat
      /\ \A j \in DOMAIN r.receiver_chains :
            Len(r.receiver_chains[j].chain_key.chain) \in Nat
      /\ Len(r.root_key) \in Nat /\ r.root_key \in RootKey
      /\ Len(r.receiver_chains) <= OLM_MAX_RECEIVER_CHAINS
  BY RatchetFields, ChainFields DEF WellFormed
<1>5. WellFormed(e) /\ DOMAIN e.receiver_chains = 1 .. Len(e.receiver_chains)
      /\ Len(e.receiver_chains) \in Nat
  BY DecryptChains, RatchetFields
<1>6. ASSUME e.root_key = r.root_key,
             DOMAIN e.receiver_chains = DOMAIN r.receiver_chains,
             Len(e.receiver_chains) = Len(r.receiver_chains),
             \A j \in DOMAIN r.receiver_chains :
                /\ e.receiver_chains[j].ratchet_key = r.receiver_chains[j].ratchet_key
                /\ e.receiver_chains[j].chain_key.chain = r.receiver_chains[j].chain_key.chain
      PROVE  ChainsKept(e, peers, all)
  <2> HIDE DEF e, all
  <2>1. NewestChainFirst(e)
    BY <1>1, <1>6 DEF NewestChainFirst
  <2>2. ChainsUsed(e, all)
    <3>1. \A j \in DOMAIN r.receiver_chains :
             ReceivedOn(all, r.receiver_chains[j]) => ReceivedOn(all, e.receiver_chains[j])
      BY <1>6 DEF ReceivedOn
    <3> QED BY <1>1, <1>2, <1>6, <3>1 DEF ChainsUsed
  <2>3. ASSUME NEW l \in DOMAIN peers
        PROVE  ChainKept(e, peers[l], all)
    <3>1. HasReceiverChain(r, peers[l].ratchet_key)
            => HasReceiverChain(e, peers[l].ratchet_key)
      BY <1>6 DEF HasReceiverChain
    <3> QED BY <1>1, <1>3, <1>6, <3>1 DEF ChainKept
  <2> QED BY <2>1, <2>2, <2>3 DEF ChainsKept
<1>7. ASSUME AlreadyAdvanced(r, m)
      PROVE  ChainsKept(e, peers, all)
  <2>1. e.root_key = r.root_key /\ e.receiver_chains = r.receiver_chains
    BY <1>7, DecryptSkipped
  <2> HIDE DEF e, all
  <2> QED BY <1>6, <2>1
<1>8. ASSUME HasReceiverChain(r, m.ratchet_key), ~AlreadyAdvanced(r, m)
      PROVE  ChainsKept(e, peers, all)
  <2> DEFINE i == ReceiverChain(r, m.ratchet_key)
  <2>1. /\ e.root_key = r.root_key
        /\ Len(e.receiver_chains) = Len(r.receiver_chains)
        /\ \A j \in 1 .. Len(r.receiver_chains) :
              j # i => e.receiver_chains[j] = r.receiver_chains[j]
        /\ e.receiver_chains[i].ratchet_key = m.ratchet_key
        /\ e.receiver_chains[i].chain_key.chain = r.receiver_chains[i].chain_key.chain
        /\ r.receiver_chains[i].ratchet_key = m.ratchet_key
    BY <1>8, DecryptOnKnownChain
  <2> HIDE DEF e, all, i
  <2> QED BY <1>4, <1>5, <1>6, <2>1
<1>9. ASSUME ~HasReceiverChain(r, m.ratchet_key)
      PROVE  ChainsKept(e, peers, all)
  <2> DEFINE root == Append(r.root_key, {r.sender_chain[1].ratchet_key, m.ratchet_key})
             n == Len(e.receiver_chains)
  <2>1. /\ e.root_key = root
        /\ n \in 1 .. Len(r.receiver_chains) + 1
        /\ n = IF Len(r.receiver_chains) < OLM_MAX_RECEIVER_CHAINS
                 THEN Len(r.receiver_chains) + 1 ELSE Len(r.receiver_chains)
        /\ \A j \in 2 .. n : e.receiver_chains[j] = r.receiver_chains[j - 1]
        /\ e.receiver_chains[1].ratchet_key = m.ratchet_key
        /\ e.receiver_chains[1].chain_key.chain = root
        /\ root \in RootKey
        /\ m.mac_key.chain = root
    BY <1>9, DecryptOnNewChain
  <2>2. Len(root) = Len(r.root_key) + 1
    BY <1>4 DEF RootKey
  <2>3. OnThePath(e, all)
    BY DecryptOnThePath
  <2> HIDE DEF e, root
  <2>4. \A j \in 2 .. n : j - 1 \in DOMAIN r.receiver_chains /\ j \in DOMAIN e.receiver_chains
    BY <1>4, <1>5, <2>1
  <2>5. \A j \in 1 .. n : j = 1 \/ j \in 2 .. n
    BY <1>5
  <2>6. \A j \in DOMAIN r.receiver_chains :
           Len(r.receiver_chains[j].chain_key.chain) <= Len(r.root_key)
    BY DEF ChainsInOrder
  <2>7. NewestChainFirst(e)
    <3> SUFFICES ASSUME NEW i \in 1 .. n, NEW j \in 1 .. n, i < j
                 PROVE  Len(e.receiver_chains[j].chain_key.chain)
                          < Len(e.receiver_chains[i].chain_key.chain)
      BY <1>5 DEF NewestChainFirst
    <3>1. j \in 2 .. n /\ j - 1 \in DOMAIN r.receiver_chains
          /\ e.receiver_chains[j] = r.receiver_chains[j - 1]
      BY <1>5, <2>1, <2>4
    <3>2. CASE i = 1
      <4>1. Len(e.receiver_chains[i].chain_key.chain) = Len(r.root_key) + 1
        BY <2>1, <2>2, <3>2
      <4>2. /\ Len(e.receiver_chains[j].chain_key.chain) <= Len(r.root_key)
            /\ Len(e.receiver_chains[j].chain_key.chain) \in Nat
        BY <1>4, <2>6, <3>1
      <4> QED BY <1>4, <4>1, <4>2
    <3>3. CASE i # 1
      <4>1. i \in 2 .. n /\ i - 1 \in DOMAIN r.receiver_chains /\ i - 1 < j - 1
            /\ e.receiver_chains[i] = r.receiver_chains[i - 1]
        BY <1>5, <2>1, <2>4, <3>3
      <4> QED BY <1>1, <3>1, <4>1 DEF NewestChainFirst
    <3> QED BY <3>2, <3>3
  <2>8. ReceivedOn(all, e.receiver_chains[1])
    <3>1. Len(messages) + 1 \in DOMAIN all /\ all[Len(messages) + 1] = m
      OBVIOUS
    <3> HIDE DEF all
    <3> QED BY <2>1, <3>1 DEF ReceivedOn
  <2> HIDE DEF all
  <2>9. ASSUME NEW j \in 1 .. n, j <= Len(r.receiver_chains)
        PROVE  ReceivedOn(all, e.receiver_chains[j])
    <3>1. CASE j = 1
      BY <2>8, <3>1
    <3>2. CASE j # 1
      <4>1. /\ e.receiver_chains[j] = r.receiver_chains[j - 1]
            /\ j - 1 \in DOMAIN r.receiver_chains
            /\ j - 1 < Len(r.receiver_chains)
        BY <1>4, <1>5, <2>1, <2>4, <2>9, <3>2
      <4> QED BY <1>1, <1>2, <4>1 DEF ChainsUsed
    <3> QED BY <3>1, <3>2
  <2>10. ChainsUsed(e, all)
    <3>1. \A j \in 1 .. n : j < n => j <= Len(r.receiver_chains)
      BY <1>4, <1>5, <2>1
    <3> QED BY <1>5, <2>9, <3>1 DEF ChainsUsed
  <2>11. ASSUME NEW l \in DOMAIN peers
         PROVE  ChainKept(e, peers[l], all)
    <3> DEFINE x == peers[l]
    <3>1. x \in Message /\ Len(x.mac_key.chain) \in Nat
      BY ChainFields
    <3>2. /\ SameName(x.ratchet_key, x.mac_key.chain, m.ratchet_key, m.mac_key.chain)
          /\ \A j \in DOMAIN r.receiver_chains :
                SameName(x.ratchet_key, x.mac_key.chain, r.receiver_chains[j].ratchet_key,
                         r.receiver_chains[j].chain_key.chain)
      <4> HIDE DEF SameName
      <4> QED BY NamesAgree
    <3> HIDE DEF x
    <3> SUFFICES ASSUME Len(x.mac_key.chain) <= Len(e.root_key),
                        ~HasReceiverChain(e, x.ratchet_key)
                 PROVE  AtLeast(NewerIn(all, x), OLM_MAX_RECEIVER_CHAINS)
      BY DEF ChainKept, x
    <3>3. Len(x.mac_key.chain) # Len(root)
      <4>1. x.ratchet_key # m.ratchet_key
        BY <1>5, <2>1 DEF HasReceiverChain
      <4> QED BY <2>1, <3>2, <4>1 DEF SameName
    <3>4. Len(x.mac_key.chain) <= Len(r.root_key)
      BY <1>4, <2>1, <2>2, <3>1, <3>3
    <3>5. CASE ~HasReceiverChain(r, x.ratchet_key)
      <4>1. ChainKept(r, x, messages)
        BY <1>1 DEF x
      <4> QED BY <1>3, <3>4, <3>5, <4>1 DEF ChainKept
    <3>6. CASE HasReceiverChain(r, x.ratchet_key)
      <4>1. PICK j \in DOMAIN r.receiver_chains :
               r.receiver_chains[j].ratchet_key = x.ratchet_key
        BY <3>6 DEF HasReceiverChain
      <4>2. x.mac_key.chain = r.receiver_chains[j].chain_key.chain
        BY <3>2, <4>1 DEF SameName
      <4>3. ~(j + 1 <= n)
        <5> SUFFICES ASSUME j + 1 <= n PROVE FALSE
          OBVIOUS
        <5>1. j + 1 \in 2 .. n /\ (j + 1) - 1 = j
          BY <1>4, <1>5
        <5>2. e.receiver_chains[j + 1] = r.receiver_chains[j] /\ j + 1 \in DOMAIN e.receiver_chains
          BY <2>1, <2>4, <5>1
        <5> QED BY <4>1, <5>2 DEF HasReceiverChain
      <4>4. /\ j = Len(r.receiver_chains)
            /\ n = Len(r.receiver_chains)
            /\ n = OLM_MAX_RECEIVER_CHAINS
        BY <1>4, <1>5, <2>1, <4>3, ReceiverChainsAssumption
      <4>5. ASSUME NEW i \in 1 .. n
            PROVE  /\ e.receiver_chains[i].ratchet_key \in NewerIn(all, x)
                   /\ \A h \in 1 .. n : e.receiver_chains[i].ratchet_key
                                          = e.receiver_chains[h].ratchet_key => i = h
        <5> DEFINE c == e.receiver_chains[i]
        <5>1. PICK d \in DOMAIN all : /\ all[d].ratchet_key = c.ratchet_key
                                      /\ all[d].mac_key.chain = c.chain_key.chain
          <6>1. i <= Len(r.receiver_chains)
            BY <1>4, <4>4
          <6> QED BY <2>9, <6>1 DEF ReceivedOn
        <5>2. Len(x.mac_key.chain) < Len(c.chain_key.chain)
          <6>1. CASE i = 1
            BY <1>4, <2>1, <2>2, <3>1, <3>4, <6>1
          <6>2. CASE i # 1
            <7>1. /\ c = r.receiver_chains[i - 1]
                  /\ i - 1 \in DOMAIN r.receiver_chains
                  /\ i - 1 < j
              BY <1>4, <1>5, <2>1, <2>4, <4>4, <6>2
            <7> HIDE DEF c
            <7> QED BY <1>1, <4>2, <7>1 DEF NewestChainFirst
          <6> QED BY <6>1, <6>2
        <5>3. IsStrictPrefix(x.mac_key.chain, c.chain_key.chain)
          <6>1. /\ x.mac_key.chain \in RootKey /\ c.chain_key.chain \in RootKey
                /\ e.root_key \in RootKey
            BY <1>5, <3>1, RatchetFields, ChainFields
          <6>2. IsPrefix(c.chain_key.chain, e.root_key)
            BY <1>5, <2>3 DEF OnThePath
          <6>3. IsPrefix(x.mac_key.chain, e.root_key)
            <7>1. IsPrefix(x.mac_key.chain, r.root_key)
              BY <4>2 DEF OnThePath
            <7>2. {r.sender_chain[1].ratchet_key, m.ratchet_key} \in {InitialSecret} \cup SUBSET RatchetKey
              <8>1. r.sender_chain[1] \in Chain
                BY <1>9, DecryptOnNewChain, RatchetFields
              <8> QED BY <8>1 DEF Chain, Message
            <7> DEFINE S == {InitialSecret} \cup SUBSET RatchetKey
            <7>3. RootKey = Seq(S)
              BY DEF RootKey
            <7> HIDE DEF S
            <7>4. e.root_key = Append(r.root_key, {r.sender_chain[1].ratchet_key, m.ratchet_key})
              BY <2>1 DEF root
            <7> DEFINE secret == {r.sender_chain[1].ratchet_key, m.ratchet_key}
            <7>5. x.mac_key.chain \in Seq(S) /\ r.root_key \in Seq(S) /\ secret \in S
              BY <1>4, <6>1, <7>2, <7>3 DEF S
            <7> HIDE DEF secret
            <7>6. IsPrefix(x.mac_key.chain, Append(r.root_key, secret))
              BY <7>1, <7>5, PrefixOfAppended
            <7> QED BY <7>4, <7>6 DEF secret
          <6> HIDE DEF c
          <6> QED BY <5>2, <6>1, <6>2, <6>3, PrefixesOfOne DEF RootKey
        <5>4. c.ratchet_key \in NewerIn(all, x)
          <6>1. all[d] \in Range(all)
            BY DEF Range
          <6> HIDE DEF c
          <6> QED BY <5>1, <5>3, <6>1 DEF NewerIn
        <5>5. ASSUME NEW h \in 1 .. n, c.ratchet_key = e.receiver_chains[h].ratchet_key
              PROVE  i = h
          <6>1. Len(c.chain_key.chain) = Len(e.receiver_chains[h].chain_key.chain)
            <7>1. OneName(Names(peers, sending, e.receiver_chains))
              BY DecryptNames DEF e
            <7>2. SameName(c.ratchet_key, c.chain_key.chain, e.receiver_chains[h].ratchet_key,
                           e.receiver_chains[h].chain_key.chain)
              <8> HIDE DEF SameName
              <8> QED BY <1>5, <7>1, NamesAgree
            <7> QED BY <5>5, <7>2 DEF SameName
          <6>2. /\ Len(c.chain_key.chain) \in Nat
                /\ Len(e.receiver_chains[h].chain_key.chain) \in Nat
            BY <1>5, RatchetFields, ChainFields
          <6> QED BY <1>5, <2>7, <6>1, <6>2 DEF NewestChainFirst
        <5> QED BY <5>4, <5>5
      <4> DEFINE f == [i \in 1 .. n |-> e.receiver_chains[i].ratchet_key]
      <4>6. f \in [1 .. n -> NewerIn(all, x)] /\ \A i, h \in 1 .. n : f[i] = f[h] => i = h
        BY <4>5
      <4> HIDE DEF f
      <4>7. AtLeast(NewerIn(all, x), n)
        BY <4>6, AtLeastByIndex
      <4> QED BY <4>4, <4>7
    <3> QED BY <3>5, <3>6
  <2> QED BY <2>7, <2>10, <2>11 DEF ChainsKept
<1> HIDE DEF e, all
<1>10. ~HasReceiverChain(r, m.ratchet_key) \/ AlreadyAdvanced(r, m)
       \/ (HasReceiverChain(r, m.ratchet_key) /\ ~AlreadyAdvanced(r, m))
  OBVIOUS
<1> QED BY <1>7, <1>8, <1>9, <1>10 DEF e, all

-----------------------------------------------------------------------------
(* A skipped key was passed over by a message that was received, and keys  *)
(* of one chain are stored newest first.  A message its chain is past that *)
(* was not received has its key in the list, or enough others have pushed  *)
(* it out.                                                                 *)
SkippedIn(messages, n) ==
    \E i \in DOMAIN messages : /\ messages[i].ratchet_key = n.ratchet_key
                               /\ messages[i].counter > n.counter
                               /\ \A j \in 1 .. i : messages[j] # n

SkippedBeside(peers, messages, m) ==
    {n \in Range(peers) \ {m} :
        /\ SkippedIn(messages, n)
        /\ n.ratchet_key = m.ratchet_key => n.counter > m.counter}

HasSkippedKey(r, ratchet_key, message_key) ==
    \E i \in DOMAIN r.skipped_message_keys :
        /\ r.skipped_message_keys[i].ratchet_key = ratchet_key
        /\ r.skipped_message_keys[i].message_key = message_key

NewestKeyFirst(r) ==
    \A i, j \in DOMAIN r.skipped_message_keys :
        /\ i < j
        /\ r.skipped_message_keys[i].ratchet_key = r.skipped_message_keys[j].ratchet_key
        => r.skipped_message_keys[j].message_key.index
             < r.skipped_message_keys[i].message_key.index

PassedOver(r, messages) ==
    \A i \in DOMAIN r.skipped_message_keys : \E l \in DOMAIN messages :
        /\ messages[l].ratchet_key = r.skipped_message_keys[i].ratchet_key
        /\ messages[l].counter > r.skipped_message_keys[i].message_key.index

KeyKept(r, peers, m, messages) ==
    m \notin Range(messages) /\ AlreadyAdvanced(r, m) =>
        \/ HasSkippedKey(r, m.ratchet_key, m.mac_key)
        \/ AtLeast(SkippedBeside(peers, messages, m), OLM_MAX_SKIPPED_MESSAGE_KEYS)

KeysKept(r, peers, messages) ==
    /\ NewestKeyFirst(r)
    /\ PassedOver(r, messages)
    /\ \A l \in DOMAIN peers : KeyKept(r, peers, peers[l], messages)

(* The list is full, and no key of that chain in it is as old as this.     *)
PushedOut(r, ratchet_key, n) ==
    /\ Len(r.skipped_message_keys) = OLM_MAX_SKIPPED_MESSAGE_KEYS
    /\ \A i \in DOMAIN r.skipped_message_keys :
          r.skipped_message_keys[i].ratchet_key = ratchet_key
            => r.skipped_message_keys[i].message_key.index > n

(* What a message sent to this party is like.                              *)
Numbering(peers) ==
    \A i \in DOMAIN peers :
        /\ peers[i] \in Message
        /\ peers[i].counter = peers[i].mac_key.index
        /\ \A j \in DOMAIN peers : i # j => peers[i].mac_key # peers[j].mac_key

LEMMA SkippedInMore ==
    ASSUME NEW messages \in Seq(Message), NEW x, NEW n, SkippedIn(messages, n)
    PROVE  SkippedIn(Append(messages, x), n)
<1> DEFINE all == Append(messages, x)
<1>1. \A i \in DOMAIN messages : /\ i \in DOMAIN all /\ all[i] = messages[i]
                                 /\ \A j \in 1 .. i : all[j] = messages[j]
  OBVIOUS
<1> HIDE DEF all
<1>2. PICK i \in DOMAIN messages : /\ messages[i].ratchet_key = n.ratchet_key
                                   /\ messages[i].counter > n.counter
                                   /\ \A j \in 1 .. i : messages[j] # n
  BY DEF SkippedIn
<1>3. i \in DOMAIN all /\ all[i] = messages[i] /\ \A j \in 1 .. i : all[j] = messages[j]
  BY <1>1
<1> QED BY <1>2, <1>3 DEF SkippedIn, all

LEMMA SkippedBesideMore ==
    ASSUME NEW messages \in Seq(Message), NEW x, NEW peers \in Seq(Message), NEW y, NEW m
    PROVE  /\ SkippedBeside(peers, messages, m)
                \subseteq SkippedBeside(peers, Append(messages, x), m)
           /\ SkippedBeside(peers, messages, m)
                \subseteq SkippedBeside(Append(peers, y), messages, m)
<1>1. Range(peers) \subseteq Range(Append(peers, y))
  BY DEF Range
<1>2. \A n : SkippedIn(messages, n) => SkippedIn(Append(messages, x), n)
  BY SkippedInMore
<1> QED BY <1>1, <1>2, Zenon DEF SkippedBeside

(* When the list is full of other keys, the messages they are for were     *)
(* skipped and have not come.                                              *)
LEMMA PushedOutByOthers ==
    ASSUME NEW p, NEW r, WellFormed(r), SkippedInOrder(r, p),
           NEW peers, Numbering(peers), SkippedWereSent(r, peers),
           NEW messages \in Seq(Message), ReceivedInOrder(r, messages, peers),
           PassedOver(r, messages),
           NEW m \in Message, PushedOut(r, m.ratchet_key, m.counter)
    PROVE  AtLeast(SkippedBeside(peers, messages, m), OLM_MAX_SKIPPED_MESSAGE_KEYS)
<1> DEFINE keys == r.skipped_message_keys
           n == OLM_MAX_SKIPPED_MESSAGE_KEYS
           Of(i, j) == /\ peers[j].ratchet_key = keys[i].ratchet_key
                       /\ peers[j].mac_key = keys[i].message_key
           f == [i \in 1 .. n |-> peers[CHOOSE j \in DOMAIN peers : Of(i, j)]]
<1>1. /\ DOMAIN keys = 1 .. n
      /\ \A i \in 1 .. n : keys[i] \in SkippedKey /\ keys[i].message_key.index \in Nat
      /\ m.counter \in Nat
  BY RatchetFields, ChainFields DEF PushedOut
<1>2. \A j \in DOMAIN peers : peers[j] \in Message /\ peers[j].counter = peers[j].mac_key.index
  BY DEF Numbering
<1>3. ASSUME NEW i \in 1 .. n
      PROVE  \E j \in DOMAIN peers : Of(i, j)
  <2>1. PICK j \in DOMAIN peers : /\ peers[j].ratchet_key = keys[i].ratchet_key
                                  /\ peers[j].mac_key.chain = keys[i].message_key.chain
                                  /\ peers[j].mac_key.index = keys[i].message_key.index
    BY <1>1 DEF SkippedWereSent, IsAmong
  <2>2. peers[j].mac_key = keys[i].message_key
    BY <1>1, <1>2, <2>1 DEF Message, SkippedKey, ChainKey
  <2> QED BY <2>1, <2>2
<1>4. ASSUME NEW i \in 1 .. n
      PROVE  \E j \in DOMAIN peers : f[i] = peers[j] /\ Of(i, j)
  <2>1. Of(i, CHOOSE j \in DOMAIN peers : Of(i, j))
        /\ (CHOOSE j \in DOMAIN peers : Of(i, j)) \in DOMAIN peers
    <3> HIDE DEF Of
    <3> QED BY <1>3
  <2> HIDE DEF Of
  <2> QED BY <2>1
<1> HIDE DEF f
<1>5. ASSUME NEW i \in 1 .. n
      PROVE  /\ f[i] \in Range(peers)
             /\ f[i].ratchet_key = keys[i].ratchet_key
             /\ f[i].mac_key = keys[i].message_key
             /\ f[i].counter = keys[i].message_key.index
  BY <1>2, <1>4 DEF Range
<1>6. ASSUME NEW i \in 1 .. n
      PROVE  f[i] \in SkippedBeside(peers, messages, m)
  <2>1. f[i].ratchet_key = m.ratchet_key => f[i].counter > m.counter
    BY <1>1, <1>5 DEF PushedOut
  <2>2. f[i] # m
    BY <1>1, <2>1
  <2>3. SkippedIn(messages, f[i])
    <3>1. PICK l \in DOMAIN messages :
             /\ messages[l].ratchet_key = keys[i].ratchet_key
             /\ messages[l].counter > keys[i].message_key.index
      BY <1>1 DEF PassedOver
    <3>2. \A j \in DOMAIN messages : messages[j].mac_key # keys[i].message_key
      BY <1>1 DEF ReceivedInOrder, BehindReceiver
    <3>3. \A j \in 1 .. l : j \in DOMAIN messages
      OBVIOUS
    <3> QED BY <1>5, <3>1, <3>2, <3>3 DEF SkippedIn
  <2> QED BY <1>5, <2>1, <2>2, <2>3 DEF SkippedBeside
<1>7. ASSUME NEW i \in 1 .. n, NEW j \in 1 .. n, f[i] = f[j]
      PROVE  i = j
  <2>1. keys[i].message_key = keys[j].message_key
    BY <1>5, <1>7
  <2> QED BY <1>1, <2>1 DEF SkippedInOrder
<1>8. f \in [1 .. n -> SkippedBeside(peers, messages, m)]
  <2>1. f \in [1 .. n -> Range(peers)]
    BY <1>5 DEF f
  <2> QED BY <1>6, <2>1
<1> QED BY <1>7, <1>8, AtLeastByIndex

-----------------------------------------------------------------------------
(* The skipping loop keeps the order, and what it does not keep it pushes  *)
(* out.                                                                    *)
LEMMA SkippingKeepsOrPushesOut ==
    ASSUME NEW r, NEW e, WellFormed(r), WellFormed(e),
           NEW chain \in Chain, NEW m \in Message,
           m.ratchet_key = chain.ratchet_key,
           chain.chain_key.index <= m.counter,
           e.skipped_message_keys
             = AfterSkipping(r.skipped_message_keys, chain, m.counter),
           \A i \in DOMAIN r.skipped_message_keys :
              r.skipped_message_keys[i].ratchet_key = chain.ratchet_key
                => r.skipped_message_keys[i].message_key.index < chain.chain_key.index,
           NEW messages \in Seq(Message),
           NewestKeyFirst(r), PassedOver(r, messages)
    PROVE  /\ NewestKeyFirst(e)
           /\ PassedOver(e, Append(messages, m))
           /\ \A i \in DOMAIN r.skipped_message_keys :
                 LET key == r.skipped_message_keys[i]
                 IN  \/ HasSkippedKey(e, key.ratchet_key, key.message_key)
                     \/ PushedOut(e, key.ratchet_key, key.message_key.index)
           /\ \A n \in chain.chain_key.index .. m.counter - 1 :
                 \/ \E i \in DOMAIN e.skipped_message_keys :
                       /\ e.skipped_message_keys[i].ratchet_key = chain.ratchet_key
                       /\ e.skipped_message_keys[i].message_key.chain
                            = chain.chain_key.chain
                       /\ e.skipped_message_keys[i].message_key.index = n
                 \/ PushedOut(e, chain.ratchet_key, n)
<1> DEFINE old == r.skipped_message_keys
           after == e.skipped_message_keys
           new == m.counter - chain.chain_key.index
           all == Append(messages, m)
<1>1. /\ old \in Seq(SkippedKey) /\ Len(old) \in Nat
      /\ DOMAIN old = 1 .. Len(old)
      /\ Len(old) <= OLM_MAX_SKIPPED_MESSAGE_KEYS
      /\ DOMAIN after = 1 .. Len(after) /\ Len(after) \in Nat
      /\ m.counter \in Nat /\ chain.chain_key.index \in Nat /\ new \in Nat
      /\ \A i \in DOMAIN old : old[i].message_key.index \in Nat
      /\ \A i \in DOMAIN after : after[i].message_key.index \in Nat
  BY RatchetFields, ChainFields DEF WellFormed, RatchetState
<1>2. \A i \in 1 .. Len(after) :
        IF i <= new
          THEN /\ after[i].ratchet_key = chain.ratchet_key
               /\ after[i].message_key.chain = chain.chain_key.chain
               /\ after[i].message_key.index = m.counter - i
          ELSE /\ i - new \in 1 .. Len(old)
               /\ after[i] = old[i - new]
  <2> DEFINE counter == m.counter
  <2>1. /\ old \in Seq(SkippedKey) /\ Len(old) <= OLM_MAX_SKIPPED_MESSAGE_KEYS
        /\ chain \in Chain /\ counter \in Nat /\ chain.chain_key.index <= counter
        /\ after = AfterSkipping(old, chain, counter)
    BY <1>1
  <2> HIDE DEF old, after, counter
  <2>2. \A i \in 1 .. Len(after) :
          IF i <= counter - chain.chain_key.index
            THEN /\ after[i].ratchet_key = chain.ratchet_key
                 /\ after[i].message_key.chain = chain.chain_key.chain
                 /\ after[i].message_key.index = counter - i
            ELSE /\ i - (counter - chain.chain_key.index) \in 1 .. Len(old)
                 /\ after[i] = old[i - (counter - chain.chain_key.index)]
    BY ONLY <2>1, SkippingProperties
  <2> QED BY <2>2 DEF counter
<1>3. Len(after) = IF new + Len(old) < OLM_MAX_SKIPPED_MESSAGE_KEYS
                     THEN new + Len(old) ELSE OLM_MAX_SKIPPED_MESSAGE_KEYS
  <2> DEFINE length == IF new + Len(old) < OLM_MAX_SKIPPED_MESSAGE_KEYS
                         THEN new + Len(old) ELSE OLM_MAX_SKIPPED_MESSAGE_KEYS
             g == [i \in 1 .. length |->
                     IF i <= new
                       THEN [ratchet_key |-> chain.ratchet_key,
                             message_key |-> [chain.chain_key EXCEPT !.index = m.counter - i]]
                       ELSE old[i - new]]
  <2>1. after = g
    BY DEF AfterSkipping
  <2>2. DOMAIN g = 1 .. length
    OBVIOUS
  <2>3. length \in Nat
    BY <1>1, SkippedKeysAssumption
  <2> HIDE DEF g, length
  <2>4. 1 .. Len(after) = 1 .. length
    BY <1>1, <2>1, <2>2
  <2>5. \A a, b \in Nat : 1 .. a = 1 .. b => a = b
    <3> SUFFICES ASSUME NEW a \in Nat, NEW b \in Nat, 1 .. a = 1 .. b PROVE a = b
      OBVIOUS
    <3>1. a >= 1 => a \in 1 .. b
      OBVIOUS
    <3>2. b >= 1 => b \in 1 .. a
      OBVIOUS
    <3> QED BY <3>1, <3>2
  <2>6. Len(after) = length
    BY <1>1, <2>3, <2>4, <2>5
  <2> QED BY <2>6 DEF length
<1>4. \A i \in DOMAIN old : old[i].ratchet_key = chain.ratchet_key
                              => old[i].message_key.index < chain.chain_key.index
  OBVIOUS
<1>5. /\ \A l \in DOMAIN messages : l \in DOMAIN all /\ all[l] = messages[l]
      /\ Len(messages) + 1 \in DOMAIN all /\ all[Len(messages) + 1] = m
  OBVIOUS
<1> HIDE DEF old, after, new, all
<1>6. ASSUME NEW i \in DOMAIN after, NEW j \in DOMAIN after, i < j,
             after[i].ratchet_key = after[j].ratchet_key
      PROVE  after[j].message_key.index < after[i].message_key.index
  <2>1. CASE j <= new
    <3>1. i <= new
      BY <1>1, <1>6, <2>1
    <3>2. after[i].message_key.index = m.counter - i /\ after[j].message_key.index = m.counter - j
      BY <1>1, <1>2, <2>1, <3>1
    <3> QED BY <1>1, <1>6, <3>2
  <2>2. CASE ~(i <= new)
    <3>1. ~(j <= new)
      BY <1>1, <1>6, <2>2
    <3>2. /\ i - new \in DOMAIN old /\ after[i] = old[i - new]
          /\ j - new \in DOMAIN old /\ after[j] = old[j - new]
          /\ i - new < j - new
      BY <1>1, <1>2, <1>6, <2>2, <3>1
    <3> QED BY <1>6, <3>2 DEF NewestKeyFirst, old
  <2>3. CASE i <= new /\ ~(j <= new)
    <3>1. /\ after[i].ratchet_key = chain.ratchet_key
          /\ after[i].message_key.index = m.counter - i
          /\ m.counter - i >= chain.chain_key.index
      BY <1>1, <1>2, <2>3 DEF new
    <3>2. j - new \in DOMAIN old /\ after[j] = old[j - new]
      BY <1>1, <1>2, <2>3
    <3>3. after[j].message_key.index < chain.chain_key.index
      BY <1>4, <1>6, <3>1, <3>2
    <3> QED BY <1>1, <3>1, <3>3
  <2> QED BY <2>1, <2>2, <2>3
<1>7. NewestKeyFirst(e)
  BY <1>6 DEF NewestKeyFirst, after
<1>8. ASSUME NEW i \in DOMAIN after
      PROVE  \E l \in DOMAIN all : /\ all[l].ratchet_key = after[i].ratchet_key
                                   /\ all[l].counter > after[i].message_key.index
  <2>1. CASE i <= new
    <3>1. /\ after[i].ratchet_key = m.ratchet_key
          /\ m.counter > after[i].message_key.index
      BY <1>1, <1>2, <2>1
    <3> QED BY <1>5, <3>1
  <2>2. CASE ~(i <= new)
    <3>1. i - new \in DOMAIN old /\ after[i] = old[i - new]
      BY <1>1, <1>2, <2>2
    <3>2. PICK l \in DOMAIN messages :
             /\ messages[l].ratchet_key = old[i - new].ratchet_key
             /\ messages[l].counter > old[i - new].message_key.index
      BY <3>1 DEF PassedOver, old
    <3> QED BY <1>5, <3>1, <3>2
  <2> QED BY <2>1, <2>2
<1>9. PassedOver(e, all)
  BY <1>8 DEF PassedOver, after
<1>10. ASSUME NEW i \in DOMAIN old
       PROVE  \/ HasSkippedKey(e, old[i].ratchet_key, old[i].message_key)
              \/ PushedOut(e, old[i].ratchet_key, old[i].message_key.index)
  <2>1. CASE i + new <= Len(after)
    <3>1. i + new \in DOMAIN after /\ ~(i + new <= new) /\ (i + new) - new = i
      BY <1>1, <2>1
    <3>2. after[i + new] = old[i]
      BY <1>1, <1>2, <3>1
    <3> QED BY <3>1, <3>2 DEF HasSkippedKey, after
  <2>2. CASE ~(i + new <= Len(after))
    <3>1. Len(after) = OLM_MAX_SKIPPED_MESSAGE_KEYS
      BY <1>1, <1>3, <2>2
    <3>2. ASSUME NEW j \in DOMAIN after, after[j].ratchet_key = old[i].ratchet_key
          PROVE  after[j].message_key.index > old[i].message_key.index
      <4>1. CASE j <= new
        <5>1. /\ after[j].ratchet_key = chain.ratchet_key
              /\ after[j].message_key.index >= chain.chain_key.index
          BY <1>1, <1>2, <4>1 DEF new
        <5>2. old[i].message_key.index < chain.chain_key.index
          BY <1>4, <3>2, <5>1
        <5> QED BY <1>1, <5>1, <5>2
      <4>2. CASE ~(j <= new)
        <5>1. j - new \in DOMAIN old /\ after[j] = old[j - new] /\ j - new < i
          BY <1>1, <1>2, <2>2, <4>2
        <5>2. old[i].message_key.index < old[j - new].message_key.index
          BY <3>2, <5>1 DEF NewestKeyFirst, old
        <5> QED BY <1>1, <5>1, <5>2
      <4> QED BY <4>1, <4>2
    <3> QED BY <3>1, <3>2 DEF PushedOut, after
  <2> QED BY <2>1, <2>2
<1>11. ASSUME NEW n \in chain.chain_key.index .. m.counter - 1
       PROVE  \/ \E i \in DOMAIN after :
                   /\ after[i].ratchet_key = chain.ratchet_key
                   /\ after[i].message_key.chain = chain.chain_key.chain
                   /\ after[i].message_key.index = n
              \/ PushedOut(e, chain.ratchet_key, n)
  <2> DEFINE i == m.counter - n
  <2>1. i \in 1 .. new /\ m.counter - i = n /\ n \in Nat
    BY <1>1, <1>11 DEF new
  <2> HIDE DEF i
  <2>2. CASE i <= Len(after)
    <3>1. i \in DOMAIN after /\ i <= new
      BY <1>1, <2>1, <2>2
    <3> QED BY <1>1, <1>2, <2>1, <3>1
  <2>3. CASE ~(i <= Len(after))
    <3>1. Len(after) = OLM_MAX_SKIPPED_MESSAGE_KEYS
      BY <1>1, <1>3, <2>1, <2>3
    <3>2. ASSUME NEW j \in DOMAIN after
          PROVE  after[j].message_key.index > n
      <4>1. j <= new /\ j < i
        BY <1>1, <2>1, <2>3
      <4>2. after[j].message_key.index = m.counter - j
        BY <1>1, <1>2, <4>1
      <4> QED BY <1>1, <2>1, <4>1, <4>2
    <3> QED BY <3>1, <3>2 DEF PushedOut, after
  <2> QED BY <2>2, <2>3
<1> QED BY <1>7, <1>9, <1>10, <1>11 DEF old, after, all

-----------------------------------------------------------------------------
(* A ratchet key is of one receiver chain only, so the search for a chain  *)
(* finds the one that has the key.                                         *)
LEMMA ReceiverChainIs ==
    ASSUME NEW p, NEW r, WellFormed(r), ChainsInOrder(r, p),
           NEW messages, NEW sending, OneName(Names(messages, sending, r.receiver_chains)),
           NEW i \in DOMAIN r.receiver_chains
    PROVE  /\ HasReceiverChain(r, r.receiver_chains[i].ratchet_key)
           /\ ReceiverChain(r, r.receiver_chains[i].ratchet_key) = i
<1> DEFINE k == r.receiver_chains[i].ratchet_key
           j == ReceiverChain(r, k)
<1>1. HasReceiverChain(r, k)
  BY DEF HasReceiverChain
<1>2. j \in DOMAIN r.receiver_chains /\ r.receiver_chains[j].ratchet_key = k
  <2> HIDE DEF k
  <2> QED BY <1>1, ReceiverChainFound, RatchetFields
<1> HIDE DEF j
<1>3. Len(r.receiver_chains[j].chain_key.chain) = Len(r.receiver_chains[i].chain_key.chain)
  <2>1. SameName(r.receiver_chains[j].ratchet_key, r.receiver_chains[j].chain_key.chain,
                 r.receiver_chains[i].ratchet_key, r.receiver_chains[i].chain_key.chain)
    <3> HIDE DEF SameName
    <3> QED BY <1>2, NamesAgree
  <2> QED BY <1>2, <2>1 DEF SameName
<1>4. j = i
  BY <1>2, <1>3 DEF ChainsInOrder
<1> QED BY <1>1, <1>4 DEF j

(* What a decryption that moves a chain does to the keys it skips.         *)
LEMMA DecryptAdvances ==
    ASSUME NEW p \in Party, NEW r, WellFormed(r), NEW m \in Message, Decrypts(r, m),
           ~AlreadyAdvanced(r, m),
           ChainsInOrder(r, p), SkippedInOrder(r, p),
           NEW peers, NEW sending, Numbering(peers),
           \E l \in DOMAIN peers : m = peers[l],
           SkippedWereSent(r, peers),
           OneName(Names(peers, sending, r.receiver_chains))
    PROVE  \E chain \in Chain :
              /\ m.ratchet_key = chain.ratchet_key
              /\ m.mac_key.chain = chain.chain_key.chain
              /\ chain.chain_key.index <= m.counter
              /\ AfterDecrypt(r, m).skipped_message_keys
                   = AfterSkipping(r.skipped_message_keys, chain, m.counter)
              /\ \A i \in DOMAIN r.skipped_message_keys :
                    r.skipped_message_keys[i].ratchet_key = chain.ratchet_key
                      => r.skipped_message_keys[i].message_key.index < chain.chain_key.index
              /\ \A x \in Message :
                    x.ratchet_key = m.ratchet_key /\ x.counter < chain.chain_key.index
                      => AlreadyAdvanced(r, x)
<1> DEFINE e == AfterDecrypt(r, m)
           old == r.skipped_message_keys
<1>1. PICK l0 \in DOMAIN peers : m = peers[l0]
  OBVIOUS
<1>2. ASSUME NEW i \in DOMAIN old, old[i].ratchet_key = m.ratchet_key
      PROVE  old[i].message_key.chain = m.mac_key.chain
  <2>1. PICK j \in DOMAIN peers : /\ peers[j].ratchet_key = old[i].ratchet_key
                                  /\ peers[j].mac_key.chain = old[i].message_key.chain
    BY DEF SkippedWereSent, IsAmong
  <2>2. SameName(peers[j].ratchet_key, peers[j].mac_key.chain, m.ratchet_key, m.mac_key.chain)
    <3> HIDE DEF SameName
    <3> QED BY <1>1, NamesAgree
  <2> QED BY <1>2, <2>1, <2>2 DEF SameName
<1>3. CASE HasReceiverChain(r, m.ratchet_key)
  <2> DEFINE j == ReceiverChain(r, m.ratchet_key)
             c == r.receiver_chains[j]
  <2>1. /\ e.skipped_message_keys = AfterSkipping(old, c, m.counter)
        /\ j \in 1 .. Len(r.receiver_chains)
        /\ c \in Chain
        /\ c.ratchet_key = m.ratchet_key
        /\ c.chain_key.index <= m.counter
        /\ m.mac_key.chain = c.chain_key.chain
    BY <1>3, DecryptOnKnownChain
  <2>2. j \in DOMAIN r.receiver_chains
    BY <2>1, RatchetFields
  <2>3. \A x : x.ratchet_key = m.ratchet_key /\ x.counter < c.chain_key.index
                 => c.chain_key.index > x.counter
    OBVIOUS
  <2>4. \A x \in Message :
           x.ratchet_key = m.ratchet_key /\ x.counter < c.chain_key.index
             => AlreadyAdvanced(r, x)
    BY <1>3 DEF AlreadyAdvanced
  <2> HIDE DEF e, j
  <2>5. \A i \in DOMAIN old : old[i].ratchet_key = c.ratchet_key
                                => old[i].message_key.index < c.chain_key.index
    BY <1>2, <2>1, <2>2 DEF SkippedInOrder
  <2> HIDE DEF c, old
  <2> QED BY <2>1, <2>4, <2>5 DEF e, old
<1>4. CASE ~HasReceiverChain(r, m.ratchet_key)
  <2> DEFINE root == Append(r.root_key, {r.sender_chain[1].ratchet_key, m.ratchet_key})
             c == [ratchet_key |-> m.ratchet_key,
                   chain_key   |-> [chain |-> root, index |-> 0]]
  <2>1. /\ e.skipped_message_keys = AfterSkipping(old, c, m.counter)
        /\ c \in Chain
        /\ m.mac_key.chain = root
    BY <1>4, DecryptOnNewChain
  <2>2. /\ c.ratchet_key = m.ratchet_key
        /\ c.chain_key.chain = root
        /\ c.chain_key.index = 0
    OBVIOUS
  <2>3. Len(root) = Len(r.root_key) + 1 /\ Len(r.root_key) \in Nat
    <3>1. r.root_key \in RootKey /\ Len(r.root_key) \in Nat
      BY RatchetFields
    <3> QED BY <3>1 DEF RootKey
  <2> HIDE DEF e, root, c
  <2>4. ASSUME NEW i \in DOMAIN old
        PROVE  old[i].ratchet_key # c.ratchet_key
    <3>1. /\ Len(old[i].message_key.chain) <= Len(r.root_key)
          /\ Len(old[i].message_key.chain) \in Nat
      BY RatchetFields, ChainFields DEF SkippedInOrder
    <3>2. old[i].message_key.chain # root
      BY <2>3, <3>1
    <3> QED BY <1>2, <2>1, <2>2, <3>2
  <2>5. m.counter \in Nat /\ \A x \in Message : ~(x.counter < c.chain_key.index)
    BY <2>2, ChainFields
  <2>6. c.chain_key.index <= m.counter
    BY <2>2, <2>5
  <2> QED BY <2>1, <2>2, <2>4, <2>5, <2>6 DEF e
<1> QED BY <1>3, <1>4

(* Which messages have been passed by a decryption.                        *)
LEMMA NewlyAdvanced ==
    ASSUME NEW p \in Party, NEW r, WellFormed(r), NEW m \in Message, Decrypts(r, m),
           ~AlreadyAdvanced(r, m),
           ChainsInOrder(r, p),
           NEW peers, NEW sending,
           OneName(Names(peers, sending, r.receiver_chains)),
           NEW x \in Message, AlreadyAdvanced(AfterDecrypt(r, m), x)
    PROVE  /\ x.ratchet_key = m.ratchet_key => x.counter <= m.counter
           /\ x.ratchet_key # m.ratchet_key => AlreadyAdvanced(r, x)
<1> DEFINE e == AfterDecrypt(r, m)
           j == ReceiverChain(e, x.ratchet_key)
<1>1. WellFormed(e)
  BY DecryptChains
<1>2. /\ j \in DOMAIN e.receiver_chains
      /\ e.receiver_chains[j].ratchet_key = x.ratchet_key
      /\ e.receiver_chains[j].chain_key.index > x.counter
  <2>1. HasReceiverChain(e, x.ratchet_key) /\ e.receiver_chains[j].chain_key.index > x.counter
    BY DEF AlreadyAdvanced
  <2> HIDE DEF e
  <2> QED BY <1>1, <2>1, ReceiverChainFound, RatchetFields
<1>3. \/ /\ e.receiver_chains[j].ratchet_key = m.ratchet_key
         /\ e.receiver_chains[j].chain_key.index = m.counter + 1
      \/ \E l \in DOMAIN r.receiver_chains :
            e.receiver_chains[j] = r.receiver_chains[l]
  <2> HIDE DEF j
  <2> QED BY <1>2, DecryptChains
<1> HIDE DEF e, j
<1>4. x.counter \in Nat /\ m.counter \in Nat
  BY ChainFields
<1>5. CASE /\ e.receiver_chains[j].ratchet_key = m.ratchet_key
           /\ e.receiver_chains[j].chain_key.index = m.counter + 1
  BY <1>2, <1>4, <1>5
<1>6. ASSUME NEW l \in DOMAIN r.receiver_chains, e.receiver_chains[j] = r.receiver_chains[l]
      PROVE  /\ x.ratchet_key = m.ratchet_key => x.counter <= m.counter
             /\ x.ratchet_key # m.ratchet_key => AlreadyAdvanced(r, x)
  <2>1. /\ HasReceiverChain(r, x.ratchet_key)
        /\ ReceiverChain(r, x.ratchet_key) = l
        /\ r.receiver_chains[l].chain_key.index > x.counter
    BY <1>2, <1>6, ReceiverChainIs
  <2>2. AlreadyAdvanced(r, x)
    BY <2>1 DEF AlreadyAdvanced
  <2>3. ASSUME x.ratchet_key = m.ratchet_key
        PROVE  x.counter <= m.counter
    <3>1. ~(r.receiver_chains[l].chain_key.index > m.counter)
      BY <2>1, <2>3 DEF AlreadyAdvanced
    <3>2. r.receiver_chains[l].chain_key.index \in Nat
      BY RatchetFields, ChainFields
    <3> QED BY <1>4, <2>1, <3>1, <3>2
  <2> QED BY <2>2, <2>3, Zenon
<1> QED BY <1>3, <1>5, <1>6

-----------------------------------------------------------------------------
(* A decryption that moves a chain.                                        *)
LEMMA DecryptOnChainKeysKept ==
    ASSUME NEW p \in Party, NEW r, WellFormed(r),
           NEW peers, NEW sending, Numbering(peers),
           NEW l0 \in DOMAIN peers, NEW m \in Message, m = peers[l0],
           Decrypts(r, m), ~AlreadyAdvanced(r, m),
           ChainsInOrder(r, p), SkippedInOrder(r, p), SkippedWereSent(r, peers),
           OneName(Names(peers, sending, r.receiver_chains)),
           NEW messages \in Seq(Message),
           SkippedInOrder(AfterDecrypt(r, m), p),
           SkippedWereSent(AfterDecrypt(r, m), peers),
           ReceivedInOrder(AfterDecrypt(r, m), Append(messages, m), peers),
           KeysKept(r, peers, messages)
    PROVE  KeysKept(AfterDecrypt(r, m), peers, Append(messages, m))
<1> DEFINE e == AfterDecrypt(r, m)
           all == Append(messages, m)
           max == OLM_MAX_SKIPPED_MESSAGE_KEYS
<1>1. PICK chain \in Chain :
         /\ m.ratchet_key = chain.ratchet_key
         /\ m.mac_key.chain = chain.chain_key.chain
         /\ chain.chain_key.index <= m.counter
         /\ e.skipped_message_keys
              = AfterSkipping(r.skipped_message_keys, chain, m.counter)
         /\ \A i \in DOMAIN r.skipped_message_keys :
               r.skipped_message_keys[i].ratchet_key = chain.ratchet_key
                 => r.skipped_message_keys[i].message_key.index < chain.chain_key.index
         /\ \A x \in Message :
               x.ratchet_key = m.ratchet_key /\ x.counter < chain.chain_key.index
                 => AlreadyAdvanced(r, x)
  <2>1. \E l \in DOMAIN peers : m = peers[l]
    OBVIOUS
  <2>2. /\ WellFormed(r) /\ Decrypts(r, m) /\ ~AlreadyAdvanced(r, m)
        /\ ChainsInOrder(r, p) /\ SkippedInOrder(r, p)
        /\ Numbering(peers) /\ SkippedWereSent(r, peers)
        /\ OneName(Names(peers, sending, r.receiver_chains))
        /\ p \in Party /\ m \in Message
    OBVIOUS
  <2> QED BY ONLY <2>1, <2>2, DecryptAdvances, Zenon
<1>2. /\ WellFormed(e)
      /\ \A x \in Message : AlreadyAdvanced(e, x) =>
            /\ x.ratchet_key = m.ratchet_key => x.counter <= m.counter
            /\ x.ratchet_key # m.ratchet_key => AlreadyAdvanced(r, x)
  BY DecryptChains, NewlyAdvanced
<1> DEFINE Inherited(key) == \/ HasSkippedKey(e, key.ratchet_key, key.message_key)
                             \/ PushedOut(e, key.ratchet_key, key.message_key.index)
           Passed(n) == \/ \E i \in DOMAIN e.skipped_message_keys :
                             /\ e.skipped_message_keys[i].ratchet_key = chain.ratchet_key
                             /\ e.skipped_message_keys[i].message_key.chain
                                  = chain.chain_key.chain
                             /\ e.skipped_message_keys[i].message_key.index = n
                        \/ PushedOut(e, chain.ratchet_key, n)
<1>3. /\ NewestKeyFirst(e)
      /\ PassedOver(e, all)
      /\ \A i \in DOMAIN r.skipped_message_keys : Inherited(r.skipped_message_keys[i])
      /\ \A n \in chain.chain_key.index .. m.counter - 1 : Passed(n)
  <2>1. NewestKeyFirst(r) /\ PassedOver(r, messages)
    BY DEF KeysKept
  <2> HIDE DEF e, all
  <2> QED BY <1>1, <1>2, <2>1, SkippingKeepsOrPushesOut DEF all
<1>4. \A x \in Message : PushedOut(e, x.ratchet_key, x.counter)
                           => AtLeast(SkippedBeside(peers, all, x), max)
  <2>1. all \in Seq(Message)
    OBVIOUS
  <2> HIDE DEF e, all
  <2> QED BY <1>2, <1>3, <2>1, PushedOutByOthers DEF e, all
<1>5. \A x : AtLeast(SkippedBeside(peers, messages, x), max)
               => AtLeast(SkippedBeside(peers, all, x), max)
  <2>1. \A x : SkippedBeside(peers, messages, x) \subseteq SkippedBeside(peers, all, x)
    <3>1. \A n : SkippedIn(messages, n) => SkippedIn(all, n)
      BY SkippedInMore
    <3> QED BY <3>1, Zenon DEF SkippedBeside
  <2> QED BY <2>1, AtLeastMore
<1>6. ASSUME NEW l \in DOMAIN peers, peers[l] \notin Range(all), AlreadyAdvanced(e, peers[l])
      PROVE  \/ HasSkippedKey(e, peers[l].ratchet_key, peers[l].mac_key)
             \/ AtLeast(SkippedBeside(peers, all, peers[l]), max)
  <2> DEFINE x == peers[l]
  <2>1. /\ x \in Message /\ x.counter = x.mac_key.index
        /\ m.counter = m.mac_key.index
        /\ x.counter \in Nat /\ m.counter \in Nat
        /\ chain.chain_key.index \in Nat
    BY ChainFields DEF Numbering
  <2>2. x \notin Range(messages) /\ x # m
    <3>1. Range(all) = Range(messages) \cup {m}
      <4>1. /\ \A i \in DOMAIN messages : i \in DOMAIN all /\ all[i] = messages[i]
            /\ Len(messages) + 1 \in DOMAIN all /\ all[Len(messages) + 1] = m
            /\ \A i \in DOMAIN all : all[i] = m \/ (i \in DOMAIN messages /\ all[i] = messages[i])
        OBVIOUS
      <4> HIDE DEF all
      <4> QED BY <4>1 DEF Range
    <3> HIDE DEF all
    <3> QED BY <1>6, <3>1
  <2>3. ASSUME NEW i \in DOMAIN r.skipped_message_keys,
               r.skipped_message_keys[i].ratchet_key = x.ratchet_key,
               r.skipped_message_keys[i].message_key = x.mac_key
        PROVE  \/ HasSkippedKey(e, x.ratchet_key, x.mac_key)
               \/ AtLeast(SkippedBeside(peers, all, x), max)
    <3>1. Inherited(r.skipped_message_keys[i])
      BY <1>3
    <3> HIDE DEF e, all, x
    <3>2. \/ HasSkippedKey(e, x.ratchet_key, x.mac_key)
          \/ PushedOut(e, x.ratchet_key, x.counter)
      BY <2>1, <2>3, <3>1
    <3> QED BY <1>4, <2>1, <3>2
  <2>4. CASE AlreadyAdvanced(r, x)
    <3>1. KeyKept(r, peers, x, messages)
      BY DEF KeysKept
    <3> HIDE DEF e, all, x
    <3>2. \/ HasSkippedKey(r, x.ratchet_key, x.mac_key)
          \/ AtLeast(SkippedBeside(peers, messages, x), max)
      BY <2>2, <2>4, <3>1 DEF KeyKept
    <3>3. CASE HasSkippedKey(r, x.ratchet_key, x.mac_key)
      <4>1. PICK i \in DOMAIN r.skipped_message_keys :
               /\ r.skipped_message_keys[i].ratchet_key = x.ratchet_key
               /\ r.skipped_message_keys[i].message_key = x.mac_key
        BY <3>3 DEF HasSkippedKey
      <4> QED BY <2>3, <4>1 DEF x
    <3> QED BY <1>5, <3>2, <3>3 DEF x
  <2>5. CASE ~AlreadyAdvanced(r, x)
    <3>1. x.ratchet_key = m.ratchet_key /\ x.counter <= m.counter
      BY <1>2, <1>6, <2>1, <2>5
    <3>2. x.mac_key.chain = m.mac_key.chain
      <4>1. SameName(x.ratchet_key, x.mac_key.chain, m.ratchet_key, m.mac_key.chain)
        <5> HIDE DEF SameName
        <5> QED BY NamesAgree
      <4> QED BY <3>1, <4>1 DEF SameName
    <3>3. ASSUME x.counter = m.counter PROVE FALSE
      <4>1. l # l0
        BY <2>2
      <4>2. x.mac_key # m.mac_key
        BY <4>1 DEF Numbering
      <4> HIDE DEF x
      <4>3. x.mac_key \in ChainKey /\ m.mac_key \in ChainKey
        BY <2>1 DEF Message
      <4>4. x.mac_key.index = m.mac_key.index
        BY <2>1, <3>3
      <4>5. x.mac_key = m.mac_key
        BY <3>2, <4>3, <4>4 DEF ChainKey
      <4> QED BY <4>2, <4>5
    <3> HIDE DEF x
    <3>4. x.counter \in chain.chain_key.index .. m.counter - 1
      <4>1. ~(x.counter < chain.chain_key.index)
        BY <1>1, <2>1, <2>5, <3>1
      <4> QED BY <2>1, <3>1, <3>3, <4>1
    <3>5. Passed(x.counter)
      BY <1>3, <3>4
    <3> HIDE DEF e, all
    <3>6. CASE PushedOut(e, chain.ratchet_key, x.counter)
      BY <1>1, <1>4, <2>1, <3>1, <3>6 DEF x
    <3>7. ASSUME NEW i \in DOMAIN e.skipped_message_keys,
                 e.skipped_message_keys[i].ratchet_key = chain.ratchet_key,
                 e.skipped_message_keys[i].message_key.chain = chain.chain_key.chain,
                 e.skipped_message_keys[i].message_key.index = x.counter
          PROVE  HasSkippedKey(e, x.ratchet_key, x.mac_key)
      <4> DEFINE key == e.skipped_message_keys[i]
      <4>1. key \in SkippedKey
        BY <1>2, RatchetFields
      <4> HIDE DEF key
      <4>2. key.message_key = x.mac_key
        BY <1>1, <2>1, <3>2, <3>7, <4>1 DEF Message, SkippedKey, ChainKey, key
      <4> QED BY <1>1, <3>1, <3>7, <4>2 DEF HasSkippedKey, key
    <3> QED BY <3>5, <3>6, <3>7 DEF x
  <2> QED BY <2>4, <2>5
<1> HIDE DEF e, all
<1>7. \A l \in DOMAIN peers : KeyKept(e, peers, peers[l], all)
  BY <1>6 DEF KeyKept
<1> QED BY <1>3, <1>7 DEF KeysKept, e, all

(* A decryption with a skipped key takes that key and no other.            *)
LEMMA DecryptSkippedKeysKept ==
    ASSUME NEW r, WellFormed(r),
           NEW peers, Numbering(peers),
           NEW l0 \in DOMAIN peers, NEW m \in Message, m = peers[l0],
           Decrypts(r, m), AlreadyAdvanced(r, m),
           NEW messages \in Seq(Message),
           KeysKept(r, peers, messages)
    PROVE  KeysKept(AfterDecrypt(r, m), peers, Append(messages, m))
<1> DEFINE e == AfterDecrypt(r, m)
           all == Append(messages, m)
           max == OLM_MAX_SKIPPED_MESSAGE_KEYS
           old == r.skipped_message_keys
           after == e.skipped_message_keys
<1>1. /\ WellFormed(e)
      /\ e.receiver_chains = r.receiver_chains
      /\ Len(after) = Len(old) - 1
      /\ \E i \in 1 .. Len(old) :
           /\ old[i].ratchet_key = m.ratchet_key
           /\ old[i].message_key = m.mac_key
           /\ \A j \in 1 .. Len(old) - 1 :
                after[j] = IF j < i THEN old[j] ELSE old[j + 1]
  BY DecryptSkipped
<1>2. PICK d \in 1 .. Len(old) :
         /\ old[d].message_key = m.mac_key
         /\ \A j \in 1 .. Len(old) - 1 :
              after[j] = IF j < d THEN old[j] ELSE old[j + 1]
  BY <1>1
<1>3. /\ DOMAIN old = 1 .. Len(old) /\ Len(old) \in Nat
      /\ DOMAIN after = 1 .. Len(old) - 1
  BY <1>1, RatchetFields
<1>4. /\ \A i \in DOMAIN messages : i \in DOMAIN all /\ all[i] = messages[i]
      /\ Range(messages) \subseteq Range(all)
      /\ m \in Range(all)
  <2>1. /\ \A i \in DOMAIN messages : i \in DOMAIN all /\ all[i] = messages[i]
        /\ Len(messages) + 1 \in DOMAIN all /\ all[Len(messages) + 1] = m
    OBVIOUS
  <2> HIDE DEF all
  <2> QED BY <2>1 DEF Range
<1>5. \A x : AtLeast(SkippedBeside(peers, messages, x), max)
               => AtLeast(SkippedBeside(peers, all, x), max)
  <2>1. \A x : SkippedBeside(peers, messages, x) \subseteq SkippedBeside(peers, all, x)
    <3>1. \A n : SkippedIn(messages, n) => SkippedIn(all, n)
      BY SkippedInMore
    <3> QED BY <3>1, Zenon DEF SkippedBeside
  <2> QED BY <2>1, AtLeastMore
<1> HIDE DEF e, all, old, after
<1>6. ASSUME NEW j \in DOMAIN after
      PROVE  after[j] = old[IF j < d THEN j ELSE j + 1]
             /\ (IF j < d THEN j ELSE j + 1) \in DOMAIN old
  BY <1>2, <1>3
<1>7. NewestKeyFirst(e)
  <2> SUFFICES ASSUME NEW i \in DOMAIN after, NEW j \in DOMAIN after, i < j,
                      after[i].ratchet_key = after[j].ratchet_key
               PROVE  after[j].message_key.index < after[i].message_key.index
    BY DEF NewestKeyFirst, after
  <2>1. \A a, b \in DOMAIN old :
           a < b /\ old[a].ratchet_key = old[b].ratchet_key
             => old[b].message_key.index < old[a].message_key.index
    BY DEF KeysKept, NewestKeyFirst, old
  <2>2. (IF i < d THEN i ELSE i + 1) < (IF j < d THEN j ELSE j + 1)
    BY <1>3
  <2> QED BY <1>6, <2>1, <2>2
<1>8. PassedOver(e, all)
  <2> SUFFICES ASSUME NEW i \in DOMAIN after
               PROVE  \E l \in DOMAIN all : /\ all[l].ratchet_key = after[i].ratchet_key
                                            /\ all[l].counter > after[i].message_key.index
    BY DEF PassedOver, after
  <2>1. PICK a \in DOMAIN old : after[i] = old[a]
    BY <1>6
  <2>2. PICK l \in DOMAIN messages : /\ messages[l].ratchet_key = old[a].ratchet_key
                                     /\ messages[l].counter > old[a].message_key.index
    BY DEF KeysKept, PassedOver, old
  <2> QED BY <1>4, <2>1, <2>2
<1>9. ASSUME NEW l \in DOMAIN peers, peers[l] \notin Range(all), AlreadyAdvanced(e, peers[l])
      PROVE  \/ HasSkippedKey(e, peers[l].ratchet_key, peers[l].mac_key)
             \/ AtLeast(SkippedBeside(peers, all, peers[l]), max)
  <2> DEFINE x == peers[l]
  <2>1. AlreadyAdvanced(r, x)
    <3>1. AlreadyAdvanced(e, x)
      BY <1>9
    <3> HIDE DEF x
    <3> QED BY <1>1, <3>1 DEF AlreadyAdvanced, HasReceiverChain, ReceiverChain
  <2>2. KeyKept(r, peers, x, messages)
    BY DEF KeysKept
  <2>3. x.mac_key # m.mac_key
    <3>1. l # l0
      BY <1>4, <1>9
    <3> QED BY <3>1 DEF Numbering
  <2>4. x \notin Range(messages)
    BY <1>4, <1>9
  <2> HIDE DEF x
  <2>5. CASE HasSkippedKey(r, x.ratchet_key, x.mac_key)
    <3>1. PICK i \in DOMAIN old : /\ old[i].ratchet_key = x.ratchet_key
                                  /\ old[i].message_key = x.mac_key
      BY <2>5 DEF HasSkippedKey, old
    <3>2. i # d
      BY <1>2, <2>3, <3>1
    <3>3. \E j \in DOMAIN after : after[j] = old[i]
      <4>1. CASE i < d
        <5>1. i \in DOMAIN after /\ i \in 1 .. Len(old) - 1
          BY <1>3, <4>1
        <5>2. after[i] = old[i]
          BY <1>2, <4>1, <5>1
        <5> QED BY <5>1, <5>2
      <4>2. CASE i > d
        <5>1. i - 1 \in 1 .. Len(old) - 1 /\ i - 1 \in DOMAIN after /\ ~(i - 1 < d)
              /\ (i - 1) + 1 = i
          BY <1>3, <4>2
        <5>2. after[i - 1] = old[(i - 1) + 1]
          BY <1>2, <5>1
        <5>3. after[i - 1] = old[i]
          BY <5>1, <5>2
        <5> QED BY <5>1, <5>3
      <4> QED BY <1>3, <3>2, <4>1, <4>2
    <3> QED BY <3>1, <3>3 DEF HasSkippedKey, after, x
  <2>6. CASE AtLeast(SkippedBeside(peers, messages, x), max)
    BY <1>5, <2>6 DEF x
  <2> QED BY <2>1, <2>2, <2>4, <2>5, <2>6 DEF KeyKept
<1>10. \A l \in DOMAIN peers : KeyKept(e, peers, peers[l], all)
  BY <1>9 DEF KeyKept
<1> QED BY <1>7, <1>8, <1>10 DEF KeysKept, e, all

-----------------------------------------------------------------------------
(* What the peer sends next is not behind a chain, and its chain is known  *)
(* unless it is longer than this party's root key.                         *)
LEMMA NextIsAhead ==
    ASSUME NEW p \in Party, NEW r, NEW s, WellFormed(r), WellFormed(s), ChainsInOrder(s, p),
           Level(r, s) \/ Leads(r, s) \/ Level(s, r) \/ Leads(s, r),
           NEW k \in RatchetKey, ~HasReceiverChain(r, k), NEW n \in Nat
    PROVE  LET m == EncryptedMessage(s, k, n)
           IN  /\ ~AlreadyAdvanced(r, m)
               /\ Len(m.mac_key.chain) <= Len(r.root_key)
                    => HasReceiverChain(r, m.ratchet_key)
<1> DEFINE m == EncryptedMessage(s, k, n)
<1>0. r.root_key \in RootKey /\ Len(r.root_key) \in Nat
  BY RatchetFields
<1>1. ASSUME s.sender_chain # <<>>
      PROVE  /\ m.ratchet_key = s.sender_chain[1].ratchet_key
             /\ m.counter = s.sender_chain[1].chain_key.index
             /\ m.mac_key.chain = s.root_key
             /\ m.counter \in Nat
  <2>1. s.sender_chain[1].chain_key.chain = s.root_key
    BY <1>1 DEF ChainsInOrder
  <2>2. /\ m \in Message
        /\ m.ratchet_key = s.sender_chain[1].ratchet_key
        /\ m.counter = s.sender_chain[1].chain_key.index
        /\ m.mac_key.chain = s.sender_chain[1].chain_key.chain
    BY <1>1, EncryptOnChain
  <2> HIDE DEF m
  <2> QED BY <2>1, <2>2, ChainFields
<1>2. ASSUME s.sender_chain = <<>>
      PROVE  /\ m.ratchet_key = k
             /\ m.mac_key.chain = Append(s.root_key, {k, s.receiver_chains[1].ratchet_key})
  BY <1>2, EncryptNewChain
<1> HIDE DEF m
<1>3. CASE Follows(r, s)
  <2>1. /\ s.sender_chain # <<>> /\ r.receiver_chains # <<>>
        /\ r.receiver_chains[1].ratchet_key = s.sender_chain[1].ratchet_key
        /\ r.receiver_chains[1].chain_key.index <= s.sender_chain[1].chain_key.index
    BY <1>3 DEF Follows
  <2>2. r.receiver_chains[1].ratchet_key = m.ratchet_key
        /\ r.receiver_chains[1].chain_key.index <= m.counter
    BY <1>1, <2>1
  <2>3. HasReceiverChain(r, m.ratchet_key) /\ ReceiverChain(r, m.ratchet_key) = 1
    BY <2>1, <2>2, ReceiverChainFirst
  <2>4. r.receiver_chains[1].chain_key.index \in Nat
    BY <2>1, RatchetFields, ChainFields
  <2> QED BY <1>1, <2>1, <2>2, <2>3, <2>4 DEF AlreadyAdvanced, m
<1>4. CASE Leads(s, r)
  <2>1. /\ s.sender_chain # <<>>
        /\ s.root_key = Append(r.root_key, {r.sender_chain[1].ratchet_key,
                                            s.sender_chain[1].ratchet_key})
        /\ ~HasReceiverChain(r, s.sender_chain[1].ratchet_key)
    BY <1>4 DEF Leads
  <2>2. ~HasReceiverChain(r, m.ratchet_key)
    BY <1>1, <2>1
  <2>3. Len(m.mac_key.chain) = Len(r.root_key) + 1
    BY <1>0, <1>1, <2>1 DEF RootKey
  <2> QED BY <1>0, <2>2, <2>3 DEF AlreadyAdvanced, m
<1>5. CASE Level(s, r)
  <2>1. s.sender_chain = <<>> /\ s.root_key = r.root_key
    BY <1>5 DEF Level
  <2>2. ~HasReceiverChain(r, m.ratchet_key)
    BY <1>2, <2>1
  <2>3. Len(m.mac_key.chain) = Len(r.root_key) + 1
    BY <1>0, <1>2, <2>1 DEF RootKey
  <2> QED BY <1>0, <2>2, <2>3 DEF AlreadyAdvanced, m
<1> QED BY <1>3, <1>4, <1>5 DEF Level, Leads

(* A message that is not behind a chain needs no skipped key.              *)
LEMMA MoreKeysKept ==
    ASSUME NEW r, NEW peers \in Seq(Message), NEW m, NEW messages \in Seq(Message),
           KeysKept(r, peers, messages), ~AlreadyAdvanced(r, m)
    PROVE  KeysKept(r, Append(peers, m), messages)
<1> DEFINE more == Append(peers, m)
<1>1. \A l \in DOMAIN more : \/ more[l] = m
                             \/ l \in DOMAIN peers /\ more[l] = peers[l]
  OBVIOUS
<1>2. KeyKept(r, more, m, messages)
  BY DEF KeyKept
<1>3. \A x : SkippedBeside(peers, messages, x) \subseteq SkippedBeside(more, messages, x)
  <2>1. Range(peers) \subseteq Range(more)
    BY DEF Range
  <2> QED BY <2>1, Zenon DEF SkippedBeside
<1> HIDE DEF more
<1>4. \A x : AtLeast(SkippedBeside(peers, messages, x), OLM_MAX_SKIPPED_MESSAGE_KEYS)
               => AtLeast(SkippedBeside(more, messages, x), OLM_MAX_SKIPPED_MESSAGE_KEYS)
  BY <1>3, AtLeastMore
<1>5. \A x : KeyKept(r, peers, x, messages) => KeyKept(r, more, x, messages)
  BY <1>4 DEF KeyKept
<1>6. \A l \in DOMAIN more : KeyKept(r, more, more[l], messages)
  BY <1>1, <1>2, <1>5 DEF KeysKept
<1> QED BY <1>6 DEF KeysKept, more

(* A party's own encryption leaves what it receives with alone.            *)
LEMMA SameKeysKept ==
    ASSUME NEW r, NEW e, NEW peers, NEW messages, KeysKept(r, peers, messages),
           e.receiver_chains = r.receiver_chains,
           e.skipped_message_keys = r.skipped_message_keys
    PROVE  KeysKept(e, peers, messages)
<1>1. \A x : AlreadyAdvanced(e, x) = AlreadyAdvanced(r, x)
  BY DEF AlreadyAdvanced, HasReceiverChain, ReceiverChain
<1>2. \A x : KeyKept(r, peers, x, messages) => KeyKept(e, peers, x, messages)
  BY <1>1 DEF KeyKept, HasSkippedKey
<1> QED BY <1>2 DEF KeysKept, NewestKeyFirst, PassedOver

-----------------------------------------------------------------------------
(* Everything that a party can still need is kept, or was pushed out by    *)
(* as many others as fit.                                                  *)
Kept(p) ==
    /\ Named(p)
    /\ ChainsKept(ratchet[p], sent[Peer(p)], received[p])
    /\ KeysKept(ratchet[p], sent[Peer(p)], received[p])

AllKept == \A p \in Party : Kept(p)

LEMMA InitKept == Init => AllKept
<1> SUFFICES ASSUME Init, NEW p \in Party PROVE Kept(p)
  BY DEF AllKept
<1> DEFINE a == InitialiseAsAlice(InitialSecret, <<Alice, 0>>)
           b == InitialiseAsBob(InitialSecret, <<Alice, 0>>)
           name == <<<<Alice, 0>>, <<InitialSecret>>>>
<1>1. /\ \A q \in Party : sent[q] = <<>> /\ received[q] = <<>>
      /\ ratchet[Alice] = a /\ ratchet[Bob] = b
      /\ Peer(Alice) = Bob /\ Peer(Bob) = Alice
      /\ Peer(p) \in Party
  BY PartiesAssumption, PeerIsParty DEF Init, Party, Peer
<1>2. /\ a.receiver_chains = <<>> /\ a.skipped_message_keys = <<>>
      /\ DOMAIN a.sender_chain = {1}
      /\ a.sender_chain[1].ratchet_key = <<Alice, 0>>
      /\ a.sender_chain[1].chain_key.chain = <<InitialSecret>>
  BY DEF InitialiseAsAlice, NewChainKey
<1>3. /\ b.sender_chain = <<>> /\ b.skipped_message_keys = <<>>
      /\ DOMAIN b.receiver_chains = {1} /\ Len(b.receiver_chains) = 1
      /\ b.receiver_chains[1].ratchet_key = <<Alice, 0>>
      /\ b.receiver_chains[1].chain_key.chain = <<InitialSecret>>
  BY DEF InitialiseAsBob, NewChainKey
<1> HIDE DEF a, b
<1>4. Named(p)
  <2>1. Names(<<>>, a.sender_chain, b.receiver_chains) \subseteq {name}
    <3>1. \A i \in DOMAIN a.sender_chain :
             <<a.sender_chain[i].ratchet_key, a.sender_chain[i].chain_key.chain>> = name
      BY <1>2
    <3>2. \A i \in DOMAIN b.receiver_chains :
             <<b.receiver_chains[i].ratchet_key,
               b.receiver_chains[i].chain_key.chain>> = name
      BY <1>3
    <3>3. DOMAIN <<>> = {}
      OBVIOUS
    <3> HIDE DEF name
    <3> QED BY <3>1, <3>2, <3>3, Zenon DEF Names
  <2>2. Names(<<>>, b.sender_chain, a.receiver_chains) \subseteq {name}
    BY <1>2, <1>3 DEF Names
  <2> HIDE DEF name
  <2>3. OneName({name})
    BY DEF OneName, SameName
  <2>4. OneName(Names(<<>>, a.sender_chain, b.receiver_chains))
        /\ OneName(Names(<<>>, b.sender_chain, a.receiver_chains))
    BY <2>1, <2>2, <2>3, FewerNames
  <2> QED BY <1>1, <2>4 DEF Named, Party
<1>5. ASSUME NEW r, r = a \/ r = b
      PROVE  ChainsKept(r, <<>>, <<>>) /\ KeysKept(r, <<>>, <<>>)
  <2>1. /\ \A i, j \in DOMAIN r.receiver_chains : ~(i < j)
        /\ \A i \in DOMAIN r.receiver_chains : ~(i < Len(r.receiver_chains))
        /\ DOMAIN r.skipped_message_keys = {}
    <3>1. CASE r = a
      <4>1. DOMAIN a.receiver_chains = {} /\ DOMAIN a.skipped_message_keys = {}
        BY <1>2
      <4> QED BY <3>1, <4>1
    <3>2. CASE r = b
      <4>1. DOMAIN b.skipped_message_keys = {} /\ ~(1 < 1)
        BY <1>3
      <4> QED BY <1>3, <3>2, <4>1
    <3> QED BY <1>5, <3>1, <3>2
  <2>2. DOMAIN <<>> = {}
    OBVIOUS
  <2> QED BY <2>1, <2>2 DEF ChainsKept, NewestChainFirst, ChainsUsed,
                            KeysKept, NewestKeyFirst, PassedOver
<1>6. ratchet[p] = a \/ ratchet[p] = b
  BY <1>1 DEF Party
<1> QED BY <1>1, <1>4, <1>5, <1>6 DEF Kept

-----------------------------------------------------------------------------
LEMMA EncryptKept ==
    ASSUME IInv, AllKept, NEW p \in Party, Encrypt(p)
    PROVE  AllKept'
<1> DEFINE q == Peer(p)
           r == ratchet[p]
           s == ratchet[q]
           k == FreshKey(p)
           n == Len(sent[p]) + 1
           e == AfterEncrypt(r, k)
           m == EncryptedMessage(r, k, n)
<1>1. /\ ratchet \in [Party -> RatchetState] /\ generated \in [Party -> Nat]
      /\ sent \in [Party -> Seq(Message)] /\ received \in [Party -> Seq(Message)]
  BY DEF IInv, TypeOK
<1>2. /\ q \in Party /\ q # p /\ Peer(q) = p
      /\ \A x \in Party : x = p \/ x = q
      /\ WellFormed(r) /\ WellFormed(s)
      /\ KeysOwned(p) /\ KeysOwned(q)
      /\ ChainsInOrder(r, p) /\ ChainsInOrder(s, q)
      /\ SentInOrder(r, p, sent[p]) /\ SentInOrder(s, q, sent[q])
      /\ Kept(p) /\ Kept(q)
  BY PartyInOrder, PeerIsParty DEF AllKept
<1>3. k \in RatchetKey /\ n \in Nat
  BY <1>1 DEF FreshKey, RatchetKey
<1>4. /\ \A i \in DOMAIN sent[p] : sent[p][i].ratchet_key # k
      /\ \A i \in DOMAIN s.receiver_chains : s.receiver_chains[i].ratchet_key # k
  <2>1. /\ \A i \in DOMAIN sent[p] : OwnedBy(sent[p][i].ratchet_key, p, generated[p])
        /\ \A i \in DOMAIN s.receiver_chains :
              OwnedBy(s.receiver_chains[i].ratchet_key, p, generated[p])
    BY <1>2 DEF KeysOwned
  <2>2. ~OwnedBy(k, p, generated[p])
    BY <1>1 DEF FreshKey, OwnedBy
  <2> QED BY <2>1, <2>2
<1>5. \/ Level(r, s) \/ Leads(r, s) \/ Level(s, r) \/ Leads(s, r)
  <2>1. PICK x \in Party : \/ Level(ratchet[x], ratchet[Peer(x)])
                           \/ Leads(ratchet[x], ratchet[Peer(x)])
    BY DEF IInv, Synchronised
  <2>2. x = p \/ x = q
    BY PeerIsParty
  <2> QED BY <1>2, <2>1, <2>2
<1>6. r.sender_chain = <<>> => Level(r, s)
  BY <1>5 DEF Level, Leads, Follows
<1>7. /\ ratchet' = [ratchet EXCEPT ![p] = e]
      /\ sent' = [sent EXCEPT ![p] = Append(@, m)]
      /\ received' = received
  BY DEF Encrypt, NextMessage
<1>8. /\ sent[p] \in Seq(Message) /\ sent[q] \in Seq(Message)
      /\ received[p] \in Seq(Message) /\ received[q] \in Seq(Message)
  BY <1>1, <1>2
<1> HIDE DEF r, s, q, k, n
<1>9. /\ e.receiver_chains = r.receiver_chains
      /\ e.skipped_message_keys = r.skipped_message_keys
      /\ m \in Message
  BY <1>2, <1>3, EncryptOnChain, EncryptNewChain
<1> HIDE DEF e, m
<1>10. /\ ratchet'[p] = e /\ ratchet'[q] = s
       /\ sent'[p] = Append(sent[p], m) /\ sent'[q] = sent[q]
       /\ received'[p] = received[p] /\ received'[q] = received[q]
  BY <1>1, <1>2, <1>7 DEF s
<1>11. /\ OneName(Names(sent[p], r.sender_chain, s.receiver_chains))
       /\ ChainsKept(r, sent[q], received[p])
       /\ KeysKept(r, sent[q], received[p])
       /\ OneName(Names(sent[q], s.sender_chain, r.receiver_chains))
       /\ ChainsKept(s, sent[p], received[q])
       /\ KeysKept(s, sent[p], received[q])
  BY <1>2 DEF Kept, Named, q, r, s
<1>12. Kept(p)'
  <2>1. OneName(Names(Append(sent[p], m), e.sender_chain, s.receiver_chains))
    <3>1. ChainsInOrder(s, Peer(p))
      BY <1>2 DEF q
    <3> DEFINE messages == sent[p]
    <3>2. messages \in Seq(Message)
      BY <1>8
    <3>3. /\ OneName(Names(messages, r.sender_chain, s.receiver_chains))
          /\ SentInOrder(r, p, messages)
          /\ \A i \in DOMAIN messages : messages[i].ratchet_key # k
          /\ \A i \in DOMAIN s.receiver_chains : s.receiver_chains[i].ratchet_key # k
      BY <1>2, <1>4, <1>11
    <3>4. WellFormed(r) /\ WellFormed(s) /\ p \in Party
      BY <1>2
    <3> HIDE DEF messages
    <3>5. OneName(Names(Append(messages, EncryptedMessage(r, k, n)),
                        AfterEncrypt(r, k).sender_chain, s.receiver_chains))
      BY ONLY <1>3, <1>6, <3>1, <3>2, <3>3, <3>4, EncryptNames, Zenon
    <3> QED BY <3>5 DEF messages, e, m
  <2>2. ChainsKept(e, sent[q], received[p])
    <3>1. \A l \in DOMAIN sent[q] : /\ sent[q][l] \in Message
                                    /\ IsChainOf(sent[q][l].mac_key.chain, Peer(p))
      BY <1>2, <1>8 DEF SentInOrder, q
    <3> QED BY <1>2, <1>3, <1>11, <3>1, EncryptChainsKept DEF e
  <2>3. KeysKept(e, sent[q], received[p])
    BY <1>9, <1>11, SameKeysKept
  <2> QED BY <1>10, <2>1, <2>2, <2>3 DEF Kept, Named, q
<1>13. Kept(q)'
  <2>1. ~HasReceiverChain(s, k)
    BY <1>4 DEF HasReceiverChain
  <2>2. /\ ~AlreadyAdvanced(s, m)
        /\ Len(m.mac_key.chain) <= Len(s.root_key) => HasReceiverChain(s, m.ratchet_key)
    BY <1>2, <1>3, <1>5, <2>1, NextIsAhead DEF m
  <2>3. ChainsKept(s, Append(sent[p], m), received[q])
    BY <1>8, <1>11, <2>2, MoreChainsKept
  <2>4. KeysKept(s, Append(sent[p], m), received[q])
    BY <1>8, <1>11, <2>2, MoreKeysKept
  <2>5. OneName(Names(sent[q], s.sender_chain, e.receiver_chains))
    BY <1>9, <1>11
  <2> QED BY <1>2, <1>10, <2>3, <2>4, <2>5 DEF Kept, Named
<1> QED BY <1>2, <1>12, <1>13 DEF AllKept

LEMMA DecryptKept ==
    ASSUME IInv, AllNumbered, AllOnThePath, AllKept, IInv', AllNumbered',
           NEW p \in Party, NEW l \in DOMAIN sent[Peer(p)], Decrypt(p, sent[Peer(p)][l])
    PROVE  AllKept'
<1> DEFINE q == Peer(p)
           r == ratchet[p]
           s == ratchet[q]
           m == sent[q][l]
           e == AfterDecrypt(r, m)
           all == Append(received[p], m)
<1>1. /\ ratchet \in [Party -> RatchetState]
      /\ sent \in [Party -> Seq(Message)] /\ received \in [Party -> Seq(Message)]
  BY DEF IInv, TypeOK
<1>2. /\ q \in Party /\ q # p /\ Peer(q) = p
      /\ \A x \in Party : x = p \/ x = q
      /\ WellFormed(r)
      /\ ChainsInOrder(r, p) /\ SkippedInOrder(r, p)
      /\ SentInOrder(s, q, sent[q])
      /\ Numbered(p) /\ OnThePath(r, received[p])
      /\ Kept(p) /\ Kept(q)
  BY PartyInOrder, PeerIsParty DEF AllKept, AllNumbered, AllOnThePath
<1>3. /\ Decrypts(r, m)
      /\ ratchet' = [ratchet EXCEPT ![p] = e]
      /\ received' = [received EXCEPT ![p] = all]
      /\ sent' = sent
  BY DEF Decrypt
<1>4. /\ l \in DOMAIN sent[q] /\ m \in Message /\ m = sent[q][l]
      /\ sent[p] \in Seq(Message) /\ sent[q] \in Seq(Message)
      /\ received[p] \in Seq(Message) /\ received[q] \in Seq(Message)
      /\ \A i \in DOMAIN sent[q] : sent[q][i] \in Message
  BY <1>1, <1>2
<1> HIDE DEF r, s, q, m
<1>5. /\ ratchet'[p] = e /\ ratchet'[q] = s
      /\ received'[p] = all /\ received'[q] = received[q]
      /\ sent'[p] = sent[p] /\ sent'[q] = sent[q]
  BY <1>1, <1>2, <1>3 DEF s
<1>6. /\ SkippedInOrder(e, p) /\ ReceivedInOrder(e, all, sent[q])
      /\ SkippedWereSent(e, sent[q])
  <2>1. InOrder(p)' /\ Numbered(p)'
    BY DEF IInv, AllNumbered
  <2>2. SkippedInOrder(ratchet'[p], p)
        /\ ReceivedInOrder(ratchet'[p], received'[p], sent'[Peer(p)])
        /\ SkippedWereSent(ratchet'[p], sent'[Peer(p)])
    BY <2>1 DEF InOrder, Numbered
  <2> QED BY <1>5, <2>2 DEF q
<1>7. /\ OneName(Names(sent[p], r.sender_chain, s.receiver_chains))
      /\ ChainsKept(r, sent[q], received[p])
      /\ KeysKept(r, sent[q], received[p])
      /\ OneName(Names(sent[q], s.sender_chain, r.receiver_chains))
      /\ ChainsKept(s, sent[p], received[q])
      /\ KeysKept(s, sent[p], received[q])
      /\ SkippedWereSent(r, sent[q])
  BY <1>2 DEF Kept, Named, Numbered, q, r, s
<1>8. Numbering(sent[q])
  BY <1>2, <1>4 DEF SentInOrder, Numbering
<1>9. /\ OneName(Names(sent[p], e.sender_chain, s.receiver_chains))
      /\ OneName(Names(sent[q], s.sender_chain, e.receiver_chains))
  <2>1. OneName(Names(sent[q], s.sender_chain, e.receiver_chains))
    BY <1>2, <1>3, <1>4, <1>7, DecryptNames
  <2>2. e.sender_chain = r.sender_chain \/ e.sender_chain = <<>>
    BY <1>2, <1>3, <1>4, DecryptChains
  <2> HIDE DEF e
  <2>3. Names(sent[p], <<>>, s.receiver_chains)
          \subseteq Names(sent[p], r.sender_chain, s.receiver_chains)
    <3>1. DOMAIN <<>> = {}
      OBVIOUS
    <3> QED BY <3>1, Zenon DEF Names
  <2>4. OneName(Names(sent[p], e.sender_chain, s.receiver_chains))
    BY <1>7, <2>2, <2>3, FewerNames
  <2> QED BY <2>1, <2>4
<1> DEFINE peers == sent[q]
           messages == received[p]
           sending == s.sender_chain
<1>10. /\ p \in Party /\ WellFormed(r) /\ Decrypts(r, m) /\ m \in Message
       /\ l \in DOMAIN peers /\ m = peers[l]
       /\ \A i \in DOMAIN peers : peers[i] \in Message
       /\ messages \in Seq(Message) /\ Numbering(peers)
       /\ ChainsInOrder(r, p) /\ SkippedInOrder(r, p) /\ SkippedWereSent(r, peers)
       /\ OneName(Names(peers, sending, r.receiver_chains))
       /\ OnThePath(r, messages)
       /\ ChainsKept(r, peers, messages) /\ KeysKept(r, peers, messages)
  BY <1>2, <1>3, <1>4, <1>7, <1>8
<1>11. /\ SkippedInOrder(AfterDecrypt(r, m), p)
       /\ SkippedWereSent(AfterDecrypt(r, m), peers)
       /\ ReceivedInOrder(AfterDecrypt(r, m), Append(messages, m), peers)
  BY <1>6
<1> HIDE DEF peers, messages, sending
<1>12. ChainsKept(AfterDecrypt(r, m), peers, Append(messages, m))
  BY ONLY <1>10, DecryptChainsKept, Zenon
<1>13. KeysKept(AfterDecrypt(r, m), peers, Append(messages, m))
  <2>1. CASE AlreadyAdvanced(r, m)
    BY ONLY <1>10, <2>1, DecryptSkippedKeysKept, Zenon
  <2>2. CASE ~AlreadyAdvanced(r, m)
    BY ONLY <1>10, <1>11, <2>2, DecryptOnChainKeysKept, Zenon
  <2> QED BY <2>1, <2>2
<1>14. ChainsKept(e, sent[q], all) /\ KeysKept(e, sent[q], all)
  BY <1>12, <1>13 DEF peers, messages
<1> HIDE DEF e, all
<1>15. Kept(p)'
  BY <1>5, <1>9, <1>14 DEF Kept, Named, q
<1>16. Kept(q)'
  BY <1>2, <1>5, <1>7, <1>9 DEF Kept, Named
<1> QED BY <1>2, <1>15, <1>16 DEF AllKept

LEMMA NextKept ==
    ASSUME IInv, AllNumbered, AllOnThePath, AllKept, [Next]_vars
    PROVE  AllKept'
<1>1. IInv' /\ AllNumbered'
  BY NextIInv, NextNumbered
<1>2. ASSUME NEW p \in Party, Encrypt(p) PROVE AllKept'
  BY <1>2, EncryptKept
<1>3. ASSUME NEW p \in Party, NEW i \in DOMAIN sent[Peer(p)], Decrypt(p, sent[Peer(p)][i])
      PROVE  AllKept'
  BY <1>1, <1>3, DecryptKept
<1>4. CASE UNCHANGED vars
  BY <1>4 DEF vars, AllKept, Kept, Named
<1> QED BY <1>2, <1>3, <1>4 DEF Next

-----------------------------------------------------------------------------
(* A message of a chain that is not known and longer than this party's     *)
(* root key is on the chain that the peer sends on, and opens it.          *)
LEMMA UnknownChainDecrypts ==
    ASSUME NEW r, NEW s, WellFormed(r), WellFormed(s),
           Level(r, s) \/ Leads(r, s) \/ Level(s, r) \/ Leads(s, r),
           NEW m \in Message, m.mac_key.index = m.counter, BehindSender(s, m),
           ~HasReceiverChain(r, m.ratchet_key),
           Len(r.root_key) < Len(m.mac_key.chain),
           m.counter - ExpectedIndex(r, m.ratchet_key) <= MAX_MESSAGE_GAP
    PROVE  Decrypts(r, m)
<1>1. /\ r.root_key \in RootKey /\ Len(r.root_key) \in Nat
      /\ s.root_key \in RootKey /\ Len(s.root_key) \in Nat
      /\ Len(m.mac_key.chain) \in Nat
  BY RatchetFields, ChainFields
<1>2. Len(m.mac_key.chain) <= Len(s.root_key)
  BY <1>1 DEF BehindSender
<1>3. Leads(s, r)
  <2>1. \A x : Len(Append(s.root_key, x)) = Len(s.root_key) + 1
    BY <1>1 DEF RootKey
  <2>2. ASSUME Leads(r, s) PROVE Len(r.root_key) = Len(s.root_key) + 1
    BY <2>1, <2>2 DEF Leads
  <2> QED BY <1>1, <1>2, <2>2 DEF Level
<1>4. /\ s.sender_chain # <<>> /\ r.sender_chain # <<>>
      /\ s.root_key = Append(r.root_key, {r.sender_chain[1].ratchet_key,
                                          s.sender_chain[1].ratchet_key})
  BY <1>3 DEF Leads, Follows
<1>5. Len(s.root_key) = Len(r.root_key) + 1
  BY <1>1, <1>4 DEF RootKey
<1>6. /\ m.mac_key.chain = s.root_key
      /\ m.ratchet_key = s.sender_chain[1].ratchet_key
  BY <1>1, <1>2, <1>5 DEF BehindSender
<1>7. m.mac_key.chain = Append(r.root_key, {r.sender_chain[1].ratchet_key, m.ratchet_key})
  BY <1>4, <1>6
<1> QED BY <1>4, <1>7, ReplyDecrypts

(* A message of a known chain that is not behind it decrypts.              *)
LEMMA KnownChainDecrypts ==
    ASSUME NEW r, WellFormed(r), NEW m \in Message, m.mac_key.index = m.counter,
           HasReceiverChain(r, m.ratchet_key), ~AlreadyAdvanced(r, m),
           m.mac_key.chain
             = r.receiver_chains[ReceiverChain(r, m.ratchet_key)].chain_key.chain,
           m.counter - ExpectedIndex(r, m.ratchet_key) <= MAX_MESSAGE_GAP
    PROVE  Decrypts(r, m)
<1> DEFINE j == ReceiverChain(r, m.ratchet_key)
           c == r.receiver_chains[j]
<1>1. j \in DOMAIN r.receiver_chains /\ c \in Chain
  BY ReceiverChainFound, RatchetFields
<1>2. ExpectedIndex(r, m.ratchet_key) = c.chain_key.index
  BY DEF ExpectedIndex
<1>3. ~(c.chain_key.index > m.counter) /\ m.mac_key.chain = c.chain_key.chain
  BY DEF AlreadyAdvanced
<1> HIDE DEF c
<1>4. m.mac_key = [c.chain_key EXCEPT !.index = m.counter]
  BY <1>1, <1>3 DEF Chain, ChainKey, Message
<1>5. VerifiesOnChain(c.chain_key, m)
  BY <1>1, <1>2, <1>3, <1>4, ChainFields DEF VerifiesOnChain
<1> QED BY <1>5 DEF Decrypts, c

LEMMA KeptAreLostOnlyToLimits ==
    IInv /\ AllNumbered /\ AllKept => LostOnlyToLimits
<1> SUFFICES ASSUME IInv, AllKept, NEW p \in Party,
                    NEW m \in Range(sent[Peer(p)]) \ Range(received[p]),
                    ~Decrypts(ratchet[p], m),
                    ~(m.counter - ExpectedIndex(ratchet[p], m.ratchet_key)
                        > MAX_MESSAGE_GAP)
             PROVE  \/ Cardinality(NewerChains(p, m)) >= OLM_MAX_RECEIVER_CHAINS
                    \/ /\ AlreadyAdvanced(ratchet[p], m)
                       /\ Cardinality(SkippedWith(p, m)) >= OLM_MAX_SKIPPED_MESSAGE_KEYS
  BY Zenon DEF LostOnlyToLimits
<1> DEFINE q == Peer(p)
           r == ratchet[p]
           s == ratchet[q]
           peers == sent[q]
           messages == received[p]
<1>1. /\ q \in Party /\ q # p /\ Peer(q) = p
      /\ WellFormed(r) /\ WellFormed(s)
      /\ SentInOrder(s, q, peers)
      /\ peers \in Seq(Message) /\ messages \in Seq(Message)
      /\ Kept(p) /\ Kept(q)
  BY PartyInOrder, PeerIsParty DEF AllKept
<1>2. PICK l \in DOMAIN peers : peers[l] = m
  BY RangeOfSequence
<1>3. /\ m \in Message /\ m.mac_key.index = m.counter /\ BehindSender(s, m)
      /\ m \notin Range(messages)
      /\ m.counter \in Nat
  <2>1. peers[l] \in Message
    BY <1>1, <1>2
  <2>2. /\ peers[l].counter = peers[l].mac_key.index
        /\ BehindSender(s, peers[l])
    BY <1>1, <1>2 DEF SentInOrder
  <2> HIDE DEF peers, s
  <2> QED BY <1>2, <2>1, <2>2, ChainFields
<1>4. \/ Level(r, s) \/ Leads(r, s) \/ Level(s, r) \/ Leads(s, r)
  <2>1. PICK x \in Party : \/ Level(ratchet[x], ratchet[Peer(x)])
                           \/ Leads(ratchet[x], ratchet[Peer(x)])
    BY DEF IInv, Synchronised
  <2>2. x = p \/ x = q
    BY PeerIsParty
  <2> QED BY <1>1, <2>1, <2>2
<1>5. /\ OneName(Names(peers, s.sender_chain, r.receiver_chains))
      /\ ChainKept(r, m, messages)
      /\ KeyKept(r, peers, m, messages)
  BY <1>1, <1>2 DEF Kept, Named, ChainsKept, KeysKept
<1>6. /\ NewerChains(p, m) = NewerIn(messages, m)
      /\ SkippedWith(p, m) = SkippedBeside(peers, messages, m)
  BY DEF NewerChains, NewerIn, SkippedWith, SkippedBeside, WasSkipped, SkippedIn
<1>7. IsFiniteSet(NewerIn(messages, m)) /\ IsFiniteSet(SkippedBeside(peers, messages, m))
  <2>1. IsFiniteSet(Range(messages)) /\ IsFiniteSet(Range(peers))
    BY <1>1, RangeIsFinite
  <2> DEFINE newer == {x \in Range(messages) :
                          IsStrictPrefix(m.mac_key.chain, x.mac_key.chain)}
             f == [x \in newer |-> x.ratchet_key]
  <2>2. IsFiniteSet(newer)
    BY <2>1, FS_Subset
  <2>3. NewerIn(messages, m) = {x.ratchet_key : x \in newer}
    BY DEF NewerIn
  <2>4. f \in Surjection(newer, NewerIn(messages, m))
    <3> HIDE DEF newer
    <3> QED BY <2>3 DEF Surjection
  <2>5. IsFiniteSet(NewerIn(messages, m))
    <3> HIDE DEF newer, f
    <3> QED BY <2>2, <2>4, FS_Surjection
  <2>6. SkippedBeside(peers, messages, m) \subseteq Range(peers)
    BY DEF SkippedBeside
  <2> QED BY <2>1, <2>5, <2>6, FS_Subset
<1>8. OLM_MAX_RECEIVER_CHAINS \in Nat /\ OLM_MAX_SKIPPED_MESSAGE_KEYS \in Nat
  BY ReceiverChainsAssumption, SkippedKeysAssumption
<1>9. /\ ~Decrypts(r, m)
      /\ m.counter - ExpectedIndex(r, m.ratchet_key) <= MAX_MESSAGE_GAP
  <2>1. ExpectedIndex(r, m.ratchet_key) \in Nat
    <3>1. CASE HasReceiverChain(r, m.ratchet_key)
      <4>1. r.receiver_chains[ReceiverChain(r, m.ratchet_key)] \in Chain
        BY <1>1, <3>1, ReceiverChainFound, RatchetFields
      <4> QED BY <3>1, <4>1, ChainFields DEF ExpectedIndex
    <3>2. CASE ~HasReceiverChain(r, m.ratchet_key)
      BY <3>2 DEF ExpectedIndex
    <3> QED BY <3>1, <3>2
  <2> QED BY <1>3, <2>1, MessageGapAssumption
<1> HIDE DEF q, r, s, peers, messages
<1>10. CASE HasReceiverChain(r, m.ratchet_key)
  <2> DEFINE j == ReceiverChain(r, m.ratchet_key)
  <2>1. /\ j \in DOMAIN r.receiver_chains
        /\ r.receiver_chains[j].ratchet_key = m.ratchet_key
    BY <1>1, <1>10, ReceiverChainFound, RatchetFields
  <2>2. m.mac_key.chain = r.receiver_chains[j].chain_key.chain
    <3> HIDE DEF j
    <3>1. SameName(peers[l].ratchet_key, peers[l].mac_key.chain,
                   r.receiver_chains[j].ratchet_key, r.receiver_chains[j].chain_key.chain)
      <4> HIDE DEF SameName
      <4> QED BY <1>2, <1>5, <2>1, NamesAgree
    <3> QED BY <1>2, <2>1, <3>1 DEF SameName
  <2>3. AlreadyAdvanced(r, m)
    BY <1>1, <1>3, <1>9, <1>10, <2>2, KnownChainDecrypts
  <2>4. ~HasSkippedKey(r, m.ratchet_key, m.mac_key)
    <3> SUFFICES ASSUME NEW i \in DOMAIN r.skipped_message_keys,
                        r.skipped_message_keys[i].ratchet_key = m.ratchet_key,
                        r.skipped_message_keys[i].message_key = m.mac_key
                 PROVE  FALSE
      BY DEF HasSkippedKey
    <3>1. i \in SkippedKeysFor(r, m)
      BY <1>3 DEF SkippedKeysFor
    <3> QED BY <1>9, <1>10, <2>3, <3>1 DEF Decrypts
  <2>5. AtLeast(SkippedBeside(peers, messages, m), OLM_MAX_SKIPPED_MESSAGE_KEYS)
    BY <1>3, <1>5, <2>3, <2>4 DEF KeyKept
  <2>6. Cardinality(SkippedWith(p, m)) >= OLM_MAX_SKIPPED_MESSAGE_KEYS
    BY <1>6, <1>7, <1>8, <2>5, AtLeastCounted
  <2> QED BY <2>3, <2>6 DEF r
<1>11. CASE ~HasReceiverChain(r, m.ratchet_key)
  <2>1. Len(m.mac_key.chain) <= Len(r.root_key)
    <3>1. Len(m.mac_key.chain) \in Nat /\ Len(r.root_key) \in Nat
      BY <1>1, <1>3, RatchetFields, ChainFields
    <3>2. ~(Len(r.root_key) < Len(m.mac_key.chain))
      BY <1>1, <1>3, <1>4, <1>9, <1>11, UnknownChainDecrypts
    <3> QED BY <3>1, <3>2
  <2>2. AtLeast(NewerIn(messages, m), OLM_MAX_RECEIVER_CHAINS)
    BY <1>5, <1>11, <2>1 DEF ChainKept
  <2> QED BY <1>6, <1>7, <1>8, <2>2, AtLeastCounted
<1> QED BY <1>10, <1>11

(* A message is lost only to one of the three limits: a gap before it on   *)
(* its chain, newer chains that pushed its chain out, or other skipped     *)
(* messages that pushed its key out.                                       *)
THEOREM SpecLostOnlyToLimits == Spec => []LostOnlyToLimits
<1>1. Spec => []IInv
  BY Invariance
<1>2. Init => AllNumbered /\ AllOnThePath /\ AllKept
  BY InitNumbered, InitOnThePath, InitKept
<1>3. IInv /\ (AllNumbered /\ AllOnThePath /\ AllKept) /\ [Next]_vars
        => (AllNumbered /\ AllOnThePath /\ AllKept)'
  BY NextNumbered, NextOnThePath, NextKept
<1>4. IInv /\ (AllNumbered /\ AllOnThePath /\ AllKept) => LostOnlyToLimits
  BY KeptAreLostOnlyToLimits
<1> QED BY <1>1, <1>2, <1>3, <1>4, PTL DEF Spec

-----------------------------------------------------------------------------
(* Within the limits nothing is lost (NothingLost).                        *)
(*                                                                         *)
(* No message has a higher number than its sender sent messages, and every *)
(* step of a root key took one.                                            *)
Total == Len(sent[Alice]) + Len(sent[Bob])

FewMessages(r, messages, total) ==
    /\ \A i \in DOMAIN messages : /\ messages[i].counter < Len(messages)
                                  /\ Len(messages[i].mac_key.chain) >= 1
    /\ r.sender_chain # <<>> => r.sender_chain[1].chain_key.index <= Len(messages)
    /\ Len(r.root_key) >= 1
    /\ Len(r.root_key) <= total + 1

Few == /\ Total <= MaxSends
       /\ \A p \in Party : FewMessages(ratchet[p], sent[p], Total)

LEMMA InitFew == Init => Few
<1> SUFFICES ASSUME Init PROVE Few
  OBVIOUS
<1>1. \A p \in Party : sent[p] = <<>>
  BY DEF Init
<1>2. Total = 0
  <2>1. sent[Alice] = <<>> /\ sent[Bob] = <<>>
    BY <1>1 DEF Party
  <2> QED BY <2>1 DEF Total
<1>3. ASSUME NEW p \in Party
      PROVE  /\ Len(ratchet[p].root_key) = 1
             /\ ratchet[p].sender_chain # <<>>
                  => ratchet[p].sender_chain[1].chain_key.index = 0
  BY DEF Init, InitialiseAsAlice, InitialiseAsBob, NewChainKey
<1>4. Total <= MaxSends
  BY <1>2, MaxSendsAssumption
<1>5. ASSUME NEW p \in Party PROVE FewMessages(ratchet[p], <<>>, 0)
  <2> DEFINE r == ratchet[p]
             none == <<>>
  <2>1. /\ DOMAIN none = {} /\ Len(none) = 0
        /\ Len(r.root_key) = 1
        /\ r.sender_chain # <<>> => r.sender_chain[1].chain_key.index = 0
    BY <1>3
  <2> HIDE DEF r, none
  <2>2. FewMessages(r, none, 0)
    BY <2>1 DEF FewMessages
  <2> QED BY <2>2 DEF r, none
<1> QED BY <1>1, <1>2, <1>4, <1>5 DEF Few

LEMMA EncryptFew ==
    ASSUME NEW r, WellFormed(r), NEW k \in RatchetKey, NEW n \in Nat, NEW p \in Party,
           NEW messages \in Seq(Message), NEW total \in Nat,
           ChainsInOrder(r, p),
           FewMessages(r, messages, total)
    PROVE  FewMessages(AfterEncrypt(r, k), Append(messages, EncryptedMessage(r, k, n)),
                       total + 1)
<1> DEFINE e == AfterEncrypt(r, k)
           m == EncryptedMessage(r, k, n)
           more == Append(messages, m)
<1>1. r.root_key \in RootKey /\ Len(r.root_key) \in Nat /\ Len(messages) \in Nat
  BY RatchetFields
<1>2. /\ e.sender_chain # <<>>
      /\ e.sender_chain[1].chain_key.index <= Len(messages) + 1
      /\ m.counter < Len(messages) + 1
      /\ Len(m.mac_key.chain) >= 1
      /\ Len(e.root_key) >= 1 /\ Len(e.root_key) <= total + 1 + 1
  <2>1. CASE r.sender_chain # <<>>
    <3> DEFINE c == r.sender_chain[1]
    <3>1. /\ e.root_key = r.root_key
          /\ e.sender_chain # <<>>
          /\ e.sender_chain[1].chain_key.index = c.chain_key.index + 1
          /\ m.counter = c.chain_key.index
          /\ m.mac_key.chain = c.chain_key.chain
      BY <2>1, EncryptOnChain
    <3>2. /\ c.chain_key.index \in Nat
          /\ c.chain_key.chain = r.root_key
          /\ c.chain_key.index <= Len(messages)
          /\ Len(r.root_key) >= 1 /\ Len(r.root_key) <= total + 1
      BY <2>1, RatchetFields, ChainFields DEF FewMessages, ChainsInOrder
    <3> HIDE DEF c, e, m
    <3> QED BY <1>1, <3>1, <3>2
  <2>2. CASE r.sender_chain = <<>>
    <3> DEFINE secret == {k, r.receiver_chains[1].ratchet_key}
    <3>1. /\ e.root_key = Append(r.root_key, secret)
          /\ e.sender_chain # <<>>
          /\ e.sender_chain[1].chain_key.index = 1
          /\ m.counter = 0
          /\ m.mac_key.chain = Append(r.root_key, secret)
      BY <2>2, EncryptNewChain
    <3>2. Len(r.root_key) <= total + 1
      BY DEF FewMessages
    <3> HIDE DEF secret, e, m
    <3>3. Len(Append(r.root_key, secret)) = Len(r.root_key) + 1
      BY <1>1 DEF RootKey
    <3> QED BY <1>1, <3>1, <3>2, <3>3
  <2> QED BY <2>1, <2>2
<1> HIDE DEF e, m
<1>3. /\ Len(more) = Len(messages) + 1
      /\ \A i \in DOMAIN more : \/ more[i] = m
                                \/ i \in DOMAIN messages /\ more[i] = messages[i]
  OBVIOUS
<1>4. \A i \in DOMAIN messages : messages[i].counter \in Nat
  BY ChainFields
<1> HIDE DEF more
<1> QED BY <1>1, <1>2, <1>3, <1>4 DEF FewMessages, e, m, more

LEMMA DecryptFew ==
    ASSUME NEW r, NEW s, WellFormed(r), WellFormed(s), NEW m \in Message, Decrypts(r, m),
           BehindSender(s, m),
           NEW messages, NEW total \in Nat, Len(s.root_key) <= total + 1,
           FewMessages(r, messages, total)
    PROVE  FewMessages(AfterDecrypt(r, m), messages, total)
<1> DEFINE e == AfterDecrypt(r, m)
<1>1. /\ r.root_key \in RootKey /\ Len(r.root_key) \in Nat
      /\ Len(s.root_key) \in Nat /\ Len(m.mac_key.chain) \in Nat
  BY RatchetFields, ChainFields
<1>2. e.sender_chain = r.sender_chain \/ e.sender_chain = <<>>
  BY DecryptChains
<1>3. Len(e.root_key) >= 1 /\ Len(e.root_key) <= total + 1
  <2>1. Len(r.root_key) >= 1 /\ Len(r.root_key) <= total + 1
    BY DEF FewMessages
  <2>2. CASE AlreadyAdvanced(r, m)
    <3>1. e.root_key = r.root_key
      BY <2>2, DecryptSkipped
    <3> HIDE DEF e
    <3> QED BY <2>1, <3>1
  <2>3. CASE HasReceiverChain(r, m.ratchet_key) /\ ~AlreadyAdvanced(r, m)
    <3>1. e.root_key = r.root_key
      BY <2>3, DecryptOnKnownChain
    <3> HIDE DEF e
    <3> QED BY <2>1, <3>1
  <2>4. CASE ~HasReceiverChain(r, m.ratchet_key)
    <3> DEFINE root == Append(r.root_key, {r.sender_chain[1].ratchet_key, m.ratchet_key})
    <3>1. e.root_key = root /\ m.mac_key.chain = root
      BY <2>4, DecryptOnNewChain
    <3>2. Len(root) = Len(r.root_key) + 1
      BY <1>1 DEF RootKey
    <3>3. Len(m.mac_key.chain) <= Len(s.root_key)
      BY <1>1 DEF BehindSender
    <3> HIDE DEF e, root
    <3> QED BY <1>1, <3>1, <3>2, <3>3
  <2>5. ~HasReceiverChain(r, m.ratchet_key) => ~AlreadyAdvanced(r, m)
    BY DEF AlreadyAdvanced
  <2> QED BY <2>2, <2>3, <2>4, <2>5
<1> HIDE DEF e
<1> QED BY <1>2, <1>3 DEF FewMessages, e

LEMMA NextFew ==
    ASSUME IInv, Few, [Next]_vars
    PROVE  Few'
<1>1. /\ ratchet \in [Party -> RatchetState] /\ generated \in [Party -> Nat]
      /\ sent \in [Party -> Seq(Message)]
      /\ Alice \in Party /\ Bob \in Party
      /\ \A p \in Party : Len(sent[p]) \in Nat
      /\ Total \in Nat
  BY DEF IInv, TypeOK, Party, Total
<1>2. ASSUME NEW p \in Party, Encrypt(p)
      PROVE  Few'
  <2> DEFINE q == Peer(p)
             k == FreshKey(p)
             n == Len(sent[p]) + 1
             e == AfterEncrypt(ratchet[p], k)
             m == EncryptedMessage(ratchet[p], k, n)
             total == Total
  <2>1. /\ q \in Party /\ q # p /\ \A x \in Party : x = p \/ x = q
        /\ WellFormed(ratchet[p]) /\ ChainsInOrder(ratchet[p], p)
        /\ sent[p] \in Seq(Message)
        /\ FewMessages(ratchet[p], sent[p], total)
        /\ FewMessages(ratchet[q], sent[q], total)
    BY PartyInOrder, PeerIsParty DEF Few
  <2>2. k \in RatchetKey /\ n \in Nat
    BY <1>1 DEF FreshKey, RatchetKey
  <2>3. /\ ratchet' = [ratchet EXCEPT ![p] = e]
        /\ sent' = [sent EXCEPT ![p] = Append(@, m)]
        /\ Total < MaxSends
    BY <1>2 DEF Encrypt, NextMessage, Total
  <2> HIDE DEF q, k, n
  <2>4. FewMessages(e, Append(sent[p], m), total + 1)
    BY <1>1, <2>1, <2>2, EncryptFew
  <2>5. FewMessages(ratchet[q], sent[q], total + 1)
    <3>1. Len(ratchet[q].root_key) \in Nat
      BY <2>1, PartyInOrder, RatchetFields
    <3> QED BY <1>1, <2>1, <3>1 DEF FewMessages
  <2> HIDE DEF e, m
  <2>6. /\ ratchet'[p] = e /\ ratchet'[q] = ratchet[q]
        /\ sent'[p] = Append(sent[p], m) /\ sent'[q] = sent[q]
    BY <1>1, <2>1, <2>3
  <2>7. Total' = total + 1
    <3>1. Len(Append(sent[p], m)) = Len(sent[p]) + 1
      BY <1>1
    <3>2. {p, q} = {Alice, Bob} /\ Alice # Bob
      BY <2>1, PartiesAssumption DEF Party
    <3> DEFINE a == Len(sent[p])
               b == Len(sent[q])
    <3>5. a \in Nat /\ b \in Nat /\ Len(sent'[p]) = a + 1 /\ Len(sent'[q]) = b
      BY <1>1, <2>1, <2>6, <3>1
    <3>6. /\ Total = Len(sent[Alice]) + Len(sent[Bob])
          /\ Total' = Len(sent'[Alice]) + Len(sent'[Bob])
      BY DEF Total
    <3> HIDE DEF a, b
    <3>3. CASE p = Alice /\ q = Bob
      <4>1. Total = a + b /\ Total' = (a + 1) + b
        BY <3>3, <3>5, <3>6 DEF a, b
      <4> HIDE DEF total
      <4>2. total = Total
        BY DEF total
      <4> QED BY <3>5, <4>1, <4>2
    <3>4. CASE p = Bob /\ q = Alice
      <4>1. Total = b + a /\ Total' = b + (a + 1)
        BY <3>4, <3>5, <3>6 DEF a, b
      <4> HIDE DEF total
      <4>2. total = Total
        BY DEF total
      <4> QED BY <3>5, <4>1, <4>2
    <3> QED BY <3>2, <3>3, <3>4
  <2>8. Total' <= MaxSends
    BY <1>1, <2>3, <2>7, MaxSendsAssumption
  <2> HIDE DEF total
  <2>9. ASSUME NEW x \in Party
        PROVE  FewMessages(ratchet'[x], sent'[x], Total')
    BY <2>1, <2>4, <2>5, <2>6, <2>7
  <2> QED BY <2>8, <2>9 DEF Few
<1>3. ASSUME NEW p \in Party, NEW l \in DOMAIN sent[Peer(p)], Decrypt(p, sent[Peer(p)][l])
      PROVE  Few'
  <2> DEFINE q == Peer(p)
             m == sent[q][l]
             e == AfterDecrypt(ratchet[p], m)
  <2>1. /\ q \in Party /\ q # p /\ \A x \in Party : x = p \/ x = q
        /\ WellFormed(ratchet[p]) /\ WellFormed(ratchet[q])
        /\ m \in Message
        /\ BehindSender(ratchet[q], m)
        /\ FewMessages(ratchet[p], sent[p], Total)
        /\ FewMessages(ratchet[q], sent[q], Total)
    <3>1. /\ q \in Party /\ q # p /\ \A x \in Party : x = p \/ x = q
          /\ WellFormed(ratchet[p]) /\ WellFormed(ratchet[q])
          /\ SentInOrder(ratchet[q], q, sent[q])
          /\ \A i \in DOMAIN sent[q] : sent[q][i] \in Message
      BY PartyInOrder, PeerIsParty
    <3> QED BY <3>1 DEF SentInOrder, Few
  <2>2. /\ Decrypts(ratchet[p], m)
        /\ ratchet' = [ratchet EXCEPT ![p] = e]
        /\ sent' = sent
    BY <1>3 DEF Decrypt
  <2> HIDE DEF q, m
  <2>3. Len(ratchet[q].root_key) <= Total + 1
    BY <2>1 DEF FewMessages
  <2>4. FewMessages(e, sent[p], Total)
    BY <1>1, <2>1, <2>2, <2>3, DecryptFew
  <2> HIDE DEF e
  <2>5. ratchet'[p] = e /\ ratchet'[q] = ratchet[q]
    BY <1>1, <2>1, <2>2
  <2>6. Total' = Total /\ Total <= MaxSends
    BY <2>2 DEF Total, Few
  <2>7. ASSUME NEW x \in Party
        PROVE  FewMessages(ratchet'[x], sent'[x], Total')
    BY <2>1, <2>2, <2>4, <2>5, <2>6
  <2> QED BY <2>6, <2>7 DEF Few
<1>4. CASE UNCHANGED vars
  BY <1>4 DEF vars, Few, Total
<1> QED BY <1>2, <1>3, <1>4 DEF Next

-----------------------------------------------------------------------------
(* Chains of one party have lengths of one parity: at most half as many    *)
(* fit between one of them and the longest there is.                       *)
LEMMA FewNewerChains ==
    ASSUME NEW p \in Party, NEW messages \in Seq(Message), NEW m \in Message,
           NEW sending, NEW receiving,
           OneName(Names(messages, sending, receiving)),
           \A i \in DOMAIN messages :
              /\ IsChainOf(messages[i].mac_key.chain, p)
              /\ Len(messages[i].mac_key.chain) <= MaxSends + 1,
           IsChainOf(m.mac_key.chain, p), Len(m.mac_key.chain) >= 1,
           MaxSends < 2 * OLM_MAX_RECEIVER_CHAINS,
           NEW S, S \subseteq NewerIn(messages, m)
    PROVE  Cardinality(S) < OLM_MAX_RECEIVER_CHAINS
<1> DEFINE Len0 == Len(m.mac_key.chain)
           Of(k, i) == /\ messages[i].ratchet_key = k
                       /\ IsStrictPrefix(m.mac_key.chain, messages[i].mac_key.chain)
           at(k) == CHOOSE i \in DOMAIN messages : Of(k, i)
           len(k) == Len(messages[at(k)].mac_key.chain)
           n == OLM_MAX_RECEIVER_CHAINS - 1
           f == [k \in S |-> (len(k) - Len0) \div 2]
<1>1. /\ OLM_MAX_RECEIVER_CHAINS \in Nat \ {0} /\ n \in Nat
      /\ MaxSends \in Nat /\ Len0 \in Nat
  BY ReceiverChainsAssumption, MaxSendsAssumption, ChainFields
<1>2. ASSUME NEW k \in S
      PROVE  at(k) \in DOMAIN messages /\ Of(k, at(k))
  <2>1. \E i \in DOMAIN messages : Of(k, i)
    <3>1. k \in NewerIn(messages, m)
      OBVIOUS
    <3>2. PICK x \in Range(messages) :
             x.ratchet_key = k /\ IsStrictPrefix(m.mac_key.chain, x.mac_key.chain)
      BY <3>1, Zenon DEF NewerIn
    <3>3. PICK i \in DOMAIN messages : messages[i] = x
      BY RangeOfSequence
    <3> QED BY <3>2, <3>3
  <2> HIDE DEF Of
  <2> QED BY <2>1
<1>3. ASSUME NEW k \in S
      PROVE  /\ len(k) \in Nat
             /\ len(k) > Len0
             /\ len(k) <= MaxSends + 1
             /\ len(k) % 2 = Len0 % 2
  <2> DEFINE x == messages[at(k)]
  <2>1. /\ x \in Message
        /\ IsStrictPrefix(m.mac_key.chain, x.mac_key.chain)
        /\ IsChainOf(x.mac_key.chain, p)
        /\ Len(x.mac_key.chain) <= MaxSends + 1
    <3>1. at(k) \in DOMAIN messages /\ Of(k, at(k))
      BY <1>2
    <3> HIDE DEF at
    <3> QED BY <3>1
  <2> HIDE DEF x
  <2>2. /\ x.mac_key.chain \in RootKey /\ m.mac_key.chain \in RootKey
        /\ Len(x.mac_key.chain) \in Nat
    BY <2>1, ChainFields
  <2>3. Len(m.mac_key.chain) < Len(x.mac_key.chain)
    BY <2>1, <2>2, StrictPrefixIsShorter DEF RootKey
  <2>4. Len(x.mac_key.chain) % 2 = Len(m.mac_key.chain) % 2
    BY <2>1 DEF IsChainOf
  <2>5. len(k) = Len(x.mac_key.chain)
    BY DEF x
  <2> HIDE DEF len
  <2> QED BY <2>1, <2>2, <2>3, <2>4, <2>5
<1>4. ASSUME NEW k \in S, NEW l \in S, len(k) = len(l)
      PROVE  k = l
  <2>1. /\ at(k) \in DOMAIN messages /\ messages[at(k)].ratchet_key = k
        /\ at(l) \in DOMAIN messages /\ messages[at(l)].ratchet_key = l
    <3>1. /\ at(k) \in DOMAIN messages /\ Of(k, at(k))
          /\ at(l) \in DOMAIN messages /\ Of(l, at(l))
      BY <1>2
    <3> HIDE DEF at
    <3> QED BY <3>1
  <2> DEFINE i == at(k)
             j == at(l)
  <2>2. Len(messages[i].mac_key.chain) = Len(messages[j].mac_key.chain)
    BY <1>4
  <2> HIDE DEF i, j
  <2>3. i \in DOMAIN messages /\ messages[i].ratchet_key = k
        /\ j \in DOMAIN messages /\ messages[j].ratchet_key = l
    BY <2>1 DEF i, j
  <2>4. SameName(messages[i].ratchet_key, messages[i].mac_key.chain,
                 messages[j].ratchet_key, messages[j].mac_key.chain)
    <3> HIDE DEF SameName, len, at
    <3> QED BY <2>3, NamesAgree
  <2> QED BY <2>2, <2>3, <2>4 DEF SameName
<1> HIDE DEF Len0, at, len
<1>5. ASSUME NEW k \in S
      PROVE  f[k] \in 1 .. n
  <2>1. f[k] = (len(k) - Len0) \div 2
    OBVIOUS
  <2>2. (len(k) - Len0) >= 2
    BY <1>1, <1>3
  <2>3. Len0 >= 1
    BY DEF Len0
  <2>4. len(k) - Len0 <= 2 * n + 1
    BY <1>1, <1>3, <2>3
  <2> DEFINE d == len(k) - Len0
  <2>5. d \in Nat /\ d >= 2 /\ d <= 2 * n + 1 /\ f[k] = d \div 2
    BY <1>1, <1>3, <2>1, <2>2, <2>4
  <2> HIDE DEF d, f, n
  <2> QED BY <1>1, <2>5
<1>6. ASSUME NEW k \in S, NEW l \in S, f[k] = f[l]
      PROVE  k = l
  <2>1. (len(k) - Len0) \div 2 = (len(l) - Len0) \div 2
    BY <1>6
  <2>2. /\ len(k) \in Nat /\ len(l) \in Nat
        /\ len(k) % 2 = Len0 % 2 /\ len(l) % 2 = Len0 % 2
        /\ len(k) > Len0 /\ len(l) > Len0
    BY <1>3
  <2>3. \A a, b, c \in Nat : a % 2 = c % 2 /\ b % 2 = c % 2 /\ a > c /\ b > c
                               /\ (a - c) \div 2 = (b - c) \div 2 => a = b
    OBVIOUS
  <2>4. len(k) = len(l)
    BY <1>1, <2>1, <2>2, <2>3
  <2> QED BY <1>4, <2>4
<1>7. f \in Injection(S, 1 .. n)
  BY <1>5, <1>6 DEF Injection, IsInjective
<1> HIDE DEF f
<1>8. IsFiniteSet(1 .. n) /\ Cardinality(1 .. n) = n
  <2> HIDE DEF n
  <2>1. 1 \in Int /\ n \in Int /\ (IF 1 > n THEN 0 ELSE n - 1 + 1) = n
    BY <1>1
  <2> QED BY <2>1, FS_Interval
<1>9. IsFiniteSet(S) /\ Cardinality(S) <= n
  BY <1>7, <1>8, FS_Injection
<1>10. Cardinality(S) \in Nat
  BY <1>9, FS_CardinalityType
<1> QED BY <1>1, <1>9, <1>10

LEMMA FewAreNotLost ==
    ASSUME MaxSends < 2 * OLM_MAX_RECEIVER_CHAINS,
           MaxSends <= OLM_MAX_SKIPPED_MESSAGE_KEYS,
           MaxSends <= MAX_MESSAGE_GAP,
           IInv, AllKept, Few, LostOnlyToLimits
    PROVE  NothingLost
<1> SUFFICES ASSUME NEW p \in Party,
                    NEW m \in Range(sent[Peer(p)]) \ Range(received[p])
             PROVE  Decrypts(ratchet[p], m)
  BY DEF NothingLost
<1> DEFINE q == Peer(p)
           r == ratchet[p]
           s == ratchet[q]
           peers == sent[q]
           messages == received[p]
<1>1. /\ q \in Party /\ q # p /\ Peer(q) = p
      /\ WellFormed(r) /\ WellFormed(s)
      /\ SentInOrder(s, q, peers)
      /\ ReceivedInOrder(r, messages, peers)
      /\ peers \in Seq(Message) /\ messages \in Seq(Message)
      /\ FewMessages(s, peers, Total)
      /\ Kept(q)
      /\ Total <= MaxSends
  BY PartyInOrder, PeerIsParty DEF AllKept, Few
<1>2. PICK l \in DOMAIN peers : peers[l] = m
  BY RangeOfSequence
<1>3. /\ Total \in Nat /\ Len(peers) \in Nat /\ Len(peers) <= Total
      /\ MaxSends \in Nat /\ MAX_MESSAGE_GAP \in Nat
      /\ OLM_MAX_RECEIVER_CHAINS \in Nat /\ OLM_MAX_SKIPPED_MESSAGE_KEYS \in Nat
  <2>1. Len(sent[Alice]) \in Nat /\ Len(sent[Bob]) \in Nat
    BY DEF IInv, TypeOK, Party
  <2>2. q = Alice \/ q = Bob
    BY <1>1 DEF Party
  <2>3. Len(peers) \in Nat /\ Len(peers) <= Total /\ Total \in Nat
    <3>1. Len(peers) = Len(sent[Alice]) \/ Len(peers) = Len(sent[Bob])
      BY <2>2
    <3> DEFINE a == Len(sent[Alice])
               b == Len(sent[Bob])
               c == Len(peers)
    <3>2. a \in Nat /\ b \in Nat /\ (c = a \/ c = b) /\ Total = a + b
      BY <2>1, <3>1 DEF Total
    <3> HIDE DEF a, b, c
    <3>3. c \in Nat /\ c <= Total /\ Total \in Nat
      BY <3>2
    <3> QED BY <3>3 DEF c
  <2> QED BY <2>3, MaxSendsAssumption, MessageGapAssumption,
             ReceiverChainsAssumption, SkippedKeysAssumption
<1>4. /\ m \in Message
      /\ m.counter \in Nat /\ m.counter < Len(peers)
      /\ Len(m.mac_key.chain) >= 1
      /\ IsChainOf(m.mac_key.chain, q)
  <2>1. /\ peers[l] \in Message
        /\ peers[l].counter < Len(peers)
        /\ Len(peers[l].mac_key.chain) >= 1
        /\ IsChainOf(peers[l].mac_key.chain, q)
    BY <1>1 DEF SentInOrder, FewMessages
  <2> HIDE DEF peers, q
  <2> QED BY <1>2, <2>1, ChainFields
<1>5. \/ Decrypts(r, m)
      \/ m.counter - ExpectedIndex(r, m.ratchet_key) > MAX_MESSAGE_GAP
      \/ Cardinality(NewerChains(p, m)) >= OLM_MAX_RECEIVER_CHAINS
      \/ Cardinality(SkippedWith(p, m)) >= OLM_MAX_SKIPPED_MESSAGE_KEYS
  BY DEF LostOnlyToLimits
<1>6. \A i \in DOMAIN peers : /\ IsChainOf(peers[i].mac_key.chain, q)
                              /\ Len(peers[i].mac_key.chain) <= MaxSends + 1
  <2> SUFFICES ASSUME NEW i \in DOMAIN peers
               PROVE  /\ IsChainOf(peers[i].mac_key.chain, q)
                      /\ Len(peers[i].mac_key.chain) <= MaxSends + 1
    OBVIOUS
  <2>1. /\ peers[i] \in Message
        /\ IsChainOf(peers[i].mac_key.chain, q)
        /\ BehindSender(s, peers[i])
        /\ Len(s.root_key) <= Total + 1
    BY <1>1 DEF SentInOrder, FewMessages
  <2>2. Len(peers[i].mac_key.chain) \in Nat /\ Len(s.root_key) \in Nat
    BY <1>1, <2>1, RatchetFields, ChainFields
  <2> HIDE DEF peers, q, s
  <2>3. Len(peers[i].mac_key.chain) <= Len(s.root_key)
    BY <2>1, <2>2 DEF BehindSender
  <2> QED BY <1>1, <1>3, <2>1, <2>2, <2>3
<1>7. ~(m.counter - ExpectedIndex(r, m.ratchet_key) > MAX_MESSAGE_GAP)
  <2>1. ExpectedIndex(r, m.ratchet_key) \in Nat
    <3>1. CASE HasReceiverChain(r, m.ratchet_key)
      <4>1. r.receiver_chains[ReceiverChain(r, m.ratchet_key)] \in Chain
        BY <1>1, <3>1, ReceiverChainFound, RatchetFields
      <4> QED BY <3>1, <4>1, ChainFields DEF ExpectedIndex
    <3>2. CASE ~HasReceiverChain(r, m.ratchet_key)
      BY <3>2 DEF ExpectedIndex
    <3> QED BY <3>1, <3>2
  <2> HIDE DEF peers, r
  <2> QED BY <1>1, <1>3, <1>4, <2>1
<1>8. ~(Cardinality(NewerChains(p, m)) >= OLM_MAX_RECEIVER_CHAINS)
  <2>1. NewerChains(p, m) = NewerIn(messages, m)
    BY DEF NewerChains, NewerIn
  <2>2. Range(messages) \subseteq Range(peers)
    <3>1. \A i \in DOMAIN messages : \E j \in DOMAIN peers : messages[i] = peers[j]
      BY <1>1 DEF ReceivedInOrder
    <3> HIDE DEF messages, peers
    <3> QED BY <3>1 DEF Range
  <2>3. NewerIn(messages, m) \subseteq NewerIn(peers, m)
    <3> HIDE DEF messages, peers
    <3> QED BY <2>2, Zenon DEF NewerIn
  <2>4. OneName(Names(peers, s.sender_chain, ratchet[Peer(q)].receiver_chains))
    BY <1>1 DEF Kept, Named
  <2> DEFINE newer == NewerIn(messages, m)
             sending == s.sender_chain
             receiving == ratchet[Peer(q)].receiver_chains
  <2>5. OneName(Names(peers, sending, receiving)) /\ newer \subseteq NewerIn(peers, m)
    BY <2>3, <2>4
  <2>6. q \in Party /\ peers \in Seq(Message)
    BY <1>1
  <2> HIDE DEF newer, sending, receiving, peers, q
  <2>7. Cardinality(newer) < OLM_MAX_RECEIVER_CHAINS
    <3>1. MaxSends < 2 * OLM_MAX_RECEIVER_CHAINS
      OBVIOUS
    <3> QED BY ONLY <1>4, <1>6, <2>5, <2>6, <3>1, FewNewerChains
  <2>8. Cardinality(newer) \in Nat
    <3>1. IsFiniteSet(newer)
      <4>1. IsFiniteSet(Range(messages))
        BY <1>1, RangeIsFinite
      <4> DEFINE those == {x \in Range(messages) :
                              IsStrictPrefix(m.mac_key.chain, x.mac_key.chain)}
                 f == [x \in those |-> x.ratchet_key]
      <4>2. IsFiniteSet(those)
        BY <4>1, FS_Subset
      <4>3. newer = {x.ratchet_key : x \in those}
        BY DEF NewerIn, newer
      <4> HIDE DEF those
      <4>4. f \in Surjection(those, newer)
        BY <4>3 DEF Surjection
      <4> HIDE DEF f
      <4> QED BY <4>2, <4>4, FS_Surjection
    <3> QED BY <3>1, FS_CardinalityType
  <2> QED BY <1>3, <2>1, <2>7, <2>8 DEF newer
<1>9. ~(Cardinality(SkippedWith(p, m)) >= OLM_MAX_SKIPPED_MESSAGE_KEYS)
  <2>1. SkippedWith(p, m) \subseteq Range(peers) \ {m}
    BY DEF SkippedWith
  <2>2. IsFiniteSet(Range(peers)) /\ Cardinality(Range(peers)) <= Len(peers)
    BY <1>1, RangeIsFinite
  <2>3. m \in Range(peers)
    OBVIOUS
  <2> DEFINE others == Range(peers) \ {m}
             skipped == SkippedWith(p, m)
             all == Range(peers)
  <2>4. IsFiniteSet(others) /\ Cardinality(others) = Cardinality(all) - 1
    BY <2>2, <2>3, FS_RemoveElement
  <2> HIDE DEF others, skipped, all
  <2>5. IsFiniteSet(skipped) /\ Cardinality(skipped) <= Cardinality(others)
    <3>1. skipped \subseteq others
      BY <2>1 DEF others, skipped
    <3> QED BY <2>4, <3>1, FS_Subset
  <2>6. /\ Cardinality(skipped) \in Nat /\ Cardinality(all) \in Nat
        /\ Cardinality(all) <= Len(peers)
    <3>1. IsFiniteSet(all) /\ Cardinality(all) <= Len(peers)
      BY <2>2 DEF all
    <3> QED BY <2>5, <3>1, FS_CardinalityType
  <2> HIDE DEF peers
  <2> QED BY <1>1, <1>3, <2>4, <2>5, <2>6 DEF skipped
<1> QED BY <1>5, <1>7, <1>8, <1>9

(* Within the limits every message that was sent can be decrypted, at any  *)
(* time and in any order, until it is.  The hypotheses say what "within    *)
(* the limits" is: a reply takes a root key each way, so twice as many     *)
(* messages as chains fit; the other two limits count single messages.     *)
THEOREM SpecNothingLost ==
    ASSUME MaxSends < 2 * OLM_MAX_RECEIVER_CHAINS,
           MaxSends <= OLM_MAX_SKIPPED_MESSAGE_KEYS,
           MaxSends <= MAX_MESSAGE_GAP
    PROVE  Spec => []NothingLost
<1>1. Spec => []IInv /\ []LostOnlyToLimits
  BY Invariance, SpecLostOnlyToLimits, PTL
<1>2. Init => AllNumbered /\ AllOnThePath /\ AllKept /\ Few
  BY InitNumbered, InitOnThePath, InitKept, InitFew
<1>3. IInv /\ (AllNumbered /\ AllOnThePath /\ AllKept /\ Few) /\ [Next]_vars
        => (AllNumbered /\ AllOnThePath /\ AllKept /\ Few)'
  BY NextNumbered, NextOnThePath, NextKept, NextFew
<1>4. IInv /\ LostOnlyToLimits /\ (AllNumbered /\ AllOnThePath /\ AllKept /\ Few)
        => NothingLost
  BY FewAreNotLost
<1> QED BY <1>1, <1>2, <1>3, <1>4, PTL DEF Spec
=============================================================================

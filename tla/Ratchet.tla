------------------------------- MODULE Ratchet -------------------------------
(***************************************************************************)
(* The double ratchet of src/ratchet.c as operators on the record          *)
(* _OlmRatchet.  RatchetPair runs two of them against each other.          *)
(*                                                                         *)
(* Keys are symbolic.  A public ratchet key is any value that names its    *)
(* key pair.  A root key is the sequence of the secrets that were fed into *)
(* HKDF to reach it: the session's initial shared secret, then one         *)
(* Diffie-Hellman secret per ratchet step.  HKDF yields a root key and a   *)
(* chain key from the same input, so a chain is named by the root key made *)
(* together with it.  The chain key after n HMACs is [chain, index = n],   *)
(* and the message key made from it is that same pair.  Two keys are equal *)
(* in the model exactly when they were derived from the same inputs: the   *)
(* primitives are taken to be collision free, and a MAC verifies exactly   *)
(* under the key that made it.                                             *)
(***************************************************************************)
EXTENDS Integers, Sequences, OlmList

CONSTANTS
    OLM_MAX_RECEIVER_CHAINS,        \* 5 in ratchet.h
    OLM_MAX_SKIPPED_MESSAGE_KEYS,   \* 40 in ratchet.h
    MAX_MESSAGE_GAP                 \* 2000 in ratchet.c

ASSUME ReceiverChainsAssumption == OLM_MAX_RECEIVER_CHAINS \in Nat \ {0}
ASSUME SkippedKeysAssumption == OLM_MAX_SKIPPED_MESSAGE_KEYS \in Nat \ {0}
ASSUME MessageGapAssumption == MAX_MESSAGE_GAP \in Nat

(* Curve25519: both sides of an exchange compute the same secret.          *)
SharedSecret(our_key, their_key) == {our_key, their_key}

CreateRootKey(root_key, our_key, their_key) ==
    Append(root_key, SharedSecret(our_key, their_key))

NewChainKey(root_key) == [chain |-> root_key, index |-> 0]

AdvanceChainKey(chain_key) == [chain_key EXCEPT !.index = @ + 1]

-----------------------------------------------------------------------------
(* The two ways a ratchet starts, from the shared secret of the triple     *)
(* Diffie-Hellman and the first ratchet key, which is Alice's.             *)

InitialiseAsAlice(secret, our_ratchet_key) ==
    [root_key             |-> <<secret>>,
     sender_chain         |-> <<[ratchet_key |-> our_ratchet_key,
                                 chain_key   |-> NewChainKey(<<secret>>)]>>,
     receiver_chains      |-> <<>>,
     skipped_message_keys |-> <<>>]

InitialiseAsBob(secret, their_ratchet_key) ==
    [root_key             |-> <<secret>>,
     sender_chain         |-> <<>>,
     receiver_chains      |-> <<[ratchet_key |-> their_ratchet_key,
                                 chain_key   |-> NewChainKey(<<secret>>)]>>,
     skipped_message_keys |-> <<>>]

-----------------------------------------------------------------------------
(* Encryption.                                                             *)

(* A party that is not sending yet starts a new chain from a new ratchet   *)
(* key and the newest ratchet key of its peer.                             *)
WithSenderChain(r, fresh_key) ==
    IF r.sender_chain # <<>>
      THEN r
      ELSE LET root == CreateRootKey(r.root_key, fresh_key,
                                     r.receiver_chains[1].ratchet_key)
           IN  [r EXCEPT
                  !.root_key     = root,
                  !.sender_chain = ListInsertFront(@,
                                       [ratchet_key |-> fresh_key,
                                        chain_key   |-> NewChainKey(root)], 1)]

(* The message carries the ratchet key, the counter and a MAC under the    *)
(* message key.                                                            *)
EncryptedMessage(r, fresh_key, plaintext) ==
    LET sender == WithSenderChain(r, fresh_key).sender_chain[1]
    IN  [ratchet_key |-> sender.ratchet_key,
         counter     |-> sender.chain_key.index,
         mac_key     |-> sender.chain_key,
         plaintext   |-> plaintext]

(* Faulty variant: the chain key is not advanced after use.                *)
AfterEncryptNotAdvanced(r, fresh_key) == WithSenderChain(r, fresh_key)

AfterEncrypt(r, fresh_key) ==
    [WithSenderChain(r, fresh_key) EXCEPT
        !.sender_chain[1].chain_key = AdvanceChainKey(@)]

-----------------------------------------------------------------------------
(* Decryption.                                                             *)

HasReceiverChain(r, ratchet_key) ==
    \E i \in DOMAIN r.receiver_chains :
        r.receiver_chains[i].ratchet_key = ratchet_key

(* The search goes from the newest chain to the oldest and stops at the    *)
(* first match.                                                            *)
ReceiverChain(r, ratchet_key) ==
    CHOOSE i \in DOMAIN r.receiver_chains :
        /\ r.receiver_chains[i].ratchet_key = ratchet_key
        /\ \A j \in 1 .. i - 1 : r.receiver_chains[j].ratchet_key # ratchet_key

(* The key on the chain for the message's counter, when it is neither      *)
(* behind the chain nor too far ahead, is the one that made the MAC.       *)
VerifiesOnChain(chain_key, message) ==
    /\ message.counter >= chain_key.index
    /\ message.counter - chain_key.index <= MAX_MESSAGE_GAP
    /\ message.mac_key = [chain_key EXCEPT !.index = message.counter]

(* The root key a message with an unknown ratchet key leads to.            *)
NextRootKey(r, ratchet_key) ==
    CreateRootKey(r.root_key, r.sender_chain[1].ratchet_key, ratchet_key)

VerifiesOnNewChain(r, message) ==
    /\ r.sender_chain # <<>>
    /\ message.counter <= MAX_MESSAGE_GAP
    /\ VerifiesOnChain(NewChainKey(NextRootKey(r, message.ratchet_key)), message)

(* Positions of the skipped keys that decrypt the message.                 *)
SkippedKeysFor(r, message) ==
    {i \in DOMAIN r.skipped_message_keys :
        /\ r.skipped_message_keys[i].message_key.index = message.counter
        /\ r.skipped_message_keys[i].ratchet_key = message.ratchet_key
        /\ r.skipped_message_keys[i].message_key = message.mac_key}

AlreadyAdvanced(r, message) ==
    /\ HasReceiverChain(r, message.ratchet_key)
    /\ r.receiver_chains[ReceiverChain(r, message.ratchet_key)].chain_key.index
         > message.counter

(* Does _olm_ratchet_decrypt return a plaintext?                           *)
Decrypts(r, message) ==
    IF ~HasReceiverChain(r, message.ratchet_key)
      THEN VerifiesOnNewChain(r, message)
      ELSE IF AlreadyAdvanced(r, message)
        THEN SkippedKeysFor(r, message) # {}
        ELSE VerifiesOnChain(
               r.receiver_chains[ReceiverChain(r, message.ratchet_key)].chain_key,
               message)

(* Faulty variants of the next definition: the old sender chain is kept,   *)
(* the root key is not replaced, the newest chain replaces all the others. *)
WithReceiverChainStillSending(r, ratchet_key) ==
    IF HasReceiverChain(r, ratchet_key)
      THEN r
      ELSE [r EXCEPT
              !.root_key        = NextRootKey(r, ratchet_key),
              !.receiver_chains = ListInsertFront(@,
                  [ratchet_key |-> ratchet_key,
                   chain_key   |-> NewChainKey(NextRootKey(r, ratchet_key))],
                  OLM_MAX_RECEIVER_CHAINS)]

WithReceiverChainOldRoot(r, ratchet_key) ==
    IF HasReceiverChain(r, ratchet_key)
      THEN r
      ELSE [WithReceiverChainStillSending(r, ratchet_key) EXCEPT
              !.root_key     = r.root_key,
              !.sender_chain = ListErase(@, 1)]

WithReceiverChainReplacing(r, ratchet_key) ==
    IF HasReceiverChain(r, ratchet_key)
      THEN r
      ELSE [WithReceiverChainStillSending(r, ratchet_key) EXCEPT
              !.receiver_chains = <<@[1]>>,
              !.sender_chain    = ListErase(@, 1)]

(* The peer moved to a new ratchet key: follow it, and drop our own chain  *)
(* so that the next outbound message starts a fresh one.                   *)
WithReceiverChain(r, ratchet_key) ==
    IF HasReceiverChain(r, ratchet_key)
      THEN r
      ELSE [r EXCEPT
              !.root_key        = NextRootKey(r, ratchet_key),
              !.receiver_chains = ListInsertFront(@,
                  [ratchet_key |-> ratchet_key,
                   chain_key   |-> NewChainKey(NextRootKey(r, ratchet_key))],
                  OLM_MAX_RECEIVER_CHAINS),
              !.sender_chain    = ListErase(@, 1)]

(* The keys the loop skips, newest first.                                  *)
SkippedOn(chain, counter) ==
    [i \in 1 .. counter - chain.chain_key.index |->
        [ratchet_key |-> chain.ratchet_key,
         message_key |-> [chain.chain_key EXCEPT !.index = counter - i]]]

(* Faulty variants: the key of the counter itself is stored too, the keys  *)
(* skipped earlier are forgotten, the last skipped key is left out.        *)
AfterSkippingIncluded(skipped, chain, counter) ==
    IF counter = chain.chain_key.index
      THEN skipped
      ELSE ListInsertFront(skipped,
               [ratchet_key |-> chain.ratchet_key,
                message_key |-> [chain.chain_key EXCEPT !.index = counter]],
               OLM_MAX_SKIPPED_MESSAGE_KEYS)

AfterSkippingForgetful(skipped, chain, counter) ==
    IF counter = chain.chain_key.index
      THEN skipped
      ELSE SkippedOn(chain, counter)

AfterSkippingOneShort(skipped, chain, counter) ==
    IF counter = chain.chain_key.index
      THEN skipped
      ELSE SkippedOn(chain, counter - 1) \o skipped

(* The skipping loop puts the key of every index from the chain's up to    *)
(* the counter in front of the list, one after another; what exceeds the   *)
(* capacity falls off the end.  The newest key is therefore the first.     *)
AfterSkipping(skipped, chain, counter) ==
    LET new    == counter - chain.chain_key.index
        length == IF new + Len(skipped) < OLM_MAX_SKIPPED_MESSAGE_KEYS
                    THEN new + Len(skipped) ELSE OLM_MAX_SKIPPED_MESSAGE_KEYS
    IN  [i \in 1 .. length |->
            IF i <= new
              THEN [ratchet_key |-> chain.ratchet_key,
                    message_key |-> [chain.chain_key EXCEPT !.index = counter - i]]
              ELSE skipped[i - new]]

FirstOf(positions) == CHOOSE i \in positions : \A j \in positions : i <= j

(* Faulty variant: the key that was used stays in the list.                *)
AfterDecryptSkippedKept(r, message) == r

AfterDecryptSkipped(r, message) ==
    [r EXCEPT !.skipped_message_keys = ListErase(@, FirstOf(SkippedKeysFor(r, message)))]

(* Faulty variant: the chain stops at the message instead of after it.     *)
AfterDecryptNotAdvanced(r, message) ==
    LET s     == WithReceiverChain(r, message.ratchet_key)
        i     == ReceiverChain(s, message.ratchet_key)
    IN  [s EXCEPT
           !.skipped_message_keys =
               AfterSkipping(@, s.receiver_chains[i], message.counter),
           !.receiver_chains[i].chain_key.index = message.counter]

AfterDecryptOnChain(r, message) ==
    LET s     == WithReceiverChain(r, message.ratchet_key)
        i     == ReceiverChain(s, message.ratchet_key)
        chain == s.receiver_chains[i]
    IN  [s EXCEPT
           !.skipped_message_keys = AfterSkipping(@, chain, message.counter),
           !.receiver_chains[i].chain_key =
               AdvanceChainKey([@ EXCEPT !.index = message.counter])]

(* The ratchet after a decryption that succeeded; one that failed leaves   *)
(* the ratchet as it was.                                                  *)
AfterDecrypt(r, message) ==
    IF AlreadyAdvanced(r, message)
      THEN AfterDecryptSkipped(r, message)
      ELSE AfterDecryptOnChain(r, message)
=============================================================================

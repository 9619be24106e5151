------------------------------- MODULE Session -------------------------------
(***************************************************************************)
(* A session (src/session.c) as operators on the record OlmSession: how it *)
(* is opened from either side, how a pre-key message finds the session it  *)
(* belongs to, and what encryption and decryption add to the ratchet they  *)
(* drive.  Sessions runs the sessions of two devices.                      *)
(*                                                                         *)
(* Keys are symbolic, see Ratchet.  A pre-key message carries the three    *)
(* public keys of the triple Diffie-Hellman around the ratchet's message;  *)
(* a normal message is the ratchet's message alone.  last_error is only    *)
(* ever written here and is left out.                                      *)
(***************************************************************************)
EXTENDS Ratchet

CONSTANT NoKey      \* 32 zero bytes: what a cleared object holds

EmptyRatchet ==
    [root_key |-> <<>>, sender_chain |-> <<>>, receiver_chains |-> <<>>,
     skipped_message_keys |-> <<>>]

(* created is what the application knows: a creating call or unpickling    *)
(* has returned success.                                                   *)
SessionInit ==
    [created            |-> FALSE,
     received_message   |-> FALSE,
     alice_identity_key |-> NoKey,
     alice_base_key     |-> NoKey,
     bob_one_time_key   |-> NoKey,
     ratchet            |-> EmptyRatchet]

(* The three shared secrets, in the order both sides concatenate them in.  *)
TripleDH(alice_identity_key, alice_base_key, bob_identity_key, bob_one_time_key) ==
    <<SharedSecret(alice_identity_key, bob_one_time_key),
      SharedSecret(alice_base_key, bob_identity_key),
      SharedSecret(alice_base_key, bob_one_time_key)>>

NewOutboundSession(s, identity_key, their_identity_key, one_time_key, base_key, ratchet_key) ==
    [s EXCEPT
        !.created            = TRUE,
        !.received_message   = FALSE,
        !.alice_identity_key = identity_key,
        !.alice_base_key     = base_key,
        !.bob_one_time_key   = one_time_key,
        !.ratchet            = InitialiseAsAlice(
                                 TripleDH(identity_key, base_key,
                                          their_identity_key, one_time_key),
                                 ratchet_key)]

(* Decoded as a pre-key message, a normal message lacks the base key.      *)
CheckMessageFields(message) == message.type = "PRE_KEY"

(* The caller may say whom it has the message from.                        *)
SameIdentity(their_identity_key, message) ==
    their_identity_key \in {NoKey, message.identity_key}

(* The message's keys are stored before the one-time key is looked up.     *)
WithKeysOf(s, message) ==
    [s EXCEPT
        !.alice_identity_key = message.identity_key,
        !.alice_base_key     = message.base_key,
        !.bob_one_time_key   = message.one_time_key]

(* Faulty variants: the ratchet is set up before the one-time key is known *)
(* to be there, or with the roles of the identity keys swapped.            *)
NewInboundSessionEarly(s, identity_key, one_time_keys, their_identity_key, message) ==
    IF ~CheckMessageFields(message) \/ ~SameIdentity(their_identity_key, message)
      THEN s
      ELSE [WithKeysOf(s, message) EXCEPT
              !.created = message.one_time_key \in one_time_keys,
              !.ratchet = InitialiseAsBob(
                            TripleDH(message.identity_key, message.base_key,
                                     identity_key, message.one_time_key),
                            message.body.ratchet_key)]

NewInboundSessionSwapped(s, identity_key, one_time_keys, their_identity_key, message) ==
    IF \/ ~CheckMessageFields(message) \/ ~SameIdentity(their_identity_key, message)
       \/ message.one_time_key \notin one_time_keys
      THEN s
      ELSE [WithKeysOf(s, message) EXCEPT
              !.created = TRUE,
              !.ratchet = InitialiseAsBob(
                            TripleDH(identity_key, message.base_key,
                                     message.identity_key, message.one_time_key),
                            message.body.ratchet_key)]

NewInboundSession(s, identity_key, one_time_keys, their_identity_key, message) ==
    IF ~CheckMessageFields(message) \/ ~SameIdentity(their_identity_key, message)
      THEN s
      ELSE IF message.one_time_key \notin one_time_keys
        THEN WithKeysOf(s, message)
        ELSE [WithKeysOf(s, message) EXCEPT
                !.created = TRUE,
                !.ratchet = InitialiseAsBob(
                              TripleDH(message.identity_key, message.base_key,
                                       identity_key, message.one_time_key),
                              message.body.ratchet_key)]

SessionId(s) == <<s.alice_identity_key, s.alice_base_key, s.bob_one_time_key>>

(* Faulty variant: a session that has been answered matches no more.       *)
MatchesInboundSessionUnanswered(s, their_identity_key, message) ==
    /\ CheckMessageFields(message)
    /\ ~s.received_message
    /\ message.identity_key = s.alice_identity_key
    /\ their_identity_key \in {NoKey, s.alice_identity_key}
    /\ message.base_key = s.alice_base_key
    /\ message.one_time_key = s.bob_one_time_key

MatchesInboundSession(s, their_identity_key, message) ==
    /\ CheckMessageFields(message)
    /\ message.identity_key = s.alice_identity_key
    /\ their_identity_key \in {NoKey, s.alice_identity_key}
    /\ message.base_key = s.alice_base_key
    /\ message.one_time_key = s.bob_one_time_key

-----------------------------------------------------------------------------
EncryptMessageType(s) == IF s.received_message THEN "MESSAGE" ELSE "PRE_KEY"

(* The message olm_encrypt returns.  A normal message shows none of the    *)
(* session's keys.                                                         *)
SessionMessage(s, fresh_key, plaintext) ==
    LET pre_key == EncryptMessageType(s) = "PRE_KEY"
    IN  [type         |-> EncryptMessageType(s),
         identity_key |-> IF pre_key THEN s.alice_identity_key ELSE NoKey,
         base_key     |-> IF pre_key THEN s.alice_base_key ELSE NoKey,
         one_time_key |-> IF pre_key THEN s.bob_one_time_key ELSE NoKey,
         body         |-> EncryptedMessage(s.ratchet, fresh_key, plaintext)]

SessionAfterEncrypt(s, fresh_key) ==
    [s EXCEPT !.ratchet = AfterEncrypt(@, fresh_key)]

(* Neither kind of message parses as the other: the type the caller gives  *)
(* must be the one the message was made with.  The keys around a pre-key   *)
(* message are not looked at.                                              *)
SessionDecrypts(s, type, message) ==
    /\ type = message.type
    /\ Decrypts(s.ratchet, message.body)

SessionAfterDecrypt(s, message) ==
    [s EXCEPT
        !.ratchet          = AfterDecrypt(@, message.body),
        !.received_message = TRUE]

-----------------------------------------------------------------------------
(* A pickle holds every field; unpickling starts from a cleared object.    *)
PickledSession(s) ==
    [received_message   |-> s.received_message,
     alice_identity_key |-> s.alice_identity_key,
     alice_base_key     |-> s.alice_base_key,
     bob_one_time_key   |-> s.bob_one_time_key,
     ratchet            |-> s.ratchet]

UnpickledSession(pickle) ==
    [SessionInit EXCEPT
        !.created            = TRUE,
        !.received_message   = pickle.received_message,
        !.alice_identity_key = pickle.alice_identity_key,
        !.alice_base_key     = pickle.alice_base_key,
        !.bob_one_time_key   = pickle.bob_one_time_key,
        !.ratchet            = pickle.ratchet]
=============================================================================

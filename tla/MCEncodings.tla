---------------------------- MODULE MCEncodings ----------------------------
(* Messages and objects small enough for TLC, chosen by the boundaries of   *)
(* varints, base64 groups and list capacities.                              *)
EXTENDS Encodings

Filled(n, byte) == [i \in 1 .. n |-> byte]

MCStrings ==
  [kind \in Kinds |->
    CASE kind = "message" ->
           [ratchet_key : {Filled(3, 255)}, counter : {0, 127, 128, 16384, 2^CounterBits - 1},
            ciphertext : {Filled(n, 16) : n \in {0, 1, 2, 127, 128}}]
      [] kind = "one_time_key_message" ->
           [one_time_key : {Filled(2, 18)}, base_key : {Filled(2, 26)},
            identity_key : {Filled(2, 34), Filled(3, 128)}, message : {Filled(n, 10) : n \in {1, 2, 3, 130}}]
      [] kind = "group_message" ->
           [message_index : {0, 128, 16383, 16384, 2^CounterBits - 1},
            ciphertext : {Filled(n, 8) : n \in {0, 1, 2, 129}}]]

(* The tags of the kind, an unknown field of each wire type, lengths that   *)
(* fit or do not, and varints of one and more bytes.                        *)
Alphabet(kind) ==
  CASE kind = "message" -> {10, 16, 34, 2, 128}
    [] kind = "one_time_key_message" -> {10, 18, 34, 1, 129}
    [] kind = "group_message" -> {8, 18, 5, 2, 0}
MCReceived ==
  [kind \in Kinds |->
    {<<3>> \o s \o Filled(Trailer(kind), 34) : s \in UNION {[1 .. n -> Alphabet(kind)] : n \in 0 .. 5}}
      \cup {<<3>>, <<>>}]

Key(i) == [id |-> i, published |-> i % 2 = 0, key |-> 40 + i]
SomeKeys(n) == [i \in 1 .. n |-> Key(n + 1 - i)]
Chain(i) == [ratchet_key |-> 50 + i, chain_key |-> 60 + i, index |-> i]
Skipped(i) == [ratchet_key |-> 50 + i, message_key |-> 70 + i, index |-> i]

MCObjects ==
  [kind \in PickleKinds |->
    CASE kind = "session" ->
           {[version |-> 1, received_message |-> r, alice_identity_key |-> 1, alice_base_key |-> 2,
             bob_one_time_key |-> 3, root_key |-> 4, sender_chain |-> [i \in 1 .. s |-> Chain(i)],
             receiver_chains |-> [i \in 1 .. c |-> Chain(i)],
             skipped_message_keys |-> [i \in 1 .. k |-> Skipped(i)]] :
             r \in BOOLEAN, s \in {0, 1}, c \in 0 .. MaxReceiverChains + 1,
             k \in 0 .. MaxSkippedMessageKeys + 2}
      [] kind = "account" ->
           {[version |-> 4, ed25519_key |-> 1, curve25519_key |-> 2, one_time_keys |-> SomeKeys(n),
             num_fallback_keys |-> f, next_one_time_key_id |-> n + f + 1,
             current_fallback_key |-> IF f = 0 THEN NoFallbackKey ELSE [Key(n + f) EXCEPT !.published = p],
             prev_fallback_key |-> IF f < 2 THEN NoFallbackKey ELSE [Key(n + 1) EXCEPT !.published = q]] :
             n \in 0 .. MaxOneTimeKeys + 2, f \in 0 .. 2, p \in BOOLEAN, q \in BOOLEAN}
      [] kind = "inbound" ->
           {[version |-> 2, initial_ratchet |-> 1, latest_ratchet |-> n, signing_key |-> 2,
             signing_key_verified |-> v] : n \in {1, 3}, v \in BOOLEAN}
      [] kind = "outbound" -> {[version |-> 1, ratchet |-> n, signing_key |-> 2] : n \in {1, 3}}
      [] kind = "pk_decryption" -> {[version |-> 1, key_pair |-> n] : n \in {1, 2}}
      [] kind = "dehydrated" ->
           {[version |-> 1, curve25519_key |-> 2, ed25519_seed |-> 3, one_time_keys |-> SomeKeys(n),
             num_fallback_keys |-> f, next_one_time_key_id |-> 9, current_fallback_key |-> Key(8)] :
             n \in 0 .. MaxOneTimeKeys + 1, f \in 0 .. 2}]

(* One that was just initialised, and one that was in use.                  *)
MCBefore ==
  [kind \in PickleKinds |->
    {CHOOSE x \in MCObjects[kind] : TRUE,
     CASE kind = "session" -> [NoSession EXCEPT !.received_message = TRUE]
       [] kind = "account" ->
            [version |-> 4, ed25519_key |-> 11, curve25519_key |-> 12, one_time_keys |-> SomeKeys(2),
             num_fallback_keys |-> 2, next_one_time_key_id |-> 9,
             current_fallback_key |-> Key(8), prev_fallback_key |-> Key(6)]
       [] kind = "inbound" ->
            [version |-> 0, initial_ratchet |-> 0, latest_ratchet |-> 0, signing_key |-> 0,
             signing_key_verified |-> FALSE]
       [] kind = "outbound" -> [version |-> 0, ratchet |-> 0, signing_key |-> 0]
       [] kind = "pk_decryption" -> [version |-> 0, key_pair |-> 0]
       [] kind = "dehydrated" ->
            [version |-> 0, curve25519_key |-> 11, ed25519_seed |-> 12, one_time_keys |-> SomeKeys(2),
             num_fallback_keys |-> 1, next_one_time_key_id |-> 9, current_fallback_key |-> Key(6)]}]
=============================================================================

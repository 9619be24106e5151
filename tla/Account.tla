------------------------------ MODULE Account ------------------------------
(***************************************************************************)
(* An account (src/account.c) and its application: keys are generated,     *)
(* uploaded to a server, used by the first messages of peers and removed,  *)
(* and the application restarts from what it last stored.                  *)
(*                                                                         *)
(* Key pairs are symbolic and never repeat: the n-th one-time key that is  *)
(* generated is <<"one-time", n>>, the n-th fallback key <<"fallback", n>>.*)
(* The code does not see a key's name, it only compares keys.              *)
(***************************************************************************)
EXTENDS Integers, Sequences, FiniteSets, OlmList

CONSTANTS
    MAX_ONE_TIME_KEYS,  \* 100 in account.h
    MaxKeys             \* bound: key pairs that are generated

ASSUME OneTimeKeysAssumption == MAX_ONE_TIME_KEYS \in Nat \ {0}
ASSUME MaxKeysAssumption == MaxKeys \in Nat

VARIABLES
    account,    \* the OlmAccount
    pickled,    \* what the application last stored of it
    request,    \* keys that are on their way to the server
    uploaded,   \* keys the server was ever given, each with its id
    accepted,   \* one-time keys that were used and removed
    forgotten,  \* fallback keys the application wanted forgotten
    generated   \* how many keys of each kind were generated

vars == <<account, pickled, request, uploaded, accepted, forgotten, generated>>

OneTime(n) == <<"one-time", n>>
Fallback(n) == <<"fallback", n>>
NoKey == [id |-> 0, published |-> FALSE, key |-> <<"none", 0>>]

(* An Ed25519 key is named by the seed it is made from; 0 is no seed.      *)
Identity(seed) == [curve25519 |-> seed, ed25519 |-> seed]

-----------------------------------------------------------------------------
(* olm_account: cleared memory, then _olm_account_init.                    *)
Cleared ==
    [identity_keys        |-> Identity(0),
     one_time_keys        |-> <<>>,
     current_fallback_key |-> NoKey,
     prev_fallback_key    |-> NoKey,
     num_fallback_keys    |-> 0,
     next_one_time_key_id |-> 0,
     ed25519_seed         |-> 0,
     ed25519_seed_known   |-> FALSE]

(* Only the identity changes: an account that had keys keeps them.         *)
NewAccount(a, seed) ==
    [a EXCEPT !.identity_keys      = Identity(seed),
              !.ed25519_seed       = seed,
              !.ed25519_seed_known = TRUE]

(* Number keys are put in front, one after another; what exceeds the       *)
(* capacity falls off the end.  The newest key is therefore the first.     *)
WithOneTimeKeys(a, number, next_key) ==
    LET length == IF number + Len(a.one_time_keys) < MAX_ONE_TIME_KEYS
                    THEN number + Len(a.one_time_keys) ELSE MAX_ONE_TIME_KEYS
    IN  [a EXCEPT
           !.one_time_keys =
               [i \in 1 .. length |->
                   IF i <= number
                     THEN [id        |-> a.next_one_time_key_id + number - i + 1,
                           published |-> FALSE,
                           key       |-> OneTime(next_key + number - i)]
                     ELSE a.one_time_keys[i - number]],
           !.next_one_time_key_id = @ + number]

(* Faulty variants: the count grows beyond two, the id is taken without    *)
(* counting, the key before is lost.                                       *)
WithFallbackKeyUncapped(a, key) ==
    [a EXCEPT !.num_fallback_keys    = @ + 1,
              !.prev_fallback_key    = a.current_fallback_key,
              !.current_fallback_key = [id        |-> a.next_one_time_key_id + 1,
                                        published |-> FALSE,
                                        key       |-> key],
              !.next_one_time_key_id = @ + 1]

WithFallbackKeySameId(a, key) ==
    [a EXCEPT !.num_fallback_keys    = IF @ < 2 THEN @ + 1 ELSE @,
              !.prev_fallback_key    = a.current_fallback_key,
              !.current_fallback_key = [id        |-> a.next_one_time_key_id,
                                        published |-> FALSE,
                                        key       |-> key]]

WithFallbackKeyOnly(a, key) ==
    [WithFallbackKeyUncapped(a, key) EXCEPT
        !.num_fallback_keys = 1,
        !.prev_fallback_key = NoKey]

(* The current fallback key becomes the previous one.                      *)
WithFallbackKey(a, key) ==
    [a EXCEPT !.num_fallback_keys    = IF @ < 2 THEN @ + 1 ELSE @,
              !.prev_fallback_key    = a.current_fallback_key,
              !.current_fallback_key = [id        |-> a.next_one_time_key_id + 1,
                                        published |-> FALSE,
                                        key       |-> key],
              !.next_one_time_key_id = @ + 1]

WithoutOldFallbackKey(a) ==
    IF a.num_fallback_keys >= 2
      THEN [a EXCEPT !.num_fallback_keys = 1, !.prev_fallback_key = NoKey]
      ELSE a

(* Every key that is there now, also one generated after the upload.       *)
MarkedAsPublished(a) ==
    [a EXCEPT !.one_time_keys = [i \in DOMAIN @ |-> [@[i] EXCEPT !.published = TRUE]],
              !.current_fallback_key.published = TRUE]

FallbackKeys(a) ==
    (IF a.num_fallback_keys >= 1 THEN {a.current_fallback_key} ELSE {}) \cup
    (IF a.num_fallback_keys >= 2 THEN {a.prev_fallback_key} ELSE {})

Held(a) == {a.one_time_keys[i] : i \in DOMAIN a.one_time_keys} \cup FallbackKeys(a)

(* A key and its id, as the server gets to know them.                      *)
Name(k) == [id |-> k.id, key |-> k.key]

(* What olm_account_one_time_keys and olm_account_unpublished_fallback_key *)
(* return.                                                                 *)
Unpublished(a) ==
    LET keys == {k \in {a.one_time_keys[i] : i \in DOMAIN a.one_time_keys} \cup
                       (IF a.num_fallback_keys >= 1
                          THEN {a.current_fallback_key} ELSE {}) : ~k.published}
    IN  {Name(k) : k \in keys}

(* Does _olm_account_lookup_key find the key?                              *)
LooksUp(a, key) == \E k \in Held(a) : k.key = key

(* A one-time key is erased; a fallback key is left where it is.           *)
WithoutKey(a, key) ==
    LET positions == {i \in DOMAIN a.one_time_keys : a.one_time_keys[i].key = key}
    IN  IF positions = {}
          THEN a
          ELSE [a EXCEPT !.one_time_keys =
                  ListErase(@, CHOOSE i \in positions : \A j \in positions : i <= j)]

-----------------------------------------------------------------------------
(* The pickle has no seed, and only as many fallback keys as there are.    *)
Pickled(a) ==
    [a EXCEPT
       !.current_fallback_key = IF a.num_fallback_keys >= 1 THEN @ ELSE NoKey,
       !.prev_fallback_key    = IF a.num_fallback_keys >= 2 THEN @ ELSE NoKey,
       !.ed25519_seed         = 0,
       !.ed25519_seed_known   = FALSE]

(* Version 3 used the flag "published" to count the fallback keys and so   *)
(* takes them for published.                                               *)
RestoredKey(version, k) == [k EXCEPT !.published = @ \/ version = 3]

(* The account after _olm_unpickle_account into the object a; what the     *)
(* pickle does not hold stays as it was.  Version 2 had no fallback keys.  *)
Unpickled(a, version, pickle) ==
    [pickle EXCEPT
       !.current_fallback_key = IF pickle.num_fallback_keys >= 1
                                  THEN RestoredKey(version, @)
                                  ELSE a.current_fallback_key,
       !.prev_fallback_key    = IF pickle.num_fallback_keys >= 2
                                  THEN RestoredKey(version, @)
                                  ELSE a.prev_fallback_key,
       !.ed25519_seed       = a.ed25519_seed,
       !.ed25519_seed_known = a.ed25519_seed_known]

(* Faulty variant: the keys are written as the list runs, newest first.    *)
DehydratedNewestFirst(a) ==
    [curve25519    |-> a.identity_keys.curve25519,
     ed25519_seed  |-> a.ed25519_seed,
     one_time_keys |-> [i \in DOMAIN a.one_time_keys |-> a.one_time_keys[i].key],
     fallback_keys |-> IF a.num_fallback_keys >= 1
                         THEN <<a.current_fallback_key.key>> ELSE <<>>]

(* A dehydrated device: private keys only, the oldest one-time key first,  *)
(* and the current fallback key if there is one.                           *)
Dehydrated(a) ==
    [curve25519    |-> a.identity_keys.curve25519,
     ed25519_seed  |-> a.ed25519_seed,
     one_time_keys |-> [i \in DOMAIN a.one_time_keys |->
                          a.one_time_keys[Len(a.one_time_keys) + 1 - i].key],
     fallback_keys |-> IF a.num_fallback_keys >= 1
                         THEN <<a.current_fallback_key.key>> ELSE <<>>]

(* The account made from it in a cleared object: new ids, all published.   *)
Rehydrated(device) ==
    LET count == Len(device.one_time_keys)
    IN  [identity_keys        |-> [curve25519 |-> device.curve25519,
                                   ed25519    |-> device.ed25519_seed],
         one_time_keys        |-> [i \in 1 .. count |->
                                     [id        |-> count + 1 - i,
                                      published |-> TRUE,
                                      key       |-> device.one_time_keys[count + 1 - i]]],
         current_fallback_key |-> IF device.fallback_keys = <<>>
                                    THEN NoKey
                                    ELSE [id        |-> count + 1,
                                          published |-> TRUE,
                                          key       |-> device.fallback_keys[1]],
         prev_fallback_key    |-> NoKey,
         num_fallback_keys    |-> Len(device.fallback_keys),
         next_one_time_key_id |-> count + Len(device.fallback_keys),
         ed25519_seed         |-> device.ed25519_seed,
         ed25519_seed_known   |-> TRUE]

-----------------------------------------------------------------------------
Init ==
    /\ account = NewAccount(Cleared, 1)
    /\ pickled = Pickled(account)
    /\ request = {}
    /\ uploaded = {}
    /\ accepted = {}
    /\ forgotten = {}
    /\ generated = [one_time |-> 0, fallback |-> 0]

GenerateOneTimeKeys(number) ==
    /\ generated.one_time + generated.fallback + number <= MaxKeys
    /\ account' = WithOneTimeKeys(account, number, generated.one_time + 1)
    /\ generated' = [generated EXCEPT !.one_time = @ + number]
    /\ UNCHANGED <<pickled, request, uploaded, accepted, forgotten>>

GenerateFallbackKey ==
    /\ generated.one_time + generated.fallback < MaxKeys
    /\ account' = WithFallbackKey(account, Fallback(generated.fallback + 1))
    /\ generated' = [generated EXCEPT !.fallback = @ + 1]
    /\ UNCHANGED <<pickled, request, uploaded, accepted, forgotten>>

ForgetOldFallbackKey ==
    /\ account' = WithoutOldFallbackKey(account)
    /\ forgotten' = forgotten \cup
                      {k.key : k \in FallbackKeys(account) \ FallbackKeys(account')}
    /\ UNCHANGED <<pickled, request, uploaded, accepted, generated>>

Store ==
    /\ pickled' = Pickled(account)
    /\ UNCHANGED <<account, request, uploaded, accepted, forgotten, generated>>

(* The application stores the account before it hands out any of its keys. *)
ReadKeys ==
    /\ pickled = Pickled(account)
    /\ request' = Unpublished(account)
    /\ UNCHANGED <<account, pickled, uploaded, accepted, forgotten, generated>>

(* The server takes the keys; its answer may get lost.                     *)
Upload ==
    /\ uploaded' = uploaded \cup request
    /\ UNCHANGED <<account, pickled, request, accepted, forgotten, generated>>

(* The answer has arrived.                                                 *)
MarkKeysAsPublished ==
    /\ request # {}
    /\ request \subseteq uploaded
    /\ account' = MarkedAsPublished(account)
    /\ request' = {}
    /\ UNCHANGED <<pickled, uploaded, accepted, forgotten, generated>>

(* A peer's first message made with the key arrives, a session is created, *)
(* and the application has the key removed.  The server hands out fallback *)
(* keys again and again, and the transport may repeat the message.         *)
Accept(key) ==
    /\ LooksUp(account, key)
    /\ account' = WithoutKey(account, key)
    /\ accepted' = accepted \cup ({key} \ {k.key : k \in FallbackKeys(account)})
    /\ UNCHANGED <<pickled, request, uploaded, forgotten, generated>>

(* The application starts again from what it stored, in a new object.  The *)
(* pickle may be of an earlier version of the library.                     *)
Restart(version) ==
    /\ version = 2 => pickled.num_fallback_keys = 0
    /\ account' = Unpickled(Cleared, version, pickled)
    /\ request' = {}
    /\ UNCHANGED <<pickled, uploaded, accepted, forgotten, generated>>

Next ==
    \/ \E number \in 1 .. MaxKeys : GenerateOneTimeKeys(number)
    \/ GenerateFallbackKey
    \/ ForgetOldFallbackKey
    \/ Store
    \/ ReadKeys
    \/ Upload
    \/ MarkKeysAsPublished
    \/ \E k \in uploaded : Accept(k.key)
    \/ \E version \in 2 .. 4 : Restart(version)

Spec == Init /\ [][Next]_vars

(* An application that uses one object for another account, as nothing in  *)
(* the headers forbids.                                                    *)
CreateAccount ==
    /\ account' = NewAccount(account, account.identity_keys.ed25519 + 1)
    /\ account.identity_keys.ed25519 < 2
    /\ UNCHANGED <<pickled, request, uploaded, accepted, forgotten, generated>>

Unpickle(version) ==
    /\ version = 2 => pickled.num_fallback_keys = 0
    /\ account' = Unpickled(account, version, pickled)
    /\ UNCHANGED <<pickled, request, uploaded, accepted, forgotten, generated>>

ReuseSpec ==
    Init /\ [][Next \/ CreateAccount \/ \E version \in 2 .. 4 : Unpickle(version)]_vars

-----------------------------------------------------------------------------
Key == {"one-time", "fallback", "none"} \X Nat
OlmOneTimeKey == [id : Nat, published : BOOLEAN, key : Key]
IdentityKeys == [curve25519 : Nat, ed25519 : Nat]
OlmAccount ==
    [identity_keys        : IdentityKeys,
     one_time_keys        : Seq(OlmOneTimeKey),
     current_fallback_key : OlmOneTimeKey,
     prev_fallback_key    : OlmOneTimeKey,
     num_fallback_keys    : 0 .. 2,
     next_one_time_key_id : Nat,
     ed25519_seed         : Nat,
     ed25519_seed_known   : BOOLEAN]
UploadedKey == [id : Nat, key : Key]

(* Type invariant: the list fits its array, and there are two fallback     *)
(* keys at most.                                                           *)
TypeOK ==
    /\ account \in OlmAccount
    /\ pickled \in OlmAccount
    /\ Len(account.one_time_keys) <= MAX_ONE_TIME_KEYS
    /\ Len(pickled.one_time_keys) <= MAX_ONE_TIME_KEYS
    /\ request \subseteq UploadedKey
    /\ uploaded \subseteq UploadedKey
    /\ accepted \subseteq Key
    /\ forgotten \subseteq Key
    /\ generated \in [one_time : Nat, fallback : Nat]

(* The server is never given two keys under one id, one-time or fallback,  *)
(* whenever the application crashed and started again from an older state  *)
(* of the counter: it would keep the one and peers would use the other.    *)
IdsUnique ==
    \A x, y \in uploaded : x.id = y.id => x.key = y.key

(* The inductive invariant behind it.  What an id stands for is settled    *)
(* for all ids up to the counter in the pickle, by the pickle, the server  *)
(* and the request; the account may have gone on from there.               *)
Names(a) == {Name(k) : k \in Held(a)}

Settled == Names(pickled) \cup uploaded \cup request

IInv ==
    /\ TypeOK
    /\ pickled.next_one_time_key_id <= account.next_one_time_key_id
    /\ \A x \in Settled : x.id <= pickled.next_one_time_key_id
    /\ \A x \in Names(account) : x.id <= account.next_one_time_key_id
    /\ \A x, y \in Settled \cup Names(account) : x.id = y.id => x.key = y.key

(* A key the server was given can be used until it was, through restarts   *)
(* and whatever is generated: a one-time key is lost only when as many     *)
(* newer ones as the list holds were generated, a fallback key only when   *)
(* two newer ones were, or when it was replaced and forgotten.             *)
Overflowed(key) ==
    /\ key[1] = "one-time"
    /\ generated.one_time - key[2] >= MAX_ONE_TIME_KEYS

Replaced(key) ==
    /\ key[1] = "fallback"
    /\ key \in forgotten \/ generated.fallback - key[2] >= 2

UploadedKeysAnswer ==
    \A x \in uploaded :
        \/ x.key \in accepted
        \/ LooksUp(account, x.key)
        \/ Overflowed(x.key)
        \/ Replaced(x.key)

(* An account that may be dehydrated comes back as the same device: with   *)
(* the same identity keys, the same current fallback key, and the same     *)
(* one-time keys in the order in which they will be pushed out.            *)
SameDevice(a, b) ==
    /\ a.identity_keys = b.identity_keys
    /\ Len(a.one_time_keys) = Len(b.one_time_keys)
    /\ \A i \in DOMAIN a.one_time_keys : a.one_time_keys[i].key = b.one_time_keys[i].key
    /\ a.num_fallback_keys = 0 <=> b.num_fallback_keys = 0
    /\ a.num_fallback_keys > 0 =>
         a.current_fallback_key.key = b.current_fallback_key.key

RehydratedIsSame ==
    account.ed25519_seed_known => SameDevice(account, Rehydrated(Dehydrated(account)))
=============================================================================

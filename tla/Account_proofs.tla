--------------------------- MODULE Account_proofs ---------------------------
(***************************************************************************)
(* Proofs about Account: what each operation does to the keys an account   *)
(* holds, and that the server is never given two keys under one id.        *)
(***************************************************************************)
EXTENDS Account, Common_proofs, TLAPS

(* An account whose list fits its array.                                   *)
Fits(a) == a \in OlmAccount /\ Len(a.one_time_keys) <= MAX_ONE_TIME_KEYS

(* The keys of an account are in its list or are fallback keys.            *)
LEMMA NamesOf ==
    ASSUME NEW a \in OlmAccount
    PROVE  \A x : x \in Names(a) <=>
              \/ \E i \in 1 .. Len(a.one_time_keys) : x = Name(a.one_time_keys[i])
              \/ a.num_fallback_keys >= 1 /\ x = Name(a.current_fallback_key)
              \/ a.num_fallback_keys >= 2 /\ x = Name(a.prev_fallback_key)
  BY DEF Names, Held, FallbackKeys, OlmAccount

LEMMA AccountFields ==
    ASSUME NEW a \in OlmAccount
    PROVE  /\ a = [identity_keys        |-> a.identity_keys,
                   one_time_keys        |-> a.one_time_keys,
                   current_fallback_key |-> a.current_fallback_key,
                   prev_fallback_key    |-> a.prev_fallback_key,
                   num_fallback_keys    |-> a.num_fallback_keys,
                   next_one_time_key_id |-> a.next_one_time_key_id,
                   ed25519_seed         |-> a.ed25519_seed,
                   ed25519_seed_known   |-> a.ed25519_seed_known]
           /\ a.identity_keys \in IdentityKeys
           /\ a.one_time_keys \in Seq(OlmOneTimeKey)
           /\ a.current_fallback_key \in OlmOneTimeKey
           /\ a.prev_fallback_key \in OlmOneTimeKey
           /\ a.num_fallback_keys \in 0 .. 2
           /\ a.next_one_time_key_id \in Nat
           /\ a.ed25519_seed \in Nat
           /\ a.ed25519_seed_known \in BOOLEAN
  BY DEF OlmAccount

LEMMA NamesType ==
    ASSUME NEW a \in OlmAccount
    PROVE  Names(a) \subseteq UploadedKey
<1>1. \A k \in OlmOneTimeKey : Name(k) \in UploadedKey
  BY DEF Name, OlmOneTimeKey, UploadedKey
<1>2. /\ \A i \in 1 .. Len(a.one_time_keys) : a.one_time_keys[i] \in OlmOneTimeKey
      /\ a.current_fallback_key \in OlmOneTimeKey
      /\ a.prev_fallback_key \in OlmOneTimeKey
  BY DEF OlmAccount
<1> QED
  BY <1>1, <1>2, NamesOf

(* Generating one-time keys: every key held afterwards was held before or  *)
(* is a new one, under an id of its own past the counter.                  *)
LEMMA GenerateOneTimeKeysHolds ==
    ASSUME NEW a, Fits(a), NEW number \in Nat, NEW next_key \in Nat
    PROVE  LET b == WithOneTimeKeys(a, number, next_key)
           IN  /\ Fits(b)
               /\ b.next_one_time_key_id = a.next_one_time_key_id + number
               /\ \A x \in Names(b) :
                    \/ x \in Names(a)
                    \/ \E i \in 1 .. number :
                          x = [id  |-> a.next_one_time_key_id + number - i + 1,
                               key |-> OneTime(next_key + number - i)]
<1> DEFINE length == IF number + Len(a.one_time_keys) < MAX_ONE_TIME_KEYS
                       THEN number + Len(a.one_time_keys) ELSE MAX_ONE_TIME_KEYS
           new(i) == [id        |-> a.next_one_time_key_id + number - i + 1,
                      published |-> FALSE,
                      key       |-> OneTime(next_key + number - i)]
           list == [i \in 1 .. length |->
                      IF i <= number THEN new(i) ELSE a.one_time_keys[i - number]]
           b == [a EXCEPT !.one_time_keys = list,
                          !.next_one_time_key_id = @ + number]
<1>1. b = WithOneTimeKeys(a, number, next_key)
  BY DEF WithOneTimeKeys
<1>2. /\ length \in Nat /\ length <= MAX_ONE_TIME_KEYS
      /\ length <= number + Len(a.one_time_keys)
      /\ a.one_time_keys \in Seq(OlmOneTimeKey)
      /\ a.next_one_time_key_id \in Nat
  BY OneTimeKeysAssumption DEF Fits, OlmAccount
<1>3. \A i \in 1 .. number :
         /\ new(i) \in OlmOneTimeKey
         /\ Name(new(i)) = [id  |-> a.next_one_time_key_id + number - i + 1,
                            key |-> OneTime(next_key + number - i)]
  <2>1. \A i \in 1 .. number : OneTime(next_key + number - i) \in Key
    BY DEF OneTime, Key
  <2> QED BY <1>2, <2>1 DEF OlmOneTimeKey, Name
<1> HIDE DEF new, length
<1>4. \A i \in 1 .. length : i > number => i - number \in 1 .. Len(a.one_time_keys)
  BY <1>2
<1>5. \A i \in 1 .. length : list[i] \in OlmOneTimeKey
  BY <1>2, <1>3, <1>4
<1>6. list \in Seq(OlmOneTimeKey) /\ Len(list) = length
  BY <1>2, <1>5
<1>7. \A i \in 1 .. length :
         \/ i \in 1 .. number /\ list[i] = new(i)
         \/ i - number \in 1 .. Len(a.one_time_keys)
              /\ list[i] = a.one_time_keys[i - number]
  BY <1>2, <1>4
<1> HIDE DEF list
<1>8. /\ b \in OlmAccount
      /\ b.one_time_keys = list
      /\ b.next_one_time_key_id = a.next_one_time_key_id + number
      /\ b.num_fallback_keys = a.num_fallback_keys
      /\ b.current_fallback_key = a.current_fallback_key
      /\ b.prev_fallback_key = a.prev_fallback_key
  <2>1. a \in OlmAccount
    BY DEF Fits
  <2>2. a.next_one_time_key_id + number \in Nat
    BY <1>2
  <2> QED BY <1>6, <2>1, <2>2, AccountFields DEF OlmAccount
<1> HIDE DEF b
<1>9. a \in OlmAccount
  BY DEF Fits
<1>10. \A x \in Names(b) :
         \/ x \in Names(a)
         \/ \E i \in 1 .. number : x = Name(new(i))
  <2> SUFFICES ASSUME NEW x \in Names(b)
               PROVE  x \in Names(a) \/ \E i \in 1 .. number : x = Name(new(i))
    OBVIOUS
  <2>1. CASE \E i \in 1 .. Len(list) : x = Name(list[i])
    BY <1>6, <1>7, <1>9, <2>1, NamesOf
  <2>2. CASE ~\E i \in 1 .. Len(list) : x = Name(list[i])
    BY <1>8, <1>9, <2>2, NamesOf
  <2> QED BY <2>1, <2>2
<1> QED
  BY <1>1, <1>2, <1>3, <1>6, <1>8, <1>10 DEF Fits

(* Generating a fallback key: the current one becomes the previous one.    *)
LEMMA GenerateFallbackKeyHolds ==
    ASSUME NEW a, Fits(a), NEW key \in Key
    PROVE  LET b == WithFallbackKey(a, key)
           IN  /\ Fits(b)
               /\ b.next_one_time_key_id = a.next_one_time_key_id + 1
               /\ \A x \in Names(b) :
                    \/ x \in Names(a)
                    \/ x = [id |-> a.next_one_time_key_id + 1, key |-> key]
<1> DEFINE b == WithFallbackKey(a, key)
<1>1. a \in OlmAccount
  BY DEF Fits
<1>2. /\ b \in OlmAccount
      /\ b.one_time_keys = a.one_time_keys
      /\ b.next_one_time_key_id = a.next_one_time_key_id + 1
      /\ b.num_fallback_keys >= 2 => a.num_fallback_keys >= 1
      /\ b.prev_fallback_key = a.current_fallback_key
      /\ b.current_fallback_key = [id        |-> a.next_one_time_key_id + 1,
                                   published |-> FALSE,
                                   key       |-> key]
  <2> DEFINE new == [id |-> a.next_one_time_key_id + 1, published |-> FALSE, key |-> key]
             num == IF a.num_fallback_keys < 2 THEN a.num_fallback_keys + 1
                                               ELSE a.num_fallback_keys
             c == [a EXCEPT !.num_fallback_keys    = num,
                            !.prev_fallback_key    = a.current_fallback_key,
                            !.current_fallback_key = new,
                            !.next_one_time_key_id = a.next_one_time_key_id + 1]
  <2>1. b = c
    BY <1>1 DEF WithFallbackKey, OlmAccount
  <2>2. /\ new \in OlmOneTimeKey
        /\ num \in 0 .. 2
        /\ num >= 2 => a.num_fallback_keys >= 1
        /\ a.next_one_time_key_id + 1 \in Nat
    BY <1>1, AccountFields DEF OlmOneTimeKey
  <2> HIDE DEF num, b
  <2>3. /\ c \in OlmAccount
        /\ c.one_time_keys = a.one_time_keys
        /\ c.next_one_time_key_id = a.next_one_time_key_id + 1
        /\ c.num_fallback_keys = num
        /\ c.prev_fallback_key = a.current_fallback_key
        /\ c.current_fallback_key = new
    <3> HIDE DEF new
    <3> QED BY <1>1, <2>2, AccountFields DEF OlmAccount
  <2> HIDE DEF c
  <2> QED BY <2>1, <2>2, <2>3
<1>3. Name(b.current_fallback_key) = [id |-> a.next_one_time_key_id + 1, key |-> key]
  BY <1>2 DEF Name
<1> HIDE DEF b
<1>4. \A x \in Names(b) :
         \/ x \in Names(a)
         \/ x = [id |-> a.next_one_time_key_id + 1, key |-> key]
  BY <1>1, <1>2, <1>3, NamesOf
<1> QED
  BY <1>2, <1>4 DEF Fits, b

(* The other operations hold no key that was not held before.              *)
LEMMA ForgetHolds ==
    ASSUME NEW a, Fits(a)
    PROVE  LET b == WithoutOldFallbackKey(a)
           IN  /\ Fits(b)
               /\ b.next_one_time_key_id = a.next_one_time_key_id
               /\ Names(b) \subseteq Names(a)
<1> DEFINE b == WithoutOldFallbackKey(a)
<1>1. a \in OlmAccount
  BY DEF Fits
<1>2. /\ b \in OlmAccount
      /\ b.one_time_keys = a.one_time_keys
      /\ b.next_one_time_key_id = a.next_one_time_key_id
      /\ b.num_fallback_keys <= a.num_fallback_keys
      /\ b.num_fallback_keys <= 1
      /\ b.current_fallback_key = a.current_fallback_key
  <2>1. CASE a.num_fallback_keys >= 2
    <3> DEFINE one == 1
               c == [a EXCEPT !.num_fallback_keys = one, !.prev_fallback_key = NoKey]
    <3>1. b = c
      BY <2>1 DEF WithoutOldFallbackKey
    <3>2. NoKey \in OlmOneTimeKey
      BY DEF NoKey, OlmOneTimeKey, Key
    <3> HIDE DEF b
    <3>4. one \in 0 .. 2 /\ one <= 1
      OBVIOUS
    <3> HIDE DEF one
    <3>3. /\ c \in OlmAccount
          /\ c.one_time_keys = a.one_time_keys
          /\ c.next_one_time_key_id = a.next_one_time_key_id
          /\ c.num_fallback_keys = one
          /\ c.current_fallback_key = a.current_fallback_key
      BY <1>1, <3>2, <3>4, AccountFields DEF OlmAccount
    <3> HIDE DEF c
    <3> QED BY <1>1, <2>1, <3>1, <3>3, <3>4, AccountFields
  <2>2. CASE ~(a.num_fallback_keys >= 2)
    BY <1>1, <2>2, AccountFields DEF WithoutOldFallbackKey
  <2> QED BY <2>1, <2>2
<1> HIDE DEF b
<1>3. b.num_fallback_keys \in 0 .. 2 /\ a.num_fallback_keys \in 0 .. 2
  BY <1>1, <1>2 DEF OlmAccount
<1>4. Names(b) \subseteq Names(a)
  BY <1>1, <1>2, <1>3, NamesOf
<1> QED
  BY <1>2, <1>4 DEF Fits, b

LEMMA MarkHolds ==
    ASSUME NEW a, Fits(a)
    PROVE  LET b == MarkedAsPublished(a)
           IN  /\ Fits(b)
               /\ b.next_one_time_key_id = a.next_one_time_key_id
               /\ Names(b) \subseteq Names(a)
<1> DEFINE mark(k) == [k EXCEPT !.published = TRUE]
           list == [i \in DOMAIN a.one_time_keys |-> mark(a.one_time_keys[i])]
           b == [a EXCEPT !.one_time_keys = list,
                          !.current_fallback_key = mark(a.current_fallback_key)]
<1>1. a \in OlmAccount
  BY DEF Fits
<1>2. MarkedAsPublished(a) = b
  BY <1>1 DEF MarkedAsPublished, OlmAccount
<1>3. \A k \in OlmOneTimeKey : mark(k) \in OlmOneTimeKey /\ Name(mark(k)) = Name(k)
  BY DEF OlmOneTimeKey, Name
<1> HIDE DEF mark
<1>4. /\ list \in Seq(OlmOneTimeKey)
      /\ Len(list) = Len(a.one_time_keys)
      /\ \A i \in 1 .. Len(list) : Name(list[i]) = Name(a.one_time_keys[i])
  BY <1>1, <1>3, AccountFields
<1> HIDE DEF list
<1>5. /\ b \in OlmAccount
      /\ b.one_time_keys = list
      /\ b.next_one_time_key_id = a.next_one_time_key_id
      /\ b.num_fallback_keys = a.num_fallback_keys
      /\ b.current_fallback_key = mark(a.current_fallback_key)
      /\ b.prev_fallback_key = a.prev_fallback_key
  BY <1>1, <1>3, <1>4, AccountFields DEF OlmAccount
<1> HIDE DEF b
<1>6. Name(b.current_fallback_key) = Name(a.current_fallback_key)
  BY <1>1, <1>3, <1>5, AccountFields
<1>7. Names(b) \subseteq Names(a)
  BY <1>1, <1>4, <1>5, <1>6, NamesOf
<1> QED
  BY <1>2, <1>4, <1>5, <1>7 DEF Fits

LEMMA RemoveHolds ==
    ASSUME NEW a, Fits(a), NEW key
    PROVE  LET b == WithoutKey(a, key)
           IN  /\ Fits(b)
               /\ b.next_one_time_key_id = a.next_one_time_key_id
               /\ Names(b) \subseteq Names(a)
<1> DEFINE positions == {i \in DOMAIN a.one_time_keys : a.one_time_keys[i].key = key}
           first == CHOOSE i \in positions : \A j \in positions : i <= j
           list == ListErase(a.one_time_keys, first)
           b == [a EXCEPT !.one_time_keys = list]
<1>1. a \in OlmAccount
  BY DEF Fits
<1>2. CASE positions = {}
  BY <1>2 DEF WithoutKey
<1>3. CASE positions # {}
  <2>1. WithoutKey(a, key) = b
    BY <1>3 DEF WithoutKey
  <2>2. positions \subseteq Nat
    BY <1>1, AccountFields
  <2>3. first \in 1 .. Len(a.one_time_keys)
    <3>1. \E i \in positions : \A j \in positions : i <= j
      BY <1>3, <2>2, LeastElement
    <3>2. first \in positions
      BY <3>1
    <3> HIDE DEF first
    <3> QED BY <1>1, <3>2, AccountFields
  <2> HIDE DEF first
  <2>4. /\ list \in Seq(OlmOneTimeKey)
        /\ Len(list) = Len(a.one_time_keys) - 1
        /\ \A i \in 1 .. Len(list) : \E j \in 1 .. Len(a.one_time_keys) :
               list[i] = a.one_time_keys[j]
    <3>1. a.one_time_keys \in Seq(OlmOneTimeKey)
      BY <1>1, AccountFields
    <3>2. /\ list \in Seq(OlmOneTimeKey)
          /\ Len(list) = Len(a.one_time_keys) - 1
          /\ \A i \in 1 .. Len(a.one_time_keys) - 1 :
                list[i] = IF i < first THEN a.one_time_keys[i] ELSE a.one_time_keys[i + 1]
      BY <2>3, <3>1, ListEraseProperties
    <3> HIDE DEF list
    <3>3. \A i \in 1 .. Len(a.one_time_keys) - 1 :
             i \in 1 .. Len(a.one_time_keys) /\ i + 1 \in 1 .. Len(a.one_time_keys)
      BY <3>1
    <3> QED BY <3>2, <3>3
  <2> HIDE DEF list
  <2>5. /\ b \in OlmAccount
        /\ b.one_time_keys = list
        /\ b.next_one_time_key_id = a.next_one_time_key_id
        /\ b.num_fallback_keys = a.num_fallback_keys
        /\ b.current_fallback_key = a.current_fallback_key
        /\ b.prev_fallback_key = a.prev_fallback_key
    BY <1>1, <2>4, AccountFields DEF OlmAccount
  <2> HIDE DEF b
  <2>6. Names(b) \subseteq Names(a)
    BY <1>1, <2>4, <2>5, NamesOf
  <2>7. Len(list) <= MAX_ONE_TIME_KEYS
    BY <1>1, <2>4, OneTimeKeysAssumption, AccountFields DEF Fits
  <2> QED BY <2>1, <2>5, <2>6, <2>7 DEF Fits
<1> QED
  BY <1>2, <1>3

(* A pickle holds the keys of the account it was made of, and the account  *)
(* restored from it those of the pickle.                                   *)
LEMMA PickleHolds ==
    ASSUME NEW a, Fits(a)
    PROVE  LET b == Pickled(a)
           IN  /\ Fits(b)
               /\ b.next_one_time_key_id = a.next_one_time_key_id
               /\ Names(b) = Names(a)
<1> DEFINE current == IF a.num_fallback_keys >= 1 THEN a.current_fallback_key ELSE NoKey
           prev == IF a.num_fallback_keys >= 2 THEN a.prev_fallback_key ELSE NoKey
           b == [a EXCEPT !.current_fallback_key = current,
                          !.prev_fallback_key    = prev,
                          !.ed25519_seed         = 0,
                          !.ed25519_seed_known   = FALSE]
<1>1. a \in OlmAccount
  BY DEF Fits
<1>2. Pickled(a) = b
  BY <1>1 DEF Pickled, OlmAccount
<1>3. current \in OlmOneTimeKey /\ prev \in OlmOneTimeKey
  BY <1>1, AccountFields DEF NoKey, OlmOneTimeKey, Key
<1>4. /\ a.num_fallback_keys >= 1 => current = a.current_fallback_key
      /\ a.num_fallback_keys >= 2 => prev = a.prev_fallback_key
  OBVIOUS
<1> HIDE DEF current, prev
<1>5. /\ b \in OlmAccount
      /\ b.one_time_keys = a.one_time_keys
      /\ b.next_one_time_key_id = a.next_one_time_key_id
      /\ b.num_fallback_keys = a.num_fallback_keys
      /\ b.current_fallback_key = current
      /\ b.prev_fallback_key = prev
  BY <1>1, <1>3, AccountFields DEF OlmAccount
<1> HIDE DEF b
<1>6. Names(b) = Names(a)
  <2>1. a.num_fallback_keys >= 2 => a.num_fallback_keys >= 1
    BY <1>1, AccountFields
  <2>2. \A x : x \in Names(b) <=> x \in Names(a)
    BY <1>1, <1>4, <1>5, <2>1, NamesOf
  <2> QED BY <2>2
<1> QED
  BY <1>2, <1>5, <1>6 DEF Fits

LEMMA UnpickleHolds ==
    ASSUME NEW a \in OlmAccount, NEW version, NEW pickle, Fits(pickle)
    PROVE  LET b == Unpickled(a, version, pickle)
           IN  /\ Fits(b)
               /\ b.next_one_time_key_id = pickle.next_one_time_key_id
               /\ Names(b) = Names(pickle)
<1> DEFINE current == IF pickle.num_fallback_keys >= 1
                        THEN RestoredKey(version, pickle.current_fallback_key) ELSE a.current_fallback_key
           prev == IF pickle.num_fallback_keys >= 2
                     THEN RestoredKey(version, pickle.prev_fallback_key) ELSE a.prev_fallback_key
           b == [pickle EXCEPT !.current_fallback_key = current,
                               !.prev_fallback_key    = prev,
                               !.ed25519_seed         = a.ed25519_seed,
                               !.ed25519_seed_known   = a.ed25519_seed_known]
<1>1. pickle \in OlmAccount
  BY DEF Fits
<1>2. Unpickled(a, version, pickle) = b
  BY <1>1 DEF Unpickled, OlmAccount
<1>3. \A k \in OlmOneTimeKey : /\ RestoredKey(version, k) \in OlmOneTimeKey
                               /\ Name(RestoredKey(version, k)) = Name(k)
  BY DEF RestoredKey, OlmOneTimeKey, Name
<1>4. /\ current \in OlmOneTimeKey
      /\ prev \in OlmOneTimeKey
      /\ pickle.num_fallback_keys >= 1 => Name(current) = Name(pickle.current_fallback_key)
      /\ pickle.num_fallback_keys >= 2 => Name(prev) = Name(pickle.prev_fallback_key)
  BY <1>1, <1>3, AccountFields
<1> HIDE DEF current, prev
<1>5. /\ b \in OlmAccount
      /\ b.one_time_keys = pickle.one_time_keys
      /\ b.next_one_time_key_id = pickle.next_one_time_key_id
      /\ b.num_fallback_keys = pickle.num_fallback_keys
      /\ b.current_fallback_key = current
      /\ b.prev_fallback_key = prev
  BY <1>1, <1>4, AccountFields DEF OlmAccount
<1> HIDE DEF b
<1>6. Names(b) = Names(pickle)
  BY <1>1, <1>4, <1>5, NamesOf
<1> QED
  BY <1>2, <1>5, <1>6 DEF Fits

(* What is read for the upload is held.                                    *)
LEMMA UnpublishedHeld ==
    ASSUME NEW a \in OlmAccount
    PROVE  Unpublished(a) \subseteq Names(a)
  BY DEF Unpublished, Names, Held, FallbackKeys

-----------------------------------------------------------------------------
(* New keys under ids of their own beyond the counter disturb nothing.     *)
LEMMA StillUnique ==
    ASSUME IInv, NEW b, Fits(b), NEW number \in Nat,
           b.next_one_time_key_id = account.next_one_time_key_id + number,
           NEW keys,
           \A x \in Names(b) :
              \/ x \in Names(account)
              \/ \E i \in 1 .. number :
                    x = [id  |-> account.next_one_time_key_id + number - i + 1,
                         key |-> keys[i]]
    PROVE  /\ pickled.next_one_time_key_id <= b.next_one_time_key_id
           /\ \A x \in Names(b) : x.id <= b.next_one_time_key_id
           /\ \A x, y \in Settled \cup Names(b) : x.id = y.id => x.key = y.key
<1> DEFINE name(i) == [id  |-> account.next_one_time_key_id + number - i + 1,
                       key |-> keys[i]]
<1>1. /\ account.next_one_time_key_id \in Nat
      /\ pickled.next_one_time_key_id \in Nat
      /\ pickled.next_one_time_key_id <= account.next_one_time_key_id
  BY AccountFields DEF IInv, TypeOK
<1>2. \A x \in Settled \cup Names(account) :
         x.id \in Nat /\ x.id <= account.next_one_time_key_id
  <2>1. \A x \in UploadedKey : x.id \in Nat
    BY DEF UploadedKey
  <2>2. Settled \cup Names(account) \subseteq UploadedKey
    BY NamesType DEF IInv, TypeOK, Settled
  <2>3. \A x \in Settled : x.id <= pickled.next_one_time_key_id
    BY DEF IInv
  <2>4. \A x \in Names(account) : x.id <= account.next_one_time_key_id
    BY DEF IInv
  <2>5. \A i \in Nat : i <= pickled.next_one_time_key_id => i <= account.next_one_time_key_id
    BY <1>1
  <2> QED BY <2>1, <2>2, <2>3, <2>4, <2>5
<1>3. \A i \in 1 .. number : /\ name(i).id \in Nat
                            /\ name(i).id > account.next_one_time_key_id
                            /\ name(i).id <= b.next_one_time_key_id
  BY <1>1
<1>4. \A i, j \in 1 .. number : name(i).id = name(j).id => i = j
  BY <1>1
<1>10. \A x \in Names(b) : x \in Names(account) \/ \E i \in 1 .. number : x = name(i)
  OBVIOUS
<1> HIDE DEF name
<1>5. account.next_one_time_key_id <= b.next_one_time_key_id
  BY <1>1
<1>6. \A x \in Names(b) : x.id <= b.next_one_time_key_id
  BY <1>1, <1>2, <1>3, <1>10
<1>7. \A x \in Settled \cup Names(b) :
         \/ x \in Settled \cup Names(account)
         \/ \E i \in 1 .. number : x = name(i)
  BY <1>10
<1>8. \A x, y \in Settled \cup Names(account) : x.id = y.id => x.key = y.key
  BY DEF IInv
<1>9. \A x, y \in Settled \cup Names(b) : x.id = y.id => x.key = y.key
  <2> SUFFICES ASSUME NEW x \in Settled \cup Names(b), NEW y \in Settled \cup Names(b),
                      x.id = y.id
               PROVE  x.key = y.key
    OBVIOUS
  <2>1. CASE x \in Settled \cup Names(account) /\ y \in Settled \cup Names(account)
    BY <1>8, <2>1
  <2>2. \A v \in Settled \cup Names(account), i \in 1 .. number : v.id # name(i).id
    BY <1>1, <1>2, <1>3
  <2>3. CASE ~(x \in Settled \cup Names(account) /\ y \in Settled \cup Names(account))
    BY <1>4, <1>7, <2>2, <2>3
  <2> QED BY <2>1, <2>3
<1> QED
  BY <1>1, <1>5, <1>6, <1>9

LEMMA InitIInv == Init => IInv
<1> SUFFICES ASSUME Init
             PROVE  IInv
  OBVIOUS
<1>1. NoKey \in OlmOneTimeKey /\ Identity(1) \in IdentityKeys
  BY DEF NoKey, OlmOneTimeKey, Key, Identity, IdentityKeys
<1>2. Fits(account) /\ account.num_fallback_keys = 0 /\ account.one_time_keys = <<>>
  <2>1. account = [identity_keys        |-> Identity(1),
                   one_time_keys        |-> <<>>,
                   current_fallback_key |-> NoKey,
                   prev_fallback_key    |-> NoKey,
                   num_fallback_keys    |-> 0,
                   next_one_time_key_id |-> 0,
                   ed25519_seed         |-> 1,
                   ed25519_seed_known   |-> TRUE]
    BY DEF Init, NewAccount, Cleared
  <2>2. /\ account \in OlmAccount
        /\ account.num_fallback_keys = 0
        /\ account.one_time_keys = <<>>
    BY <1>1, <2>1 DEF OlmAccount
  <2>3. Len(account.one_time_keys) <= MAX_ONE_TIME_KEYS
    BY <2>2, OneTimeKeysAssumption
  <2> QED BY <2>2, <2>3 DEF Fits
<1>3. Names(account) = {}
  BY <1>2, NamesOf DEF Fits
<1>4. /\ Fits(pickled)
      /\ pickled.next_one_time_key_id = account.next_one_time_key_id
      /\ Names(pickled) = {}
  BY <1>2, <1>3, PickleHolds DEF Init
<1>5. Settled = {}
  BY <1>4 DEF Init, Settled
<1>6. TypeOK
  BY <1>2, <1>4 DEF Init, TypeOK, Fits
<1>7. account.next_one_time_key_id \in Nat
  BY <1>2, AccountFields DEF Fits
<1> QED
  BY <1>3, <1>4, <1>5, <1>6, <1>7 DEF IInv

(* A step after which nothing is held or settled that was not before.      *)
LEMMA FewerIInv ==
    ASSUME IInv, TypeOK', Settled' \subseteq Settled, UNCHANGED pickled,
           Names(account') \subseteq Settled \cup Names(account),
           \A x \in Names(account') : x.id <= account'.next_one_time_key_id,
           pickled.next_one_time_key_id <= account'.next_one_time_key_id
    PROVE  IInv'
  <1>1. Names(account)' = Names(account')
    BY DEF Names, Held, FallbackKeys
  <1> QED BY <1>1 DEF IInv

LEMMA NextIInv == IInv /\ [Next]_vars => IInv'
<1> SUFFICES ASSUME IInv, [Next]_vars
             PROVE  IInv'
  OBVIOUS
<1>1. /\ Fits(account) /\ Fits(pickled)
      /\ request \subseteq UploadedKey /\ uploaded \subseteq UploadedKey
      /\ accepted \subseteq Key /\ forgotten \subseteq Key
      /\ generated \in [one_time : Nat, fallback : Nat]
      /\ generated.one_time \in Nat /\ generated.fallback \in Nat
  BY DEF IInv, TypeOK, Fits
<1>2. Names(account)' = Names(account') /\ Names(pickled)' = Names(pickled')
  BY DEF Names, Held, FallbackKeys
<1>3. /\ account.next_one_time_key_id \in Nat
      /\ pickled.next_one_time_key_id \in Nat
      /\ pickled.next_one_time_key_id <= account.next_one_time_key_id
      /\ \A x \in Settled : x.id <= pickled.next_one_time_key_id
      /\ \A x \in Names(account) : x.id <= account.next_one_time_key_id
      /\ \A x, y \in Settled \cup Names(account) : x.id = y.id => x.key = y.key
  BY <1>1, AccountFields DEF IInv, Fits
<1>4. ASSUME NEW number \in 1 .. MaxKeys, GenerateOneTimeKeys(number)
      PROVE  IInv'
  <2> DEFINE b == WithOneTimeKeys(account, number, generated.one_time + 1)
             key(i) == OneTime(generated.one_time + 1 + number - i)
             keys == [i \in 1 .. number |-> key(i)]
  <2>1. /\ account' = b
        /\ generated' \in [one_time : Nat, fallback : Nat]
        /\ Settled' = Settled
        /\ UNCHANGED <<pickled, request, uploaded, accepted, forgotten>>
    BY <1>1, <1>2, <1>4 DEF GenerateOneTimeKeys, Settled
  <2>2. number \in Nat /\ generated.one_time + 1 \in Nat
    BY <1>1
  <2>3. /\ Fits(b)
        /\ b.next_one_time_key_id = account.next_one_time_key_id + number
        /\ \A x \in Names(b) :
             \/ x \in Names(account)
             \/ \E i \in 1 .. number :
                   x = [id  |-> account.next_one_time_key_id + number - i + 1,
                        key |-> key(i)]
    <3>1. Fits(account)
      BY <1>1
    <3> QED BY <2>2, <3>1, GenerateOneTimeKeysHolds, Zenon
  <2> HIDE DEF b, key
  <2>4. \A x \in Names(b) :
           \/ x \in Names(account)
           \/ \E i \in 1 .. number :
                 x = [id  |-> account.next_one_time_key_id + number - i + 1,
                      key |-> keys[i]]
    BY <2>3
  <2> HIDE DEF keys
  <2>5. /\ pickled.next_one_time_key_id <= b.next_one_time_key_id
        /\ \A x \in Names(b) : x.id <= b.next_one_time_key_id
        /\ \A x, y \in Settled \cup Names(b) : x.id = y.id => x.key = y.key
    BY <2>2, <2>3, <2>4, StillUnique
  <2>6. TypeOK'
    BY <1>1, <2>1, <2>3 DEF TypeOK, Fits
  <2> QED BY <1>2, <1>3, <2>1, <2>5, <2>6 DEF IInv
<1>5. CASE GenerateFallbackKey
  <2> DEFINE key == Fallback(generated.fallback + 1)
             b == WithFallbackKey(account, key)
             keys == [i \in 1 .. 1 |-> key]
  <2>1. /\ account' = b
        /\ generated' \in [one_time : Nat, fallback : Nat]
        /\ Settled' = Settled
        /\ UNCHANGED <<pickled, request, uploaded, accepted, forgotten>>
    BY <1>1, <1>2, <1>5 DEF GenerateFallbackKey, Settled
  <2>2. key \in Key
    BY <1>1 DEF Fallback, Key
  <2> HIDE DEF key
  <2>3. /\ Fits(b)
        /\ b.next_one_time_key_id = account.next_one_time_key_id + 1
        /\ \A x \in Names(b) :
             \/ x \in Names(account)
             \/ x = [id |-> account.next_one_time_key_id + 1, key |-> key]
    BY <1>1, <2>2, GenerateFallbackKeyHolds
  <2>4. /\ account.next_one_time_key_id + 1 - 1 + 1 = account.next_one_time_key_id + 1
        /\ keys[1] = key
    BY <1>3
  <2> HIDE DEF b, keys
  <2>6. \A x \in Names(b) :
           \/ x \in Names(account)
           \/ \E i \in 1 .. 1 :
                 x = [id  |-> account.next_one_time_key_id + 1 - i + 1, key |-> keys[i]]
    <3>1. 1 \in 1 .. 1
      OBVIOUS
    <3> QED BY <2>3, <2>4, <3>1
  <2>7. /\ pickled.next_one_time_key_id <= b.next_one_time_key_id
        /\ \A x \in Names(b) : x.id <= b.next_one_time_key_id
        /\ \A x, y \in Settled \cup Names(b) : x.id = y.id => x.key = y.key
    <3>1. 1 \in Nat
      OBVIOUS
    <3> QED BY <2>3, <2>6, <3>1, StillUnique
  <2>8. TypeOK'
    BY <1>1, <2>1, <2>3 DEF TypeOK, Fits
  <2> QED BY <1>2, <1>3, <2>1, <2>7, <2>8 DEF IInv
<1>6. CASE ForgetOldFallbackKey
  <2>1. /\ account' = WithoutOldFallbackKey(account)
        /\ Settled' = Settled
        /\ UNCHANGED <<pickled, request, uploaded, accepted, generated>>
    BY <1>2, <1>6 DEF ForgetOldFallbackKey, Settled
  <2>2. forgotten' \subseteq Key
    <3>1. \A k \in FallbackKeys(account) : k.key \in Key
      BY <1>1, AccountFields DEF Fits, FallbackKeys, OlmOneTimeKey
    <3> QED BY <1>1, <1>6, <3>1 DEF ForgetOldFallbackKey
  <2>3. /\ Fits(account')
        /\ account'.next_one_time_key_id = account.next_one_time_key_id
        /\ Names(account') \subseteq Names(account)
    BY <1>1, <2>1, ForgetHolds
  <2>4. TypeOK'
    BY <1>1, <2>1, <2>2, <2>3 DEF TypeOK, Fits
  <2> QED BY <1>3, <2>1, <2>3, <2>4, FewerIInv
<1>7. CASE Store
  <2>1. /\ pickled' = Pickled(account)
        /\ UNCHANGED <<account, request, uploaded, accepted, forgotten, generated>>
    BY <1>7 DEF Store
  <2>2. /\ Fits(pickled')
        /\ pickled'.next_one_time_key_id = account.next_one_time_key_id
        /\ Names(pickled') = Names(account)
    BY <1>1, <2>1, PickleHolds
  <2>3. TypeOK'
    BY <1>1, <2>1, <2>2 DEF TypeOK, Fits
  <2>4. Settled' \subseteq Settled \cup Names(account)
    BY <1>2, <2>1, <2>2 DEF Settled
  <2>5. \A x \in Settled \cup Names(account) : x.id <= account.next_one_time_key_id
    <3>1. \A x \in Settled : x.id \in Nat
      BY <1>1, NamesType DEF Settled, UploadedKey, Fits
    <3> QED BY <1>3, <3>1
  <2>6. Names(account)' = Names(account)
    BY <1>2, <2>1
  <2> QED BY <1>3, <2>1, <2>2, <2>3, <2>4, <2>5, <2>6 DEF IInv
<1>8. CASE ReadKeys
  <2>1. /\ pickled = Pickled(account)
        /\ request' = Unpublished(account)
        /\ UNCHANGED <<account, pickled, uploaded, accepted, forgotten, generated>>
    BY <1>8 DEF ReadKeys
  <2>2. request' \subseteq Names(pickled) /\ Names(pickled) \subseteq UploadedKey
    BY <1>1, <2>1, PickleHolds, UnpublishedHeld, NamesType DEF Fits
  <2>3. TypeOK'
    BY <1>1, <2>1, <2>2 DEF TypeOK, Fits
  <2>4. Settled' \subseteq Settled
    BY <1>2, <2>1, <2>2 DEF Settled
  <2> QED BY <1>3, <2>1, <2>3, <2>4, FewerIInv
<1>9. CASE Upload
  <2>1. /\ uploaded' = uploaded \cup request
        /\ UNCHANGED <<account, pickled, request, accepted, forgotten, generated>>
    BY <1>9 DEF Upload
  <2>2. TypeOK'
    BY <1>1, <2>1 DEF TypeOK, Fits
  <2>3. Settled' \subseteq Settled
    BY <1>2, <2>1 DEF Settled
  <2> QED BY <1>3, <2>1, <2>2, <2>3, FewerIInv
<1>10. CASE MarkKeysAsPublished
  <2>1. /\ account' = MarkedAsPublished(account)
        /\ request' = {}
        /\ UNCHANGED <<pickled, uploaded, accepted, forgotten, generated>>
    BY <1>10 DEF MarkKeysAsPublished
  <2>2. /\ Fits(account')
        /\ account'.next_one_time_key_id = account.next_one_time_key_id
        /\ Names(account') \subseteq Names(account)
    BY <1>1, <2>1, MarkHolds
  <2>3. TypeOK'
    BY <1>1, <2>1, <2>2 DEF TypeOK, Fits
  <2>4. Settled' \subseteq Settled
    BY <1>2, <2>1 DEF Settled
  <2> QED BY <1>3, <2>1, <2>2, <2>3, <2>4, FewerIInv
<1>11. ASSUME NEW k \in uploaded, Accept(k.key)
       PROVE  IInv'
  <2>1. /\ account' = WithoutKey(account, k.key)
        /\ accepted' \subseteq accepted \cup {k.key}
        /\ Settled' = Settled
        /\ UNCHANGED <<pickled, request, uploaded, forgotten, generated>>
    BY <1>2, <1>11 DEF Accept, Settled
  <2>2. k.key \in Key
    BY <1>1 DEF UploadedKey
  <2>3. /\ Fits(account')
        /\ account'.next_one_time_key_id = account.next_one_time_key_id
        /\ Names(account') \subseteq Names(account)
    BY <1>1, <2>1, RemoveHolds
  <2>4. TypeOK'
    BY <1>1, <2>1, <2>2, <2>3 DEF TypeOK, Fits
  <2> QED BY <1>3, <2>1, <2>3, <2>4, FewerIInv
<1>12. ASSUME NEW version \in 2 .. 4, Restart(version)
       PROVE  IInv'
  <2>1. /\ account' = Unpickled(Cleared, version, pickled)
        /\ request' = {}
        /\ UNCHANGED <<pickled, uploaded, accepted, forgotten, generated>>
    BY <1>12 DEF Restart
  <2>2. Cleared \in OlmAccount
    <3>1. NoKey \in OlmOneTimeKey /\ Identity(0) \in IdentityKeys
      BY DEF NoKey, OlmOneTimeKey, Key, Identity, IdentityKeys
    <3> QED BY <3>1 DEF Cleared, OlmAccount
  <2>3. /\ Fits(account')
        /\ account'.next_one_time_key_id = pickled.next_one_time_key_id
        /\ Names(account') = Names(pickled)
    BY <1>1, <2>1, <2>2, UnpickleHolds
  <2>4. TypeOK'
    BY <1>1, <2>1, <2>3 DEF TypeOK, Fits
  <2>5. Settled' \subseteq Settled /\ Names(pickled) \subseteq Settled
    BY <1>2, <2>1 DEF Settled
  <2> QED BY <1>3, <2>1, <2>3, <2>4, <2>5, FewerIInv
<1>13. CASE UNCHANGED vars
  <2>1. /\ UNCHANGED <<account, pickled, request, uploaded, accepted, forgotten, generated>>
    BY <1>13 DEF vars
  <2>2. TypeOK' /\ Settled' = Settled
    BY <1>1, <1>2, <2>1 DEF TypeOK, Fits, Settled
  <2> QED BY <1>3, <2>1, <2>2, FewerIInv
<1> QED
  BY <1>4, <1>5, <1>6, <1>7, <1>8, <1>9, <1>10, <1>11, <1>12, <1>13 DEF Next

(* The inductive invariant holds for every capacity of the list and any    *)
(* number of keys, stores, crashes and restarts.                           *)
THEOREM Invariance == Spec => []IInv
<1> QED
  BY InitIInv, NextIInv, PTL DEF Spec

(* The lists fit their arrays and at most two fallback keys are kept.      *)
THEOREM TypeCorrect == Spec => []TypeOK
<1>1. IInv => TypeOK
  BY DEF IInv
<1> QED
  BY <1>1, Invariance, PTL

(* No id is ever given to the server for two keys, whenever the            *)
(* application crashes.                                                    *)
THEOREM SpecIdsUnique == Spec => []IdsUnique
<1>1. IInv => IdsUnique
  BY DEF IInv, IdsUnique, Settled
<1> QED
  BY <1>1, Invariance, PTL

-----------------------------------------------------------------------------
(* Uploaded keys answer.  Every key the server has or is being given can   *)
(* be looked up in the account, and in the pickle a crash goes back to,    *)
(* unless it is excused.  This is inductive together with the age of each  *)
(* key by its place: the i-th one-time key has i - 1 newer ones at least,  *)
(* the previous fallback key one.                                          *)
ExcusedBy(key, acc, forg, gen) ==
    \/ key \in acc
    \/ key[1] = "one-time" /\ gen.one_time - key[2] >= MAX_ONE_TIME_KEYS
    \/ key[1] = "fallback" /\ (key \in forg \/ gen.fallback - key[2] >= 2)

Aged(a, gen) ==
    /\ \A i \in 1 .. Len(a.one_time_keys) :
          \E n \in Nat : a.one_time_keys[i].key = OneTime(n) /\ n + i <= gen.one_time + 1
    /\ a.num_fallback_keys >= 1 =>
          \E n \in Nat : a.current_fallback_key.key = Fallback(n) /\ n <= gen.fallback
    /\ a.num_fallback_keys >= 2 =>
          \E n \in Nat : a.prev_fallback_key.key = Fallback(n) /\ n + 1 <= gen.fallback

Answers(a, names, acc, forg, gen) ==
    /\ Aged(a, gen)
    /\ \A x \in names : ExcusedBy(x.key, acc, forg, gen) \/ LooksUp(a, x.key)

AnswersInv ==
    /\ Answers(account, uploaded \cup request, accepted, forgotten, generated)
    /\ Answers(pickled, uploaded \cup request, accepted, forgotten, generated)

Counts == [one_time : Nat, fallback : Nat]

LEMMA LooksUpIn ==
    ASSUME NEW a \in OlmAccount, NEW key
    PROVE  LooksUp(a, key) <=>
              \/ \E i \in 1 .. Len(a.one_time_keys) : a.one_time_keys[i].key = key
              \/ a.num_fallback_keys >= 1 /\ a.current_fallback_key.key = key
              \/ a.num_fallback_keys >= 2 /\ a.prev_fallback_key.key = key
  BY DEF LooksUp, Held, FallbackKeys, OlmAccount

(* Nothing but the published flags and what is no key differs.             *)
SameKeys(a, b) ==
    /\ Len(b.one_time_keys) = Len(a.one_time_keys)
    /\ \A i \in 1 .. Len(a.one_time_keys) : b.one_time_keys[i].key = a.one_time_keys[i].key
    /\ b.num_fallback_keys = a.num_fallback_keys
    /\ a.num_fallback_keys >= 1 => b.current_fallback_key.key = a.current_fallback_key.key
    /\ a.num_fallback_keys >= 2 => b.prev_fallback_key.key = a.prev_fallback_key.key

LEMMA SameKeysAnswer ==
    ASSUME NEW a \in OlmAccount, NEW b \in OlmAccount, SameKeys(a, b),
           NEW names, NEW acc, NEW forg, NEW gen, Answers(a, names, acc, forg, gen)
    PROVE  Answers(b, names, acc, forg, gen)
<1>1. Aged(b, gen)
  BY DEF Answers, Aged, SameKeys
<1>2. \A key : LooksUp(a, key) => LooksUp(b, key)
  BY LooksUpIn DEF SameKeys
<1> QED BY <1>1, <1>2 DEF Answers

LEMMA MarkSameKeys ==
    ASSUME NEW a, Fits(a)
    PROVE  SameKeys(a, MarkedAsPublished(a))
<1> DEFINE mark(k) == [k EXCEPT !.published = TRUE]
           list == [i \in DOMAIN a.one_time_keys |-> mark(a.one_time_keys[i])]
           b == [a EXCEPT !.one_time_keys = list,
                          !.current_fallback_key = mark(a.current_fallback_key)]
<1>1. a \in OlmAccount /\ MarkedAsPublished(a) = b
  BY DEF Fits, MarkedAsPublished, OlmAccount
<1>2. \A k \in OlmOneTimeKey : mark(k).key = k.key
  BY DEF OlmOneTimeKey
<1> HIDE DEF mark
<1>3. /\ Len(list) = Len(a.one_time_keys)
      /\ \A i \in 1 .. Len(list) : list[i].key = a.one_time_keys[i].key
  BY <1>1, <1>2, AccountFields
<1> HIDE DEF list
<1>4. /\ b.one_time_keys = list
      /\ b.num_fallback_keys = a.num_fallback_keys
      /\ b.current_fallback_key = mark(a.current_fallback_key)
      /\ b.prev_fallback_key = a.prev_fallback_key
  BY <1>1 DEF OlmAccount
<1> HIDE DEF b
<1> QED BY <1>1, <1>2, <1>3, <1>4, AccountFields DEF SameKeys

LEMMA PickleSameKeys ==
    ASSUME NEW a, Fits(a)
    PROVE  SameKeys(a, Pickled(a))
<1>1. a \in OlmAccount
  BY DEF Fits
<1>2. /\ Pickled(a).one_time_keys = a.one_time_keys
      /\ Pickled(a).num_fallback_keys = a.num_fallback_keys
      /\ a.num_fallback_keys >= 1 => Pickled(a).current_fallback_key = a.current_fallback_key
      /\ a.num_fallback_keys >= 2 => Pickled(a).prev_fallback_key = a.prev_fallback_key
  BY <1>1 DEF Pickled, OlmAccount
<1> QED BY <1>2 DEF SameKeys

LEMMA UnpickleSameKeys ==
    ASSUME NEW a \in OlmAccount, NEW version, NEW pickle, Fits(pickle)
    PROVE  SameKeys(pickle, Unpickled(a, version, pickle))
<1> DEFINE b == Unpickled(a, version, pickle)
<1>1. pickle \in OlmAccount
  BY DEF Fits
<1>2. \A k \in OlmOneTimeKey : RestoredKey(version, k).key = k.key
  BY DEF RestoredKey, OlmOneTimeKey
<1>3. /\ b.one_time_keys = pickle.one_time_keys
      /\ b.num_fallback_keys = pickle.num_fallback_keys
      /\ pickle.num_fallback_keys >= 1 =>
            b.current_fallback_key = RestoredKey(version, pickle.current_fallback_key)
      /\ pickle.num_fallback_keys >= 2 =>
            b.prev_fallback_key = RestoredKey(version, pickle.prev_fallback_key)
  BY <1>1 DEF Unpickled, OlmAccount
<1> HIDE DEF b
<1>4. SameKeys(pickle, b)
  BY <1>1, <1>2, <1>3, AccountFields DEF SameKeys
<1> QED BY <1>4 DEF b

-----------------------------------------------------------------------------
(* An account stays good, or goes over into another one, when every key    *)
(* that is lost on the way is excused afterwards.                          *)
LEMMA AnswersStep ==
    ASSUME NEW a, NEW b, NEW names \in SUBSET UploadedKey, NEW fewer \in SUBSET names,
           NEW acc, NEW acc2, acc \subseteq acc2, NEW forg, NEW forg2, forg \subseteq forg2,
           NEW gen \in Counts, NEW gen2 \in Counts,
           gen.one_time <= gen2.one_time, gen.fallback <= gen2.fallback,
           Answers(a, names, acc, forg, gen), Aged(b, gen2),
           \A key : LooksUp(a, key) =>
                       LooksUp(b, key) \/ ExcusedBy(key, acc2, forg2, gen2)
    PROVE  Answers(b, fewer, acc2, forg2, gen2)
<1>1. ASSUME NEW key \in Key, ExcusedBy(key, acc, forg, gen)
      PROVE  ExcusedBy(key, acc2, forg2, gen2)
  <2>1. /\ key[2] \in Nat
        /\ gen.one_time \in Nat /\ gen2.one_time \in Nat
        /\ gen.fallback \in Nat /\ gen2.fallback \in Nat
    BY DEF Key, Counts
  <2>2. /\ gen.one_time - key[2] >= MAX_ONE_TIME_KEYS
             => gen2.one_time - key[2] >= MAX_ONE_TIME_KEYS
        /\ gen.fallback - key[2] >= 2 => gen2.fallback - key[2] >= 2
    BY <2>1, OneTimeKeysAssumption
  <2> QED BY <1>1, <2>2 DEF ExcusedBy
<1>2. \A x \in fewer : x \in names /\ x.key \in Key
  BY DEF UploadedKey
<1> QED BY <1>1, <1>2 DEF Answers

LEMMA AgedLater ==
    ASSUME NEW a, NEW gen \in Counts, NEW gen2 \in Counts,
           gen.one_time <= gen2.one_time, gen.fallback <= gen2.fallback,
           a \in OlmAccount, Aged(a, gen)
    PROVE  Aged(a, gen2)
<1>1. /\ gen.one_time \in Nat /\ gen2.one_time \in Nat
      /\ gen.fallback \in Nat /\ gen2.fallback \in Nat
      /\ Len(a.one_time_keys) \in Nat
  BY AccountFields DEF Counts
<1>2. ASSUME NEW i \in 1 .. Len(a.one_time_keys)
      PROVE  \E n \in Nat : /\ a.one_time_keys[i].key = OneTime(n)
                             /\ n + i <= gen2.one_time + 1
  <2>1. PICK n \in Nat : /\ a.one_time_keys[i].key = OneTime(n)
                         /\ n + i <= gen.one_time + 1
    BY Zenon DEF Aged
  <2>2. i \in Nat
    BY <1>1
  <2>3. n + i <= gen2.one_time + 1
    BY ONLY <1>1, <2>1, <2>2, gen.one_time <= gen2.one_time
  <2> QED BY ONLY <2>1, <2>3, Zenon
<1>3. ASSUME a.num_fallback_keys >= 1
      PROVE  \E n \in Nat : /\ a.current_fallback_key.key = Fallback(n)
                             /\ n <= gen2.fallback
  <2>1. PICK n \in Nat : /\ a.current_fallback_key.key = Fallback(n)
                         /\ n <= gen.fallback
    BY <1>3, Zenon DEF Aged
  <2>2. n <= gen2.fallback
    BY ONLY <1>1, <2>1, gen.fallback <= gen2.fallback
  <2> QED BY ONLY <2>1, <2>2, Zenon
<1>4. ASSUME a.num_fallback_keys >= 2
      PROVE  \E n \in Nat : /\ a.prev_fallback_key.key = Fallback(n)
                             /\ n + 1 <= gen2.fallback
  <2>1. PICK n \in Nat : /\ a.prev_fallback_key.key = Fallback(n)
                         /\ n + 1 <= gen.fallback
    BY <1>4, Zenon DEF Aged
  <2>2. n + 1 <= gen2.fallback
    BY ONLY <1>1, <2>1, gen.fallback <= gen2.fallback
  <2> QED BY ONLY <2>1, <2>2, Zenon
<1> QED BY <1>2, <1>3, <1>4, Zenon DEF Aged

(* One-time keys are generated: the ones that fall off have as many newer  *)
(* ones as the list holds.                                                 *)
LEMMA GenerateOneTimeKeysAnswers ==
    ASSUME NEW a, Fits(a), NEW number \in Nat, NEW gen \in Counts, NEW gen2 \in Counts,
           gen2.one_time = gen.one_time + number, gen2.fallback = gen.fallback,
           Aged(a, gen)
    PROVE  LET b == WithOneTimeKeys(a, number, gen.one_time + 1)
           IN  /\ Aged(b, gen2)
               /\ \A key : LooksUp(a, key) =>
                     \/ LooksUp(b, key)
                     \/ key[1] = "one-time" /\ gen2.one_time - key[2] >= MAX_ONE_TIME_KEYS
<1> DEFINE length == IF number + Len(a.one_time_keys) < MAX_ONE_TIME_KEYS
                       THEN number + Len(a.one_time_keys) ELSE MAX_ONE_TIME_KEYS
           new(i) == [id        |-> a.next_one_time_key_id + number - i + 1,
                      published |-> FALSE,
                      key       |-> OneTime(gen.one_time + 1 + number - i)]
           list == [i \in 1 .. length |->
                      IF i <= number THEN new(i) ELSE a.one_time_keys[i - number]]
           b == WithOneTimeKeys(a, number, gen.one_time + 1)
<1>1. /\ a \in OlmAccount /\ Len(a.one_time_keys) <= MAX_ONE_TIME_KEYS
      /\ gen.one_time \in Nat /\ gen.fallback \in Nat
      /\ Len(a.one_time_keys) \in Nat /\ length \in Nat
      /\ MAX_ONE_TIME_KEYS \in Nat \ {0}
  BY OneTimeKeysAssumption, AccountFields DEF Fits, Counts
<1>2. b \in OlmAccount
  <2>1. gen.one_time + 1 \in Nat
    BY <1>1
  <2> QED BY <2>1, GenerateOneTimeKeysHolds DEF Fits
<1>3. b = [a EXCEPT !.one_time_keys = list, !.next_one_time_key_id = @ + number]
  BY DEF WithOneTimeKeys
<1>4. Len(list) = length /\ DOMAIN list = 1 .. length
  BY <1>1
<1>5. /\ \A i \in 1 .. length : i <= number =>
            list[i].key = OneTime(gen.one_time + 1 + number - i)
      /\ \A i \in 1 .. length : ~(i <= number) => list[i] = a.one_time_keys[i - number]
  OBVIOUS
<1> HIDE DEF list, b
<1>6. /\ b.one_time_keys = list
      /\ b.num_fallback_keys = a.num_fallback_keys
      /\ b.current_fallback_key = a.current_fallback_key
      /\ b.prev_fallback_key = a.prev_fallback_key
  BY <1>1, <1>3 DEF OlmAccount
<1>7. Aged(b, gen2)
  <2>1. ASSUME NEW i \in 1 .. length
        PROVE  \E n \in Nat : list[i].key = OneTime(n) /\ n + i <= gen2.one_time + 1
    <3>1. CASE i <= number
      <4>1. /\ gen.one_time + 1 + number - i \in Nat
            /\ (gen.one_time + 1 + number - i) + i <= gen2.one_time + 1
        BY <1>1, <3>1
      <4> QED BY <1>5, <3>1, <4>1
    <3>2. CASE ~(i <= number)
      <4>1. i - number \in 1 .. Len(a.one_time_keys)
        BY <1>1, <3>2
      <4>2. PICK n \in Nat : /\ a.one_time_keys[i - number].key = OneTime(n)
                             /\ n + (i - number) <= gen.one_time + 1
        BY <4>1 DEF Aged
      <4>3. n + i <= gen2.one_time + 1
        BY <1>1, <4>2
      <4> QED BY <1>5, <3>2, <4>2, <4>3
    <3> QED BY <3>1, <3>2
  <2> HIDE DEF length
  <2> QED BY <1>4, <1>6, <2>1 DEF Aged
<1>8. ASSUME NEW key, LooksUp(a, key)
      PROVE  \/ LooksUp(b, key)
             \/ key[1] = "one-time" /\ gen2.one_time - key[2] >= MAX_ONE_TIME_KEYS
  <2>1. CASE \E i \in 1 .. Len(a.one_time_keys) : a.one_time_keys[i].key = key
    <3>1. PICK i \in 1 .. Len(a.one_time_keys) : a.one_time_keys[i].key = key
      BY <2>1
    <3>2. CASE i + number <= length
      <4>1. i + number \in 1 .. length /\ (i + number) - number = i
        BY <1>1, <3>2
      <4>2. list[i + number].key = key
        <5>1. i + number <= number => FALSE
          BY <1>1
        <5>2. list[i + number] = a.one_time_keys[(i + number) - number]
          BY <1>5, <4>1, <5>1
        <5> QED BY <3>1, <4>1, <5>2
      <4> HIDE DEF length
      <4> QED BY <1>2, <1>4, <1>6, <4>1, <4>2, LooksUpIn
    <3>3. CASE ~(i + number <= length)
      <4>1. i + number > MAX_ONE_TIME_KEYS
        BY <1>1, <3>3
      <4>2. PICK n \in Nat : key = OneTime(n) /\ n + i <= gen.one_time + 1
        BY <3>1 DEF Aged
      <4>3. key[1] = "one-time" /\ key[2] = n
        BY <4>2 DEF OneTime
      <4>4. gen2.one_time - n >= MAX_ONE_TIME_KEYS
        BY <1>1, <4>1, <4>2
      <4> QED BY <4>3, <4>4
    <3> QED BY <3>2, <3>3
  <2>2. CASE ~\E i \in 1 .. Len(a.one_time_keys) : a.one_time_keys[i].key = key
    BY <1>1, <1>2, <1>6, <1>8, <2>2, LooksUpIn
  <2> QED BY <2>1, <2>2
<1> QED BY <1>7, <1>8 DEF b

(* A fallback key is generated: the previous one, which is lost, has two   *)
(* newer ones.                                                             *)
LEMMA GenerateFallbackKeyAnswers ==
    ASSUME NEW a, Fits(a), NEW gen \in Counts, NEW gen2 \in Counts,
           gen2.one_time = gen.one_time, gen2.fallback = gen.fallback + 1,
           Aged(a, gen)
    PROVE  LET b == WithFallbackKey(a, Fallback(gen.fallback + 1))
           IN  /\ Aged(b, gen2)
               /\ \A key : LooksUp(a, key) =>
                     \/ LooksUp(b, key)
                     \/ key[1] = "fallback" /\ gen2.fallback - key[2] >= 2
<1> DEFINE fresh == Fallback(gen.fallback + 1)
           b == WithFallbackKey(a, fresh)
<1>1. /\ a \in OlmAccount
      /\ gen.one_time \in Nat /\ gen.fallback \in Nat
      /\ a.num_fallback_keys \in 0 .. 2
  BY AccountFields DEF Fits, Counts
<1>2. fresh \in Key
  BY <1>1 DEF Fallback, Key
<1>3. b \in OlmAccount
  BY <1>2, GenerateFallbackKeyHolds DEF Fits
<1> HIDE DEF fresh
<1>4. /\ b.one_time_keys = a.one_time_keys
      /\ b.num_fallback_keys = IF a.num_fallback_keys < 2 THEN a.num_fallback_keys + 1
                                                          ELSE a.num_fallback_keys
      /\ b.prev_fallback_key = a.current_fallback_key
      /\ b.current_fallback_key.key = fresh
  BY <1>1 DEF WithFallbackKey, OlmAccount
<1> HIDE DEF b
<1>5. /\ b.num_fallback_keys >= 1
      /\ b.num_fallback_keys >= 2 <=> a.num_fallback_keys >= 1
  BY <1>1, <1>4
<1>6. Aged(b, gen2)
  <2>1. \A i \in 1 .. Len(b.one_time_keys) :
           \E n \in Nat : b.one_time_keys[i].key = OneTime(n) /\ n + i <= gen2.one_time + 1
    BY <1>4 DEF Aged
  <2>2. \E n \in Nat : b.current_fallback_key.key = Fallback(n) /\ n <= gen2.fallback
    BY <1>1, <1>4 DEF fresh
  <2>3. ASSUME a.num_fallback_keys >= 1
        PROVE  \E n \in Nat : b.prev_fallback_key.key = Fallback(n) /\ n + 1 <= gen2.fallback
    <3>1. PICK n \in Nat : a.current_fallback_key.key = Fallback(n) /\ n <= gen.fallback
      BY <2>3 DEF Aged
    <3>2. n + 1 <= gen2.fallback
      BY <1>1, <3>1
    <3> QED BY <1>4, <3>1, <3>2
  <2> QED BY <1>5, <2>1, <2>2, <2>3 DEF Aged
<1>7. ASSUME NEW key, LooksUp(a, key)
      PROVE  LooksUp(b, key) \/ (key[1] = "fallback" /\ gen2.fallback - key[2] >= 2)
  <2>1. CASE a.num_fallback_keys >= 2 /\ a.prev_fallback_key.key = key
    <3>1. PICK n \in Nat : a.prev_fallback_key.key = Fallback(n) /\ n + 1 <= gen.fallback
      BY <2>1 DEF Aged
    <3>2. key[1] = "fallback" /\ key[2] = n
      BY <2>1, <3>1 DEF Fallback
    <3> QED BY <1>1, <3>1, <3>2
  <2>2. CASE ~(a.num_fallback_keys >= 2 /\ a.prev_fallback_key.key = key)
    BY <1>1, <1>3, <1>4, <1>5, <1>7, <2>2, LooksUpIn
  <2> QED BY <2>1, <2>2
<1> QED BY <1>6, <1>7 DEF b, fresh

(* The previous fallback key is forgotten, and is known to be.             *)
LEMMA ForgetAnswers ==
    ASSUME NEW a, Fits(a), NEW gen \in Counts, Aged(a, gen)
    PROVE  LET b == WithoutOldFallbackKey(a)
           IN  /\ Aged(b, gen)
               /\ \A key : LooksUp(a, key) =>
                     \/ LooksUp(b, key)
                     \/ /\ key[1] = "fallback"
                        /\ key \in {k.key : k \in FallbackKeys(a) \ FallbackKeys(b)}
<1> DEFINE b == WithoutOldFallbackKey(a)
<1>1. a \in OlmAccount /\ b \in OlmAccount /\ a.num_fallback_keys \in 0 .. 2
  BY ForgetHolds, AccountFields DEF Fits
<1>2. CASE ~(a.num_fallback_keys >= 2)
  BY <1>2 DEF WithoutOldFallbackKey
<1>3. CASE a.num_fallback_keys >= 2
  <2>1. /\ b.one_time_keys = a.one_time_keys
        /\ b.num_fallback_keys = 1
        /\ b.current_fallback_key = a.current_fallback_key
    BY <1>1, <1>3 DEF WithoutOldFallbackKey, OlmAccount
  <2> HIDE DEF b
  <2>2. Aged(b, gen)
    <3>1. \E n \in Nat : a.current_fallback_key.key = Fallback(n) /\ n <= gen.fallback
      <4>1. a.num_fallback_keys >= 1
        BY <1>1, <1>3
      <4> QED BY <4>1 DEF Aged
    <3>2. \A i \in 1 .. Len(a.one_time_keys) :
             \E n \in Nat : a.one_time_keys[i].key = OneTime(n) /\ n + i <= gen.one_time + 1
      BY DEF Aged
    <3>3. ~(b.num_fallback_keys >= 2)
      BY <2>1
    <3> QED BY <2>1, <3>1, <3>2, <3>3, Zenon DEF Aged
  <2>3. ASSUME NEW key, LooksUp(a, key), ~LooksUp(b, key)
        PROVE  /\ key[1] = "fallback"
               /\ key \in {k.key : k \in FallbackKeys(a) \ FallbackKeys(b)}
    <3>1. a.prev_fallback_key.key = key
      BY <1>1, <1>3, <2>1, <2>3, LooksUpIn
    <3>2. \E n \in Nat : a.prev_fallback_key.key = Fallback(n)
      BY <1>3 DEF Aged
    <3>3. key[1] = "fallback"
      BY <3>1, <3>2 DEF Fallback
    <3>4. a.prev_fallback_key \in FallbackKeys(a)
      BY <1>3 DEF FallbackKeys
    <3>5. FallbackKeys(b) = {a.current_fallback_key}
      BY <2>1 DEF FallbackKeys
    <3>6. a.current_fallback_key.key # key
      BY <1>1, <2>1, <2>3, LooksUpIn
    <3>7. a.prev_fallback_key \in FallbackKeys(a) \ FallbackKeys(b)
      BY <3>1, <3>4, <3>5, <3>6
    <3> QED BY <3>1, <3>3, <3>7
  <2> QED BY <2>2, <2>3 DEF b
<1> QED BY <1>2, <1>3

(* A key that was used is removed: only that one is lost, and not if it is *)
(* a fallback key.                                                         *)
LEMMA RemoveAnswers ==
    ASSUME NEW a, Fits(a), NEW used, NEW gen \in Counts, Aged(a, gen)
    PROVE  LET b == WithoutKey(a, used)
           IN  /\ Aged(b, gen)
               /\ \A key : LooksUp(a, key) =>
                     \/ LooksUp(b, key)
                     \/ key = used /\ key \notin {k.key : k \in FallbackKeys(a)}
<1> DEFINE positions == {i \in DOMAIN a.one_time_keys : a.one_time_keys[i].key = used}
           first == CHOOSE i \in positions : \A j \in positions : i <= j
           list == ListErase(a.one_time_keys, first)
           b == [a EXCEPT !.one_time_keys = list]
<1>1. /\ a \in OlmAccount
      /\ a.one_time_keys \in Seq(OlmOneTimeKey)
      /\ DOMAIN a.one_time_keys = 1 .. Len(a.one_time_keys)
      /\ Len(a.one_time_keys) \in Nat
      /\ gen.one_time \in Nat
  BY AccountFields DEF Fits, Counts
<1>2. CASE positions = {}
  BY <1>2 DEF WithoutKey
<1>3. CASE positions # {}
  <2>1. WithoutKey(a, used) = b
    BY <1>3 DEF WithoutKey
  <2>2. first \in 1 .. Len(a.one_time_keys) /\ a.one_time_keys[first].key = used
    <3>1. positions \subseteq Nat
      BY <1>1
    <3>2. \E i \in positions : \A j \in positions : i <= j
      <4> HIDE DEF positions
      <4> QED BY <1>3, <3>1, LeastElement
    <3>3. first \in positions
      BY <3>2
    <3> HIDE DEF first
    <3> QED BY <1>1, <3>3
  <2>3. b \in OlmAccount
    BY <2>1, RemoveHolds DEF Fits
  <2> HIDE DEF first, positions
  <2>4. /\ Len(list) = Len(a.one_time_keys) - 1
        /\ \A i \in 1 .. Len(a.one_time_keys) - 1 :
              list[i] = IF i < first THEN a.one_time_keys[i] ELSE a.one_time_keys[i + 1]
    BY <1>1, <2>2, ListEraseProperties
  <2> HIDE DEF list
  <2>5. /\ b.one_time_keys = list
        /\ b.num_fallback_keys = a.num_fallback_keys
        /\ b.current_fallback_key = a.current_fallback_key
        /\ b.prev_fallback_key = a.prev_fallback_key
    BY <1>1 DEF OlmAccount
  <2> HIDE DEF b
  <2>6. Aged(b, gen)
    <3>1. ASSUME NEW i \in 1 .. Len(list)
          PROVE  \E n \in Nat : list[i].key = OneTime(n) /\ n + i <= gen.one_time + 1
      <4>1. i \in 1 .. Len(a.one_time_keys) /\ i + 1 \in 1 .. Len(a.one_time_keys)
        BY <1>1, <2>4
      <4>2. PICK n \in Nat : /\ a.one_time_keys[i].key = OneTime(n)
                             /\ n + i <= gen.one_time + 1
        BY <4>1 DEF Aged
      <4>3. PICK l \in Nat : /\ a.one_time_keys[i + 1].key = OneTime(l)
                             /\ l + (i + 1) <= gen.one_time + 1
        BY <4>1 DEF Aged
      <4>4. l + i <= gen.one_time + 1
        BY <1>1, <4>3
      <4>5. list[i] = a.one_time_keys[i] \/ list[i] = a.one_time_keys[i + 1]
        BY <2>4
      <4> QED BY <4>2, <4>3, <4>4, <4>5
    <3> QED BY <2>5, <3>1 DEF Aged
  <2>7. ASSUME NEW key, LooksUp(a, key)
        PROVE  LooksUp(b, key) \/ (key = used /\ key \notin {k.key : k \in FallbackKeys(a)})
    <3>1. CASE key \in {k.key : k \in FallbackKeys(a)}
      BY <1>1, <2>3, <2>5, <3>1, LooksUpIn DEF FallbackKeys
    <3>2. CASE key # used
      <4>1. CASE \E i \in 1 .. Len(a.one_time_keys) : a.one_time_keys[i].key = key
        <5>1. PICK i \in 1 .. Len(a.one_time_keys) : a.one_time_keys[i].key = key
          BY <4>1
        <5>2. i # first
          BY <2>2, <3>2, <5>1
        <5>3. CASE i < first
          <6>1. i \in 1 .. Len(list) /\ list[i] = a.one_time_keys[i]
            BY <1>1, <2>2, <2>4, <5>3
          <6> QED BY <2>3, <2>5, <5>1, <6>1, LooksUpIn
        <5>4. CASE i > first
          <6>1. i - 1 \in 1 .. Len(list) /\ list[i - 1] = a.one_time_keys[i]
            BY <1>1, <2>2, <2>4, <5>4
          <6> QED BY <2>3, <2>5, <5>1, <6>1, LooksUpIn
        <5> QED BY <2>2, <5>2, <5>3, <5>4
      <4>2. CASE ~\E i \in 1 .. Len(a.one_time_keys) : a.one_time_keys[i].key = key
        BY <1>1, <2>3, <2>5, <2>7, <4>2, LooksUpIn
      <4> QED BY <4>1, <4>2
    <3> QED BY <3>1, <3>2
  <2> QED BY <2>1, <2>6, <2>7
<1> QED BY <1>2, <1>3

-----------------------------------------------------------------------------
LEMMA InitAnswers == Init => AnswersInv
<1> SUFFICES ASSUME Init PROVE AnswersInv
  OBVIOUS
<1>1. /\ account.one_time_keys = <<>> /\ account.num_fallback_keys = 0
      /\ pickled.one_time_keys = <<>> /\ pickled.num_fallback_keys = 0
      /\ uploaded \cup request = {}
  BY DEF Init, NewAccount, Cleared, Pickled
<1> QED BY <1>1 DEF AnswersInv, Answers, Aged

LEMMA NextAnswers == IInv /\ AnswersInv /\ [Next]_vars => AnswersInv'
<1> SUFFICES ASSUME IInv, AnswersInv, [Next]_vars
             PROVE  AnswersInv'
  OBVIOUS
<1> DEFINE names == uploaded \cup request
<1>1. /\ Fits(account) /\ Fits(pickled)
      /\ account \in OlmAccount /\ pickled \in OlmAccount
      /\ names \in SUBSET UploadedKey
      /\ generated \in Counts
      /\ generated.one_time \in Nat /\ generated.fallback \in Nat
  BY DEF IInv, TypeOK, Fits, Counts
<1>2. /\ Answers(account, names, accepted, forgotten, generated)
      /\ Answers(pickled, names, accepted, forgotten, generated)
      /\ Aged(account, generated) /\ Aged(pickled, generated)
  BY DEF AnswersInv, Answers
<1>3. ASSUME Answers(account', names', accepted', forgotten', generated'),
             Answers(pickled', names', accepted', forgotten', generated')
      PROVE  AnswersInv'
  BY <1>3 DEF AnswersInv
<1>4. ASSUME NEW number \in 1 .. MaxKeys, GenerateOneTimeKeys(number)
      PROVE  AnswersInv'
  <2> DEFINE b == WithOneTimeKeys(account, number, generated.one_time + 1)
  <2>1. /\ account' = b /\ names' = names
        /\ generated' = [generated EXCEPT !.one_time = @ + number]
        /\ UNCHANGED <<pickled, accepted, forgotten>>
    BY <1>4 DEF GenerateOneTimeKeys
  <2>2. /\ number \in Nat /\ generated' \in Counts
        /\ generated'.one_time = generated.one_time + number
        /\ generated'.fallback = generated.fallback
        /\ generated.one_time <= generated'.one_time
        /\ generated.fallback <= generated'.fallback
    BY <1>1, <2>1 DEF Counts
  <2>3. /\ Aged(b, generated')
        /\ \A key : LooksUp(account, key) =>
              \/ LooksUp(b, key)
              \/ key[1] = "one-time" /\ generated'.one_time - key[2] >= MAX_ONE_TIME_KEYS
    BY <1>1, <1>2, <2>2, GenerateOneTimeKeysAnswers
  <2> HIDE DEF b, names
  <2>4. Answers(b, names, accepted, forgotten, generated')
    BY <1>1, <1>2, <2>2, <2>3, AnswersStep DEF ExcusedBy
  <2>5. Answers(pickled, names, accepted, forgotten, generated')
    BY <1>1, <1>2, <2>2, AgedLater, AnswersStep
  <2> QED BY <1>3, <2>1, <2>4, <2>5
<1>5. CASE GenerateFallbackKey
  <2> DEFINE b == WithFallbackKey(account, Fallback(generated.fallback + 1))
  <2>1. /\ account' = b /\ names' = names
        /\ generated' = [generated EXCEPT !.fallback = @ + 1]
        /\ UNCHANGED <<pickled, accepted, forgotten>>
    BY <1>5 DEF GenerateFallbackKey
  <2>2. /\ generated' \in Counts
        /\ generated'.one_time = generated.one_time
        /\ generated'.fallback = generated.fallback + 1
        /\ generated.one_time <= generated'.one_time
        /\ generated.fallback <= generated'.fallback
    BY <1>1, <2>1 DEF Counts
  <2>3. /\ Aged(b, generated')
        /\ \A key : LooksUp(account, key) =>
              LooksUp(b, key) \/ (key[1] = "fallback" /\ generated'.fallback - key[2] >= 2)
    BY <1>1, <1>2, <2>2, GenerateFallbackKeyAnswers
  <2> HIDE DEF b, names
  <2>4. Answers(b, names, accepted, forgotten, generated')
    BY <1>1, <1>2, <2>2, <2>3, AnswersStep DEF ExcusedBy
  <2>5. Answers(pickled, names, accepted, forgotten, generated')
    BY <1>1, <1>2, <2>2, AgedLater, AnswersStep
  <2> QED BY <1>3, <2>1, <2>4, <2>5
<1>6. CASE ForgetOldFallbackKey
  <2> DEFINE b == WithoutOldFallbackKey(account)
             more == forgotten \cup {k.key : k \in FallbackKeys(account) \ FallbackKeys(b)}
  <2>1. /\ account' = b /\ names' = names
        /\ forgotten' = more
        /\ UNCHANGED <<pickled, accepted, generated>>
    <3>1. FallbackKeys(account)' = FallbackKeys(account')
      BY DEF FallbackKeys
    <3> QED BY <1>6, <3>1 DEF ForgetOldFallbackKey
  <2>2. /\ Aged(b, generated)
        /\ \A key : LooksUp(account, key) =>
              LooksUp(b, key) \/ (key[1] = "fallback" /\ key \in more)
    BY <1>1, <1>2, ForgetAnswers
  <2>3. forgotten \subseteq more
    OBVIOUS
  <2> HIDE DEF b, more, names
  <2>4. Answers(b, names, accepted, more, generated)
    BY <1>1, <1>2, <2>2, <2>3, AnswersStep DEF ExcusedBy
  <2>5. Answers(pickled, names, accepted, more, generated)
    BY <1>1, <1>2, <2>3, AnswersStep
  <2> QED BY <1>3, <2>1, <2>4, <2>5
<1>7. CASE Store
  <2>1. /\ pickled' = Pickled(account) /\ names' = names
        /\ UNCHANGED <<account, accepted, forgotten, generated>>
    BY <1>7 DEF Store
  <2>2. Answers(Pickled(account), names, accepted, forgotten, generated)
    <3>1. Pickled(account) \in OlmAccount /\ SameKeys(account, Pickled(account))
      BY <1>1, PickleHolds, PickleSameKeys DEF Fits
    <3> QED BY <1>1, <1>2, <3>1, SameKeysAnswer
  <2> QED BY <1>2, <1>3, <2>1, <2>2
<1>8. CASE ReadKeys
  <2>1. /\ pickled = Pickled(account)
        /\ names' = uploaded \cup Unpublished(account)
        /\ UNCHANGED <<account, pickled, accepted, forgotten, generated>>
    BY <1>8 DEF ReadKeys
  <2>2. \A x \in Unpublished(account) : LooksUp(account, x.key)
    BY DEF Unpublished, LooksUp, Held, FallbackKeys, Name
  <2>3. Answers(account, names', accepted, forgotten, generated)
    BY <1>2, <2>1, <2>2 DEF Answers
  <2>4. Answers(pickled, names', accepted, forgotten, generated)
    <3>1. SameKeys(account, pickled)
      BY <1>1, <2>1, PickleSameKeys
    <3> QED BY <1>1, <2>3, <3>1, SameKeysAnswer
  <2> QED BY <1>3, <2>1, <2>3, <2>4
<1>9. CASE Upload
  <2>1. /\ names' = names
        /\ UNCHANGED <<account, pickled, accepted, forgotten, generated>>
    BY <1>9 DEF Upload
  <2> QED BY <1>2, <1>3, <2>1
<1>10. CASE MarkKeysAsPublished
  <2>1. /\ account' = MarkedAsPublished(account)
        /\ names' \subseteq names
        /\ UNCHANGED <<pickled, accepted, forgotten, generated>>
    BY <1>10 DEF MarkKeysAsPublished
  <2>2. Answers(MarkedAsPublished(account), names, accepted, forgotten, generated)
    <3>1. /\ MarkedAsPublished(account) \in OlmAccount
          /\ SameKeys(account, MarkedAsPublished(account))
      BY <1>1, MarkHolds, MarkSameKeys DEF Fits
    <3> QED BY <1>1, <1>2, <3>1, SameKeysAnswer
  <2> QED BY <1>2, <1>3, <2>1, <2>2 DEF Answers
<1>11. ASSUME NEW k \in uploaded, Accept(k.key)
       PROVE  AnswersInv'
  <2> DEFINE b == WithoutKey(account, k.key)
             more == accepted \cup ({k.key} \ {f.key : f \in FallbackKeys(account)})
  <2>1. /\ account' = b /\ names' = names
        /\ accepted' = more
        /\ UNCHANGED <<pickled, forgotten, generated>>
    BY <1>11 DEF Accept
  <2>2. /\ Aged(b, generated)
        /\ \A key : LooksUp(account, key) =>
              \/ LooksUp(b, key)
              \/ key = k.key /\ key \notin {f.key : f \in FallbackKeys(account)}
    BY <1>1, <1>2, RemoveAnswers
  <2> HIDE DEF b
  <2>3. /\ accepted \subseteq more
        /\ \A key : LooksUp(account, key) => LooksUp(b, key) \/ key \in more
    BY <2>2
  <2> HIDE DEF more, names
  <2>4. Answers(b, names, more, forgotten, generated)
    BY <1>1, <1>2, <2>2, <2>3, AnswersStep DEF ExcusedBy
  <2>5. Answers(pickled, names, more, forgotten, generated)
    BY <1>1, <1>2, <2>3, AnswersStep
  <2> QED BY <1>3, <2>1, <2>4, <2>5
<1>12. ASSUME NEW version \in 2 .. 4, Restart(version)
       PROVE  AnswersInv'
  <2> DEFINE b == Unpickled(Cleared, version, pickled)
  <2>1. /\ account' = b
        /\ names' \subseteq names
        /\ UNCHANGED <<pickled, accepted, forgotten, generated>>
    BY <1>12 DEF Restart
  <2>2. Cleared \in OlmAccount
    <3>1. NoKey \in OlmOneTimeKey /\ Identity(0) \in IdentityKeys
      BY DEF NoKey, OlmOneTimeKey, Key, Identity, IdentityKeys
    <3> QED BY <3>1 DEF Cleared, OlmAccount
  <2>3. b \in OlmAccount /\ SameKeys(pickled, b)
    BY <1>1, <2>2, UnpickleHolds, UnpickleSameKeys DEF Fits
  <2> HIDE DEF b
  <2>4. Answers(b, names, accepted, forgotten, generated)
    BY <1>1, <1>2, <2>3, SameKeysAnswer
  <2> QED BY <1>2, <1>3, <2>1, <2>4 DEF Answers
<1>13. CASE UNCHANGED vars
  BY <1>2, <1>3, <1>13 DEF vars
<1> QED
  BY <1>4, <1>5, <1>6, <1>7, <1>8, <1>9, <1>10, <1>11, <1>12, <1>13 DEF Next

(* A key the server was given can be used until it was, through restarts   *)
(* and whatever is generated, unless a limit of the account took it or it  *)
(* was replaced and forgotten.                                             *)
THEOREM SpecUploadedKeysAnswer == Spec => []UploadedKeysAnswer
<1>1. AnswersInv => UploadedKeysAnswer
  BY DEF AnswersInv, Answers, ExcusedBy, UploadedKeysAnswer, Overflowed, Replaced
<1>2. Init => AnswersInv
  BY InitAnswers
<1> QED
  BY <1>1, <1>2, NextAnswers, Invariance, PTL DEF Spec

-----------------------------------------------------------------------------
(* A dehydrated account comes back the same: as long as the seed is known  *)
(* it is the one the identity was made from.                               *)
SeedInv == account.ed25519_seed_known
             => account.ed25519_seed = account.identity_keys.ed25519

SameSeed(a, b) ==
    /\ b.identity_keys = a.identity_keys
    /\ b.ed25519_seed = a.ed25519_seed
    /\ b.ed25519_seed_known = a.ed25519_seed_known

(* No operation on the keys touches identity or seed.                      *)
LEMMA OperationsKeepSeed ==
    ASSUME NEW a \in OlmAccount
    PROVE  /\ \A number, next_key : SameSeed(a, WithOneTimeKeys(a, number, next_key))
           /\ \A key : SameSeed(a, WithFallbackKey(a, key))
           /\ SameSeed(a, WithoutOldFallbackKey(a))
           /\ SameSeed(a, MarkedAsPublished(a))
           /\ \A key : SameSeed(a, WithoutKey(a, key))
<1>1. \A number, next_key : SameSeed(a, WithOneTimeKeys(a, number, next_key))
  BY DEF SameSeed, WithOneTimeKeys, OlmAccount
<1>2. \A key : SameSeed(a, WithFallbackKey(a, key))
  BY DEF SameSeed, WithFallbackKey, OlmAccount
<1>3. SameSeed(a, WithoutOldFallbackKey(a))
  BY DEF SameSeed, WithoutOldFallbackKey, OlmAccount
<1>4. SameSeed(a, MarkedAsPublished(a))
  BY DEF SameSeed, MarkedAsPublished, OlmAccount
<1>5. \A key : SameSeed(a, WithoutKey(a, key))
  BY DEF SameSeed, WithoutKey, OlmAccount
<1> QED BY <1>1, <1>2, <1>3, <1>4, <1>5

LEMMA NextSeed == IInv /\ SeedInv /\ [Next]_vars => SeedInv'
<1> SUFFICES ASSUME IInv, SeedInv, [Next]_vars
             PROVE  SeedInv'
  OBVIOUS
<1>1. account \in OlmAccount
  BY DEF IInv, TypeOK
<1>2. CASE SameSeed(account, account')
  BY <1>2 DEF SeedInv, SameSeed
<1>3. CASE \E version \in 2 .. 4 : Restart(version)
  <2>1. PICK version \in 2 .. 4 : account' = Unpickled(Cleared, version, pickled)
    BY <1>3 DEF Restart
  <2>2. pickled \in OlmAccount
    BY DEF IInv, TypeOK
  <2>3. ~account'.ed25519_seed_known
    BY <2>1, <2>2 DEF Unpickled, Cleared, OlmAccount
  <2> QED BY <2>3 DEF SeedInv
<1>4. CASE \E number \in 1 .. MaxKeys : GenerateOneTimeKeys(number)
  BY <1>1, <1>2, <1>4, OperationsKeepSeed DEF GenerateOneTimeKeys
<1>5. CASE GenerateFallbackKey
  BY <1>1, <1>2, <1>5, OperationsKeepSeed DEF GenerateFallbackKey
<1>6. CASE ForgetOldFallbackKey
  BY <1>1, <1>2, <1>6, OperationsKeepSeed DEF ForgetOldFallbackKey
<1>7. CASE MarkKeysAsPublished
  BY <1>1, <1>2, <1>7, OperationsKeepSeed DEF MarkKeysAsPublished
<1>8. CASE \E k \in uploaded : Accept(k.key)
  BY <1>1, <1>2, <1>8, OperationsKeepSeed DEF Accept
<1>9. CASE Store \/ ReadKeys \/ Upload \/ UNCHANGED vars
  BY <1>9 DEF Store, ReadKeys, Upload, vars, SeedInv
<1> QED BY <1>3, <1>4, <1>5, <1>6, <1>7, <1>8, <1>9 DEF Next

(* The keys are written backwards and read backwards.                      *)
LEMMA RehydratedKeys ==
    ASSUME NEW a \in OlmAccount, a.ed25519_seed = a.identity_keys.ed25519
    PROVE  SameDevice(a, Rehydrated(Dehydrated(a)))
<1> DEFINE d == Dehydrated(a)
           b == Rehydrated(d)
           count == Len(a.one_time_keys)
<1>1. /\ a.identity_keys = [curve25519 |-> a.identity_keys.curve25519,
                            ed25519    |-> a.identity_keys.ed25519]
      /\ count \in Nat /\ DOMAIN a.one_time_keys = 1 .. count
      /\ a.num_fallback_keys \in 0 .. 2
  BY AccountFields DEF IdentityKeys
<1>2. /\ d.curve25519 = a.identity_keys.curve25519
      /\ d.ed25519_seed = a.identity_keys.ed25519
      /\ d.one_time_keys = [i \in 1 .. count |-> a.one_time_keys[count + 1 - i].key]
      /\ d.fallback_keys = IF a.num_fallback_keys >= 1
                             THEN <<a.current_fallback_key.key>> ELSE <<>>
  BY <1>1 DEF Dehydrated
<1>3. Len(d.one_time_keys) = count
  BY <1>1, <1>2
<1>4. \A i \in 1 .. count : d.one_time_keys[count + 1 - i] = a.one_time_keys[i].key
  BY <1>1, <1>2
<1> HIDE DEF d
<1>5. /\ b.identity_keys = a.identity_keys
      /\ b.one_time_keys =
            [i \in 1 .. count |-> [id        |-> count + 1 - i,
                                   published |-> TRUE,
                                   key       |-> d.one_time_keys[count + 1 - i]]]
      /\ b.num_fallback_keys = Len(d.fallback_keys)
      /\ d.fallback_keys # <<>> => b.current_fallback_key.key = d.fallback_keys[1]
  BY <1>1, <1>2, <1>3 DEF Rehydrated
<1> HIDE DEF b
<1>6. /\ Len(b.one_time_keys) = count
      /\ \A i \in 1 .. count : b.one_time_keys[i].key = a.one_time_keys[i].key
  BY <1>1, <1>4, <1>5
<1>7. /\ a.num_fallback_keys = 0 <=> b.num_fallback_keys = 0
      /\ a.num_fallback_keys > 0 =>
            a.current_fallback_key.key = b.current_fallback_key.key
  BY <1>1, <1>2, <1>5
<1>8. SameDevice(a, b)
  BY <1>1, <1>5, <1>6, <1>7 DEF SameDevice
<1> QED BY <1>8 DEF b, d

(* An account that may be dehydrated comes back as the same device, with   *)
(* the same keys in the same order.                                        *)
THEOREM SpecRehydratedIsSame == Spec => []RehydratedIsSame
<1>1. IInv /\ SeedInv => RehydratedIsSame
  BY RehydratedKeys DEF IInv, TypeOK, SeedInv, RehydratedIsSame
<1>2. Init => SeedInv
  BY DEF Init, NewAccount, Cleared, Identity, SeedInv
<1> QED
  BY <1>1, <1>2, NextSeed, Invariance, PTL DEF Spec
=============================================================================

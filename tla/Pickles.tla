------------------------------ MODULE Pickles ------------------------------
(***************************************************************************)
(* What the pickle functions write and how the unpickle functions read it  *)
(* back.  A value of fixed size is written as that many bytes, and byte i  *)
(* of value v is the pair <<v, i>>: reading them back in place gives v,    *)
(* and what is cut in the middle is not readable.  Sizes are smaller than  *)
(* those of the code, but different from each other.                       *)
(***************************************************************************)
EXTENDS OlmList, SequencesExt

CONSTANTS MaxReceiverChains, MaxSkippedMessageKeys, MaxOneTimeKeys

ASSUME PicklesAssumption ==
  /\ MaxReceiverChains \in Nat \ {0}
  /\ MaxSkippedMessageKeys \in Nat \ {0}
  /\ MaxOneTimeKeys \in Nat \ {0}

Uint32 == 3
Bool == 1
PublicKey == 2
SharedKey == 2
KeyPair == 4
MegolmSize == 5

Part(name, size) == [name |-> name, size |-> size, of |-> <<>>, capacity |-> 0]
PartList(name, format, capacity) == [name |-> name, size |-> 0, of |-> format, capacity |-> capacity]

(***************************************************************************)
(* The formats: the order in which the parts are written and read.         *)
(***************************************************************************)
SenderChain == <<Part("ratchet_key", KeyPair), Part("chain_key", SharedKey), Part("index", Uint32)>>
ReceiverChain ==
  <<Part("ratchet_key", PublicKey), Part("chain_key", SharedKey), Part("index", Uint32)>>
SkippedMessageKey ==
  <<Part("ratchet_key", PublicKey), Part("message_key", SharedKey), Part("index", Uint32)>>
RatchetFormat ==
  <<Part("root_key", SharedKey), PartList("sender_chain", SenderChain, 1),
    PartList("receiver_chains", ReceiverChain, MaxReceiverChains),
    PartList("skipped_message_keys", SkippedMessageKey, MaxSkippedMessageKeys)>>
SessionFormat ==
  <<Part("version", Uint32), Part("received_message", Bool), Part("alice_identity_key", PublicKey),
    Part("alice_base_key", PublicKey), Part("bob_one_time_key", PublicKey)>> \o RatchetFormat
OneTimeKey == <<Part("id", Uint32), Part("published", Bool), Part("key", KeyPair)>>
AccountFormat ==
  <<Part("version", Uint32), Part("ed25519_key", KeyPair), Part("curve25519_key", KeyPair),
    PartList("one_time_keys", OneTimeKey, MaxOneTimeKeys)>>
InboundFormat ==
  <<Part("version", Uint32), Part("initial_ratchet", MegolmSize), Part("latest_ratchet", MegolmSize),
    Part("signing_key", PublicKey)>>
OutboundFormat ==
  <<Part("version", Uint32), Part("ratchet", MegolmSize), Part("signing_key", KeyPair)>>
PkDecryptionFormat == <<Part("version", Uint32), Part("key_pair", KeyPair)>>
PrivateKey == 2
DehydratedFormat ==
  <<Part("version", Uint32), Part("curve25519_key", PrivateKey), Part("ed25519_seed", PrivateKey)>>

(***************************************************************************)
(* Writing.                                                                *)
(***************************************************************************)
Pickled(value, size) == [i \in 1 .. size |-> <<value, i>>]
PickledRecord(format, object) ==
  FlattenSeq([p \in DOMAIN format |-> Pickled(object[format[p].name], format[p].size)])
PickledList(format, list) ==
  Pickled(Len(list), Uint32) \o FlattenSeq([i \in DOMAIN list |-> PickledRecord(format, list[i])])
PickledParts(format, object) ==
  FlattenSeq([p \in DOMAIN format |->
    LET part == format[p] IN
    IF part.capacity = 0 THEN Pickled(object[part.name], part.size)
    ELSE PickledList(part.of, object[part.name])])

PickledFallback(a) ==
  Pickled(a.num_fallback_keys, Bool)
    \o (IF a.num_fallback_keys >= 1 THEN PickledRecord(OneTimeKey, a.current_fallback_key) ELSE <<>>)
    \o (IF a.num_fallback_keys >= 2 THEN PickledRecord(OneTimeKey, a.prev_fallback_key) ELSE <<>>)

(* A dehydrated device: private keys only, the oldest one-time key first.  *)
PickledDevice(a) ==
  PickledRecord(DehydratedFormat, a)
    \o Pickled(Len(a.one_time_keys), Uint32)
    \o FlattenSeq([i \in DOMAIN a.one_time_keys |-> Pickled(Reverse(a.one_time_keys)[i].key, PrivateKey)])
    \o (IF a.num_fallback_keys >= 1
          THEN Pickled(1, Bool) \o Pickled(a.current_fallback_key.key, PrivateKey)
          ELSE Pickled(0, Bool))

PickledObject(kind, x) ==
  CASE kind = "session" -> PickledParts(SessionFormat, x)
    [] kind = "account" ->
         PickledParts(AccountFormat, x) \o PickledFallback(x) \o Pickled(x.next_one_time_key_id, Uint32)
    [] kind = "inbound" -> PickledParts(InboundFormat, x) \o Pickled(x.signing_key_verified, Bool)
    [] kind = "outbound" -> PickledParts(OutboundFormat, x)
    [] kind = "pk_decryption" -> PickledParts(PkDecryptionFormat, x)
    [] kind = "dehydrated" -> PickledDevice(x)

(***************************************************************************)
(* Reading.  A cursor has the position, or Null after a failure, and the   *)
(* object as far as it has been overwritten.                               *)
(***************************************************************************)
Null == -1
Cursor(pos, object) == [pos |-> pos, object |-> object]
Failed(c) == c.pos = Null

Unpickle(b, c, part) ==
  IF Failed(c) \/ c.pos + part.size > Len(b) THEN [c EXCEPT !.pos = Null]
  ELSE Cursor(c.pos + part.size, [c.object EXCEPT ![part.name] = b[c.pos + 1][1]])

UnpickleRecord(b, c, format) == FoldLeft(LAMBDA d, part : Unpickle(b, d, part), c, format)
Blank(format) == [n \in {format[p].name : p \in DOMAIN format} |-> 0]

(* while (size-- && pos != end): a list that ends with the input is shorter *)
(* than announced, one that is longer than its array overwrites the last    *)
(* element.                                                                 *)
RECURSIVE UnpickleElements(_, _, _, _)
UnpickleElements(b, c, part, left) ==
  IF Failed(c) \/ left = 0 \/ c.pos = Len(b) THEN c
  ELSE LET list == c.object[part.name]
           element == UnpickleRecord(b, Cursor(c.pos, Blank(part.of)), part.of)
           longer == ListInsert(list, Len(list) + 1, element.object, part.capacity)
       IN UnpickleElements(b, Cursor(element.pos, [c.object EXCEPT ![part.name] = longer]), part, left - 1)

(* faulty: elements are inserted at the front, as when keys are made *)
RECURSIVE UnpickleElementsFront(_, _, _, _)
UnpickleElementsFront(b, c, part, left) ==
  IF Failed(c) \/ left = 0 \/ c.pos = Len(b) THEN c
  ELSE LET list == c.object[part.name]
           element == UnpickleRecord(b, Cursor(c.pos, Blank(part.of)), part.of)
           longer == ListInsert(list, 1, element.object, part.capacity)
       IN UnpickleElementsFront(b, Cursor(element.pos, [c.object EXCEPT ![part.name] = longer]), part, left - 1)
UnpickleListFront(b, c, part) ==
  LET size == Unpickle(b, Cursor(c.pos, [size |-> 0]), Part("size", Uint32)) IN
  IF Failed(c) \/ Failed(size) THEN [c EXCEPT !.pos = Null]
  ELSE UnpickleElementsFront(b, Cursor(size.pos, [c.object EXCEPT ![part.name] = <<>>]), part, size.object.size)

UnpickleList(b, c, part) ==
  LET size == Unpickle(b, Cursor(c.pos, [size |-> 0]), Part("size", Uint32)) IN
  IF Failed(c) \/ Failed(size) THEN [c EXCEPT !.pos = Null]
  ELSE UnpickleElements(b, Cursor(size.pos, [c.object EXCEPT ![part.name] = <<>>]), part, size.object.size)

UnpickleParts(b, c, format) ==
  FoldLeft(LAMBDA d, part : IF part.capacity = 0 THEN Unpickle(b, d, part) ELSE UnpickleList(b, d, part),
           c, format)

UnpickleFallbackKey(b, c, name) ==
  LET key == UnpickleRecord(b, Cursor(c.pos, c.object[name]), OneTimeKey) IN
  Cursor(IF Failed(c) THEN Null ELSE key.pos, [c.object EXCEPT ![name] = key.object])

(* 3 or more fallback keys are refused after two were read.                *)
UnpickleFallback(b, c) ==
  LET count == Unpickle(b, c, Part("num_fallback_keys", Bool))
      n == count.object.num_fallback_keys
      current == UnpickleFallbackKey(b, count, "current_fallback_key")
      prev == UnpickleFallbackKey(b, current, "prev_fallback_key")
  IN CASE Failed(count) \/ n = 0 -> count
       [] n = 1 -> current
       [] n = 2 -> prev
       [] OTHER -> [prev EXCEPT !.pos = Null]

(* Version 3 has both keys always, and says by their published flags how   *)
(* many there are.                                                         *)
UnpickleFallbackV3(b, c) ==
  LET keys == UnpickleFallbackKey(b, UnpickleFallbackKey(b, c, "current_fallback_key"), "prev_fallback_key")
      n == IF ~keys.object.current_fallback_key.published THEN 0
           ELSE IF keys.object.prev_fallback_key.published THEN 2 ELSE 1
  IN IF Failed(keys) THEN keys ELSE [keys EXCEPT !.object.num_fallback_keys = n]

(* Versions that are read, the one that is written first; 129 stands for   *)
(* 0x80000001, the version that has a chain index after the ratchet.       *)
Versions(kind) ==
  CASE kind = "session" -> <<1, 129>>
    [] kind = "account" -> <<4, 3, 2>>
    [] kind = "inbound" -> <<2, 1>>
    [] OTHER -> <<1>>

NoSession ==
  [version |-> 0, received_message |-> FALSE, alice_identity_key |-> 0, alice_base_key |-> 0,
   bob_one_time_key |-> 0, root_key |-> 0, sender_chain |-> <<>>, receiver_chains |-> <<>>,
   skipped_message_keys |-> <<>>]

UnpickleVersion(b, object) == Unpickle(b, Cursor(0, object), Part("version", Uint32))

UnpickleSession(b, object) ==
  LET c == UnpickleParts(b, Cursor(0, NoSession), SessionFormat) IN
  IF c.object.version = 129 THEN Cursor(Unpickle(b, Cursor(c.pos, [dummy |-> 0]), Part("dummy", Uint32)).pos, c.object)
  ELSE c

UnpickleAccount(b, object) ==
  LET c == UnpickleParts(b, Cursor(0, object), AccountFormat)
      v == c.object.version
      fallback == CASE v = 2 -> [c EXCEPT !.object.num_fallback_keys = 0]
                    [] v = 3 -> UnpickleFallbackV3(b, c)
                    [] OTHER -> UnpickleFallback(b, c)
  IN Unpickle(b, IF Failed(c) THEN c ELSE fallback, Part("next_one_time_key_id", Uint32))

UnpickleInbound(b, object) ==
  LET c == UnpickleParts(b, Cursor(0, object), InboundFormat) IN
  IF c.object.version = 1 THEN [c EXCEPT !.object.signing_key_verified = TRUE]
  ELSE Unpickle(b, c, Part("signing_key_verified", Bool))

(* Here a list longer than the array is refused, and the number of keys is *)
(* checked against the bytes that are left.  Ids are given anew.           *)
UnpickleDevice(b, object) ==
  LET head == UnpickleRecord(b, Cursor(0, object), DehydratedFormat)
      count == Unpickle(b, Cursor(head.pos, [n |-> 0]), Part("n", Uint32))
      n == count.object.n
      end == count.pos + n * PrivateKey
      key(i) == [id |-> i, published |-> TRUE, key |-> b[count.pos + (i - 1) * PrivateKey + 1][1]]
      account == [head.object EXCEPT !.one_time_keys = [j \in 1 .. n |-> key(n + 1 - j)],
                                     !.next_one_time_key_id = n,
                                     !.num_fallback_keys = 0]
      fallback == Unpickle(b, Cursor(end + Bool, [key |-> 0]), Part("key", PrivateKey))
  IN CASE Failed(count) \/ n > MaxOneTimeKeys \/ end + Bool > Len(b) -> Cursor(Null, head.object)
       [] b[end + 1][1] = 0 -> Cursor(end + Bool, account)
       [] OTHER ->
            Cursor(fallback.pos,
                   [account EXCEPT
                      !.num_fallback_keys = 1,
                      !.next_one_time_key_id = n + 1,
                      !.current_fallback_key =
                        [id |-> n + 1, published |-> TRUE, key |-> fallback.object.key]])

(* The version decides first, and nothing may be left over.  A failed call *)
(* leaves an object that was overwritten in part, which nobody may use.    *)
UnpickleKind(kind, b, object) ==
  CASE kind = "session" -> UnpickleSession(b, object)
    [] kind = "account" -> UnpickleAccount(b, object)
    [] kind = "inbound" -> UnpickleInbound(b, object)
    [] kind = "outbound" -> UnpickleParts(b, Cursor(0, object), OutboundFormat)
    [] kind = "pk_decryption" -> UnpickleParts(b, Cursor(0, object), PkDecryptionFormat)
    [] kind = "dehydrated" -> UnpickleDevice(b, object)
KnownVersion(kind, b, object) ==
  LET c == UnpickleVersion(b, object) IN
  ~Failed(c) /\ c.object.version \in ToSet(Versions(kind))

(* faulty: what is left over is ignored *)
UnpickleObjectLoosely(kind, b, object) ==
  IF KnownVersion(kind, b, object) THEN UnpickleKind(kind, b, object) ELSE Cursor(Null, object)

UnpickleObject(kind, b, object) ==
  LET c == UnpickleKind(kind, b, object) IN
  IF KnownVersion(kind, b, object) /\ c.pos = Len(b) THEN c ELSE Cursor(Null, object)
=============================================================================

----------------------------- MODULE Encodings -----------------------------
(***************************************************************************)
(* From a structure to text and back.  A message is encoded in a buffer of *)
(* the length computed beforehand, turned into base64 in place, carried,   *)
(* decoded in place and read.  An object is pickled and sealed with a key, *)
(* stored, opened and unpickled into an object that may have been used     *)
(* before.  On the way a text may lose its end; what was sealed may be cut *)
(* or longer than expected, and may come from an older or another build.   *)
(***************************************************************************)
EXTENDS Base64, Message, Pickles

CONSTANTS Strings,      \* kind -> the field values of the messages that are written
          Received,     \* kind -> byte strings that arrive and nobody wrote
          TrailerLength,
          Objects,      \* kind -> objects that are pickled
          Before,       \* kind -> objects that one is unpickled into
          PickleKeys

VARIABLES sent,   \* what was written
          text,   \* what is stored or on its way
          harm,   \* what happened to it
          got     \* what was read

vars == <<sent, text, harm, got>>

PickleKinds == {"session", "account", "inbound", "outbound", "pk_decryption", "dehydrated"}
Nobody == [what |-> "nothing"]

Init ==
  /\ sent = Nobody
  /\ text = <<>>
  /\ harm = "none"
  /\ got = Nobody

(***************************************************************************)
(* Messages.                                                               *)
(***************************************************************************)
Trailer(kind) == IF kind = "one_time_key_message" THEN 0 ELSE TrailerLength
PROTOCOL_VERSION == 3

(* The part of a buffer of n bytes that the message was written to.        *)
Placed(bytes, n) == [i \in 1 .. n |-> IF i <= Len(bytes) THEN bytes[i] ELSE 0]

WriteMessage(kind) ==
  /\ sent = Nobody
  /\ \E values \in Strings[kind] :
       LET trailer == [i \in 1 .. Trailer(kind) |-> 34]
           message == EncodeMessage(kind, PROTOCOL_VERSION, values, trailer)
       IN /\ sent' = [what |-> "message", kind |-> kind, values |-> values]
          /\ text' = B64Output(Placed(message, EncodeMessageLength(kind, values, Trailer(kind))))
  /\ UNCHANGED <<harm, got>>

Arrive(kind) ==
  /\ sent = Nobody
  /\ \E bytes \in Received[kind] :
       /\ sent' = [what |-> "bytes", kind |-> kind, bytes |-> bytes]
       /\ text' = B64Output(bytes)
  /\ UNCHANGED <<harm, got>>

ReadMessage ==
  /\ sent.what \in {"message", "bytes"}
  /\ got = Nobody
  /\ got' = IF DecodeBase64Length(Len(text)) = Invalid THEN [what |-> "refused"]
            ELSE LET raw == B64Input(text) IN
                 [what |-> "message", raw |-> raw,
                  reader |-> DecodeMessage(sent.kind, raw, Trailer(sent.kind))]
  /\ UNCHANGED <<sent, text, harm>>

(***************************************************************************)
(* Pickles.  The seal is _olm_enc_output, opened by _olm_enc_input with    *)
(* the same key only.                                                      *)
(***************************************************************************)
NoFallbackKey == [id |-> 0, published |-> FALSE, key |-> 0]

(* What libraries that wrote the older versions could say of an object.    *)
Expressible(kind, version, x) ==
  CASE kind = "account" /\ version = 3 ->
         /\ x.current_fallback_key.published = (x.num_fallback_keys >= 1)
         /\ x.prev_fallback_key.published = (x.num_fallback_keys = 2)
    [] kind = "account" /\ version = 2 -> x.num_fallback_keys = 0
    [] kind = "inbound" /\ version = 1 -> x.signing_key_verified
    [] OTHER -> TRUE

PickledAs(kind, version, x) ==
  LET y == [x EXCEPT !.version = version] IN
  CASE kind = "session" /\ version = 129 -> PickledObject(kind, y) \o Pickled(0, Uint32)
    [] kind = "account" /\ version = 3 ->
         PickledParts(AccountFormat, y) \o PickledRecord(OneTimeKey, y.current_fallback_key)
           \o PickledRecord(OneTimeKey, y.prev_fallback_key) \o Pickled(y.next_one_time_key_id, Uint32)
    [] kind = "account" /\ version = 2 ->
         PickledParts(AccountFormat, y) \o Pickled(y.next_one_time_key_id, Uint32)
    [] kind = "inbound" /\ version = 1 -> PickledParts(InboundFormat, y)
    [] OTHER -> PickledObject(kind, y)

WritePickle(kind) ==
  /\ sent = Nobody
  /\ \E x \in Objects[kind], v \in ToSet(Versions(kind)), key \in PickleKeys :
       /\ Expressible(kind, v, x)
       /\ sent' = [what |-> "pickle", kind |-> kind, object |-> x, version |-> v, key |-> key]
       /\ text' = PickledAs(kind, v, x)
  /\ UNCHANGED <<harm, got>>

ReadPickle ==
  /\ sent.what = "pickle"
  /\ got = Nobody
  /\ \E before \in Before[sent.kind], key \in PickleKeys :
       LET c == UnpickleObject(sent.kind, text, before) IN
       got' = IF key # sent.key \/ Failed(c)
              THEN [what |-> "refused", key |-> key]
              ELSE [what |-> "object", key |-> key, object |-> c.object]
  /\ UNCHANGED <<sent, text, harm>>

(***************************************************************************)
(* On the way.                                                             *)
(***************************************************************************)
Cut ==
  /\ sent.what \in {"message", "pickle"}
  /\ got = Nobody /\ harm = "none"
  /\ \E n \in 0 .. Len(text) - 1 : text' = SubSeq(text, 1, n)
  /\ harm' = "cut"
  /\ UNCHANGED <<sent, got>>

Lengthen ==
  /\ sent.what = "pickle"
  /\ got = Nobody /\ harm = "none"
  /\ \E n \in {1, Uint32} : text' = text \o Pickled(1, n)
  /\ harm' = "longer"
  /\ UNCHANGED <<sent, got>>

Again ==
  /\ got # Nobody
  /\ sent' = Nobody /\ text' = <<>> /\ harm' = "none" /\ got' = Nobody

Next ==
  \/ \E kind \in Kinds : WriteMessage(kind) \/ Arrive(kind)
  \/ \E kind \in PickleKinds : WritePickle(kind)
  \/ ReadMessage \/ ReadPickle \/ Cut \/ Lengthen \/ Again

Spec == Init /\ [][Next]_vars

(***************************************************************************)
(* Properties.                                                             *)
(***************************************************************************)
Value(raw, field) == IF "value" \in DOMAIN field THEN field.value ELSE SubSeq(raw, field.from + 1, field.to)
LastField(kind) == Fields(kind)[Len(Fields(kind))].name
Incomplete(kind, reader) ==
  LET f == reader.got[LastField(kind)] IN f.set => f.from = f.to

(* A message that arrives whole is read as it was written, whatever the    *)
(* lengths of its varints and the remainder of its base64: the length      *)
(* computed beforehand is the length written, and encoding in place never  *)
(* overwrites what it has still to read.  One that lost its end is refused *)
(* or lacks what it was sent for; a length cut in the middle may make that *)
(* an empty string.                                                        *)
MessagesArrive ==
  sent.what = "message" /\ got # Nobody =>
    CASE harm = "none" ->
           /\ got.what = "message"
           /\ got.reader.version = PROTOCOL_VERSION
           /\ \A n \in Names(sent.kind) :
                /\ got.reader.got[n].set
                /\ Value(got.raw, got.reader.got[n]) = sent.values[n]
      [] harm = "cut" -> got.what = "message" => Incomplete(sent.kind, got.reader)

(* The frame of a message whoever wrote it: where each field starts, by    *)
(* the low bits of its tag alone.                                          *)
FieldEnd(b, end, p) ==
  LET afterTag == VarintSkip(b, p, end)
      afterNumber == VarintSkip(b, afterTag, end)
      length == VarintDecode(b, afterTag, afterNumber, LengthBits)
  IN CASE b[p + 1] % 8 = 0 -> afterNumber
       [] b[p + 1] % 8 = 2 /\ afterNumber + length <= end -> afterNumber + length
       [] OTHER -> end
Frame(b, end) ==
  LET next[p \in 1 .. end] == IF p = end THEN {} ELSE {p} \cup next[FieldEnd(b, end, p)] IN
  IF end >= 1 THEN next[1] ELSE {}

(* For bytes nobody wrote as a message: every string that was read lies    *)
(* inside the message and before the MAC and signature, no two fields      *)
(* share a byte, a field is set only if the frame has it, and the last of  *)
(* several is the one that counts.                                         *)
FieldsAsFramed ==
  sent.what = "bytes" /\ got.what = "message" =>
    LET b == sent.bytes
        end == Len(b) - Trailer(sent.kind)
        strings == {n \in Names(sent.kind) : got.reader.got[n].set /\ "from" \in DOMAIN got.reader.got[n]}
        at(n) == got.reader.got[n]
        starts(f) == {p \in Frame(b, end) : b[p + 1] = f.tag}
    IN /\ got.raw = b
       /\ \A n \in strings : 2 <= at(n).from /\ at(n).from <= at(n).to /\ at(n).to <= end
       /\ \A m, n \in strings : m # n => at(m).to < at(n).from \/ at(n).to < at(m).from
       /\ \A f \in ToSet(Fields(sent.kind)) :
            at(f.name).set =>
              /\ starts(f) # {}
              /\ f.type = "uint32" =>
                   LET p == Max(starts(f)) IN
                   at(f.name).value = VarintDecode(b, p + 1, FieldEnd(b, end, p), CounterBits)

KeysOf(list) == [i \in DOMAIN list |-> list[i].key]
Shown(kind, x) ==
  CASE kind = "dehydrated" ->
         [curve25519_key |-> x.curve25519_key, ed25519_seed |-> x.ed25519_seed,
          one_time_keys |-> KeysOf(x.one_time_keys),
          fallback_key |-> IF x.num_fallback_keys >= 1 THEN x.current_fallback_key.key ELSE 0]
    [] kind = "account" ->
       [x EXCEPT !.version = 0,
                 !.current_fallback_key = IF x.num_fallback_keys >= 1 THEN @ ELSE NoFallbackKey,
                 !.prev_fallback_key = IF x.num_fallback_keys >= 2 THEN @ ELSE NoFallbackKey]
    [] OTHER -> [x EXCEPT !.version = 0]

(* An object comes back from its pickle as it was, in every version that   *)
(* can express it and whatever the object it is read into held before, and *)
(* only with the key.  From a build with longer lists all but the last     *)
(* element of this build's array survive; a dehydrated device with more    *)
(* keys is refused.                                                        *)
Lists == [receiver_chains |-> MaxReceiverChains, skipped_message_keys |-> MaxSkippedMessageKeys,
          one_time_keys |-> MaxOneTimeKeys]
Survives(list, old, capacity) ==
  IF Len(old) <= capacity THEN list = old
  ELSE Len(list) = capacity /\ \A i \in 1 .. capacity - 1 : list[i] = old[i]
PicklesRestored ==
  sent.what = "pickle" /\ got # Nobody /\ harm = "none" =>
    /\ got.what = "object" <=>
         /\ got.key = sent.key
         /\ sent.kind = "dehydrated" => Len(sent.object.one_time_keys) <= MaxOneTimeKeys
    /\ got.what = "object" =>
         LET x == Shown(sent.kind, got.object)
             y == Shown(sent.kind, sent.object)
         IN \A n \in DOMAIN y :
              IF n \in DOMAIN Lists THEN Survives(x[n], y[n], Lists[n]) ELSE x[n] = y[n]

(* What is shorter or longer than it should be is refused, but for a       *)
(* session that lost whole skipped message keys from its end, and nothing  *)
(* else.                                                                   *)
TornPicklesRefused ==
  sent.what = "pickle" /\ harm # "none" /\ got.what = "object" =>
    LET x == got.object
        y == sent.object
    IN /\ harm = "cut" /\ sent.kind = "session" /\ sent.version = 1
       /\ \A n \in DOMAIN y \ {"version", "receiver_chains", "skipped_message_keys"} : x[n] = y[n]
       /\ Survives(x.receiver_chains, y.receiver_chains, MaxReceiverChains)
       /\ \E k \in 0 .. Len(y.skipped_message_keys) - 1 :
            Survives(x.skipped_message_keys, SubSeq(y.skipped_message_keys, 1, k), MaxSkippedMessageKeys)
=============================================================================

------------------------------ MODULE Message ------------------------------
(***************************************************************************)
(* The messages of message.c: a version byte, then fields of a tag byte    *)
(* and a varint or a counted string, then what the caller appends (MAC,    *)
(* signature).  The three kinds of messages differ in their fields only.   *)
(* A message is a sequence of bytes; a position is the number of bytes     *)
(* before it, and a string that was read is given by the positions where   *)
(* it starts and ends.                                                     *)
(***************************************************************************)
EXTENDS Integers, Sequences, SequencesExt, FiniteSetsExt

CONSTANTS CounterBits,   \* 32: width of counters
          LengthBits     \* 64: width of size_t

ASSUME MessageAssumption == CounterBits \in Nat /\ LengthBits \in Nat

(* Fields in the order in which they are written and looked for.           *)
Field(tag, name, type) == [tag |-> tag, name |-> name, type |-> type]
Fields(kind) ==
  CASE kind = "message" ->
         <<Field(10, "ratchet_key", "bytes"), Field(16, "counter", "uint32"),
           Field(34, "ciphertext", "bytes")>>
    [] kind = "one_time_key_message" ->
         <<Field(10, "one_time_key", "bytes"), Field(18, "base_key", "bytes"),
           Field(26, "identity_key", "bytes"), Field(34, "message", "bytes")>>
    [] kind = "group_message" ->
         <<Field(8, "message_index", "uint32"), Field(18, "ciphertext", "bytes")>>

Kinds == {"message", "one_time_key_message", "group_message"}
Names(kind) == {f.name : f \in ToSet(Fields(kind))}

(***************************************************************************)
(* Writing.                                                                *)
(***************************************************************************)
RECURSIVE VarintLength(_)
VarintLength(value) == IF value < 128 THEN 1 ELSE 1 + VarintLength(value \div 128)

RECURSIVE Varint(_)
Varint(value) ==
  IF value < 128 THEN <<value>> ELSE <<128 + (value % 128)>> \o Varint(value \div 128)

(* values: a number for each counter, a sequence of bytes for each string  *)
EncodedField(f, value) ==
  <<f.tag>> \o (IF f.type = "uint32" THEN Varint(value) ELSE Varint(Len(value)) \o value)
EncodeMessage(kind, version, values, trailer) ==
  FoldLeft(LAMBDA out, f : out \o EncodedField(f, values[f.name]), <<version>>, Fields(kind))
    \o trailer

FieldLength(f, value) ==
  1 + (IF f.type = "uint32" THEN VarintLength(value) ELSE VarintLength(Len(value)) + Len(value))
EncodeMessageLength(kind, values, trailerLength) ==
  1 + FoldLeft(LAMBDA n, f : n + FieldLength(f, values[f.name]), 0, Fields(kind)) + trailerLength

(***************************************************************************)
(* Reading.  r is the state of the loop: pos, and the fields found so far. *)
(***************************************************************************)
Unset == [set |-> FALSE]
Number(v) == [set |-> TRUE, value |-> v]
Bytes(from, to) == [set |-> TRUE, from |-> from, to |-> to]

VarintSkip(b, pos, end) ==
  LET last == {i \in pos + 1 .. end : b[i] < 128} IN IF last = {} THEN end ELSE Min(last)

VarintDecode(b, start, end, bits) ==
  FoldRight(LAMBDA byte, value : (value * 128 + (byte % 128)) % 2^bits, SubSeq(b, start + 1, end), 0)

(* faulty: the length is believed *)
DecodeBytesUnchecked(b, end, r, f) ==
  LET start == VarintSkip(b, r.pos + 1, end)
      len == VarintDecode(b, r.pos + 1, start, LengthBits)
  IN [pos |-> IF len > end - start THEN end ELSE start + len,
      got |-> [r.got EXCEPT ![f.name] = Bytes(start, start + len)]]

DecodeBytes(b, end, r, f) ==
  LET start == VarintSkip(b, r.pos + 1, end)
      len == VarintDecode(b, r.pos + 1, start, LengthBits)
  IN IF len > end - start THEN [r EXCEPT !.pos = end]
     ELSE [pos |-> start + len, got |-> [r.got EXCEPT ![f.name] = Bytes(start, start + len)]]

DecodeUint32(b, end, r, f) ==
  LET next == VarintSkip(b, r.pos + 1, end) IN
  [pos |-> next,
   got |-> [r.got EXCEPT ![f.name] = Number(VarintDecode(b, r.pos + 1, next, CounterBits))]]

DecodeField(b, end, r, f) ==
  IF r.pos = end \/ b[r.pos + 1] # f.tag THEN r
  ELSE IF f.type = "bytes" THEN DecodeBytes(b, end, r, f) ELSE DecodeUint32(b, end, r, f)

SkipUnknown(b, end, pos) ==
  LET type == b[pos + 1] % 8
      tagged == VarintSkip(b, pos, end)
      start == VarintSkip(b, tagged, end)
      len == VarintDecode(b, tagged, start, LengthBits)
  IN CASE type = 0 -> start
       [] type = 2 /\ len <= end - start -> start + len
       [] OTHER -> end

RECURSIVE DecodeFields(_, _, _, _)
DecodeFields(kind, b, end, r) ==
  IF r.pos = end THEN r.got
  ELSE LET next == FoldLeft(LAMBDA s, f : DecodeField(b, end, s, f), r, Fields(kind)) IN
       DecodeFields(kind, b, end,
         IF next.pos = r.pos THEN [next EXCEPT !.pos = SkipUnknown(b, end, r.pos)] ELSE next)

(* version is 0 when there is none.                                        *)
DecodeMessage(kind, b, trailerLength) ==
  LET end == Len(b) - trailerLength
      nothing == [n \in Names(kind) |-> Unset]
  IN IF end <= 0 THEN [version |-> 0, got |-> nothing]
     ELSE [version |-> b[1], got |-> DecodeFields(kind, b, end, [pos |-> 1, got |-> nothing])]
=============================================================================

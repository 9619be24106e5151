------------------------------- MODULE Base64 -------------------------------
(***************************************************************************)
(* base64.c, unpadded, on a buffer: encoding and decoding read and write   *)
(* the same memory, so that their use in place is modelled.  A buffer is a *)
(* sequence of bytes; input and output are given by the number of bytes    *)
(* before them.                                                            *)
(***************************************************************************)
EXTENDS Integers, Sequences, SequencesExt, Bitwise

ENCODE_BASE64(v) ==
  IF v < 26 THEN 65 + v ELSE IF v < 52 THEN 71 + v ELSE IF v < 62 THEN v - 4 ELSE IF v = 62 THEN 43 ELSE 47

(* The inverse; E, which is -1 in an array of bytes, is 255.               *)
DECODE_BASE64(c) ==
  LET values == {v \in 0 .. 63 : ENCODE_BASE64(v) = c % 128} IN
  IF values = {} THEN 255 ELSE CHOOSE v \in values : TRUE

EncodeBase64Length(n) == 4 * ((n + 2) \div 3) + ((n + 2) % 3) - 2

Invalid == -1    \* SIZE_MAX
DecodeBase64Length(n) ==
  IF n % 4 = 1 THEN Invalid ELSE 3 * ((n + 2) \div 4) + ((n + 2) % 4) - 2

Write(buffer, at, values) ==
  SubSeq(buffer, 1, at) \o values \o SubSeq(buffer, at + Len(values) + 1, Len(buffer))

(* One group of n <= 3 bytes becomes n + 1 characters; all of them are     *)
(* read before any is written.                                             *)
EncodeGroup(buffer, input, n, output) ==
  LET byte(i) == IF i < n THEN buffer[input + i + 1] ELSE 0
      value == 65536 * byte(0) + 256 * byte(1) + byte(2)
      chars == <<ENCODE_BASE64(value \div 262144), ENCODE_BASE64((value \div 4096) % 64),
                 ENCODE_BASE64((value \div 64) % 64), ENCODE_BASE64(value % 64)>>
  IN Write(buffer, output, SubSeq(chars, 1, n + 1))

(* faulty: the remainder is encoded first *)
RECURSIVE EncodeBase64Backwards(_, _, _, _)
EncodeBase64Backwards(buffer, input, length, output) ==
  LET last == IF length % 3 = 0 THEN 3 ELSE length % 3
      rest == length - last
  IN IF length = 0 THEN buffer
     ELSE EncodeBase64Backwards(EncodeGroup(buffer, input + rest, last, output + 4 * (rest \div 3)),
                                input, rest, output)

RECURSIVE EncodeBase64(_, _, _, _)
EncodeBase64(buffer, input, length, output) ==
  LET n == IF length < 3 THEN length ELSE 3 IN
  IF length = 0 THEN buffer
  ELSE EncodeBase64(EncodeGroup(buffer, input, n, output), input + n, length - n, output + 4)

(* A character that is not of the alphabet is not refused: it sets the     *)
(* bits of 255, those beyond its own six included.                         *)
DecodeGroup(buffer, input, n, output) ==
  LET char(i) == IF i < n THEN DECODE_BASE64(buffer[input + i + 1]) ELSE 0
      value == (((((char(0) * 64) | char(1)) * 64) | char(2)) * 64) | char(3)
      bytes == <<(value \div 65536) % 256, (value \div 256) % 256, value % 256>>
  IN Write(buffer, output, SubSeq(bytes, 1, n - 1))

RECURSIVE DecodeGroups(_, _, _, _)
DecodeGroups(buffer, input, length, output) ==
  LET n == IF length < 4 THEN length ELSE 4 IN
  IF length = 0 THEN buffer
  ELSE DecodeGroups(DecodeGroup(buffer, input, n, output), input + n, length - n, output + 3)

DecodeBase64(buffer, input, length, output) ==
  IF DecodeBase64Length(length) = Invalid THEN buffer ELSE DecodeGroups(buffer, input, length, output)

(* b64_output and b64_input of olm.c: raw bytes that end where the output  *)
(* ends are encoded in place, text is decoded to where it starts.          *)
B64Output(raw) ==
  LET encoded == EncodeBase64Length(Len(raw))
      start == encoded - Len(raw)
  IN EncodeBase64([i \in 1 .. start |-> 0] \o raw, start, Len(raw), 0)

B64Input(text) ==
  SubSeq(DecodeBase64(text, 0, Len(text), 0), 1, DecodeBase64Length(Len(text)))
=============================================================================

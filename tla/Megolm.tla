------------------------------- MODULE Megolm -------------------------------
(***************************************************************************)
(* The Megolm ratchet of src/megolm.c as operators on the record Megolm: a *)
(* counter and MEGOLM_RATCHET_PARTS hash values.                           *)
(*                                                                         *)
(* A hash value is symbolic: the sequence of the parts it went through,    *)
(* beginning with the part of the random data it comes from.  HMAC with    *)
(* the seed of part k appends k.  Two values are equal in the model        *)
(* exactly when they were hashed from the same data in the same way.       *)
(***************************************************************************)
EXTENDS Integers, Sequences, SequencesExt

CONSTANTS
    MEGOLM_RATCHET_PARTS,   \* 4 in megolm.h
    PartRange               \* 256: the values of the counter's bits for one part

ASSUME PartsAssumption == MEGOLM_RATCHET_PARTS \in Nat \ {0}
ASSUME PartRangeAssumption == PartRange \in Nat \ {0, 1}

Part == 0 .. MEGOLM_RATCHET_PARTS - 1

(* A part is hashed at most PartRange times before a part above it is; the *)
(* counter (uint32_t in the code) counts modulo CounterRange; part j is    *)
(* hashed every Weight(j) steps.                                           *)
Power[n \in 0 .. MEGOLM_RATCHET_PARTS] ==
    IF n = 0 THEN 1 ELSE PartRange * Power[n - 1]

CounterRange == Power[MEGOLM_RATCHET_PARTS]
Weight(j) == Power[MEGOLM_RATCHET_PARTS - 1 - j]

Counter == 0 .. CounterRange - 1

RandomData == [j \in Part |-> <<j>>]

RehashPart(data, from, to) == [data EXCEPT ![to] = Append(data[from], to)]

(* Faulty variant: part h is hashed first, the parts below it from its new *)
(* value.                                                                  *)
RehashFromAscending(data, h) ==
    [i \in Part |-> IF i < h THEN data[i]
                    ELSE IF i = h THEN Append(data[h], h)
                    ELSE Append(Append(data[h], h), i)]

(* From the last part up to part h, all are hashed from part h, which      *)
(* comes last and is therefore still the old one for the others.           *)
RehashFrom(data, h) ==
    [i \in Part |-> IF i < h THEN data[i] ELSE RehashPart(data, h, i)[i]]

MegolmInit(random_data, counter) == [counter |-> counter, data |-> random_data]

(* The first part that the counter says is due.                            *)
PartDue(counter) ==
    CHOOSE h \in Part :
        /\ counter % Weight(h) = 0
        /\ \A i \in 0 .. h - 1 : counter % Weight(i) # 0

(* Faulty variant: the part that is due is looked up before the step.      *)
MegolmAdvanceLate(megolm) ==
    [counter |-> (megolm.counter + 1) % CounterRange,
     data    |-> RehashFrom(megolm.data, PartDue(megolm.counter))]

MegolmAdvance(megolm) ==
    LET counter == (megolm.counter + 1) % CounterRange
    IN  [counter |-> counter, data |-> RehashFrom(megolm.data, PartDue(counter))]

(* Faulty variant: the wrapped counter that needs PartRange steps of the   *)
(* first part is taken for none.                                           *)
StepsNoWrap(megolm, j, advance_to) ==
    ((advance_to \div Weight(j)) - (megolm.counter \div Weight(j))) % PartRange

(* How many times part j is hashed on the way to the counter advance_to.   *)
Steps(megolm, j, advance_to) ==
    LET steps == ((advance_to \div Weight(j)) - (megolm.counter \div Weight(j)))
                    % PartRange
    IN  IF steps = 0 /\ advance_to < megolm.counter THEN PartRange ELSE steps

(* Part j alone for all steps but the last, which also hashes the parts    *)
(* below it.                                                               *)
AdvancePart(megolm, j, advance_to) ==
    LET steps == Steps(megolm, j, advance_to)
    IN  IF steps = 0
          THEN megolm
          ELSE [counter |-> (advance_to \div Weight(j)) * Weight(j),
                data    |-> RehashFrom(
                              [megolm.data EXCEPT
                                  ![j] = @ \o [n \in 1 .. steps - 1 |-> j]], j)]

MegolmAdvanceTo(megolm, advance_to) ==
    LET advanced[k \in 0 .. MEGOLM_RATCHET_PARTS] ==
            IF k = 0 THEN megolm ELSE AdvancePart(advanced[k - 1], k - 1, advance_to)
    IN  advanced[MEGOLM_RATCHET_PARTS]

-----------------------------------------------------------------------------
(* The value of part j after i steps, by the recurrence that defines the   *)
(* ratchet in docs/megolm.md:40-68: it is hashed from the first part that  *)
(* is due, and stands still when none is.                                  *)
Documented[i \in Nat] ==
    [j \in Part |->
       LET last == i - (i % Weight(j))
           h    == CHOOSE h \in 0 .. j :
                      /\ last % Weight(h) = 0
                      /\ \A g \in 0 .. h - 1 : last % Weight(g) # 0
       IN  IF last = 0 THEN <<j>> ELSE Append(Documented[last - Weight(h)][h], j)]

DocumentedRatchet(i) == [counter |-> i % CounterRange, data |-> Documented[i]]

-----------------------------------------------------------------------------
(* What somebody who holds the hash values in "known" can compute: every   *)
(* value that goes on from one of them.                                    *)
HashableFrom(known, value) == \E v \in known : IsPrefix(v, value)

RatchetComputable(known, data) ==
    \A j \in Part : HashableFrom(known, data[j])
=============================================================================

--------------------------- MODULE Common_proofs ----------------------------
(***************************************************************************)
(* Lemmas the other proofs share: least elements and induction over the    *)
(* natural numbers, and what the list operators of OlmList return, for     *)
(* lists of any capacity.                                                  *)
(***************************************************************************)
EXTENDS OlmList, TLAPS, WellFoundedInduction

-----------------------------------------------------------------------------
(* Induction over the natural numbers, from their well-founded order: a    *)
(* set that contains 0 and is closed under successor contains them all.    *)
(* The library's principle takes the property as an operator; a set does   *)
(* without one.                                                            *)

(* A set of natural numbers that is not empty has a least element: a       *)
(* search that stops at the first match, as the ones for a receiver chain  *)
(* or a skipped key do, finds one whenever there is one.                   *)
LEMMA LeastElement ==
    ASSUME NEW T, T \subseteq Nat, T # {}
    PROVE  \E i \in T : \A j \in T : i <= j
<1> DEFINE R == OpToRel(<, Nat)
<1>1. IsWellFoundedOn(R, Nat)
  BY NatLessThanWellFounded
<1>2. \E i \in T : \A j \in T : <<j, i>> \notin R
  <2> HIDE DEF R
  <2> QED BY <1>1, WFMin
<1>3. \A i, j \in Nat : <<j, i>> \notin R => i <= j
  <2>1. \A i, j \in Nat : <<j, i>> \in R <=> j < i
    BY Zenon DEF OpToRel
  <2> HIDE DEF R
  <2> QED BY <2>1
<1> HIDE DEF R
<1> QED BY <1>2, <1>3

(* Induction.                                                              *)
LEMMA NatSetInduction ==
    ASSUME NEW T, 0 \in T, \A n \in Nat : n \in T => n + 1 \in T
    PROVE  Nat \subseteq T
<1> DEFINE D == Nat \ T
<1>1. SUFFICES ASSUME D # {} PROVE FALSE
  OBVIOUS
<1>2. PICK i \in D : \A j \in D : i <= j
  <2> D \subseteq Nat
    OBVIOUS
  <2> HIDE DEF D
  <2> QED BY <1>1, LeastElement
<1>3. i \in Nat /\ i # 0 /\ i - 1 \in Nat /\ ~(i <= i - 1) /\ (i - 1) + 1 = i
  BY <1>2
<1> QED BY <1>2, <1>3

-----------------------------------------------------------------------------
(* Lists of a fixed capacity (include/libce/list.h).                       *)

(* _olm_list_insert_front: the new element comes first, the others follow  *)
(* in their order, and a full list loses its last one.                     *)
LEMMA ListInsertFrontProperties ==
    ASSUME NEW S, NEW list \in Seq(S), NEW value \in S,
           NEW capacity \in Nat \ {0}, Len(list) <= capacity
    PROVE  /\ ListInsertFront(list, value, capacity) \in Seq(S)
           /\ Len(ListInsertFront(list, value, capacity))
                = IF Len(list) < capacity THEN Len(list) + 1 ELSE Len(list)
           /\ ListInsertFront(list, value, capacity)[1] = value
           /\ \A i \in 2 .. Len(ListInsertFront(list, value, capacity)) :
                 ListInsertFront(list, value, capacity)[i] = list[i - 1]
<1> DEFINE length == IF Len(list) < capacity THEN Len(list) + 1 ELSE Len(list)
           new == [i \in 1 .. length |-> IF i = 1 THEN value ELSE list[i - 1]]
<1>1. ListInsertFront(list, value, capacity) = new
  BY DEF ListInsertFront, ListInsert
<1>2. length \in Nat \ {0} /\ \A i \in 2 .. length : i - 1 \in 1 .. Len(list)
  OBVIOUS
<1>3. new \in Seq(S) /\ Len(new) = length
  BY <1>2
<1> QED
  BY <1>1, <1>2, <1>3

(* The list of sender chains, whose capacity is 1, is only ever filled     *)
(* when it is empty.                                                       *)
LEMMA ListInsertFrontEmpty ==
    ASSUME NEW S, NEW value \in S
    PROVE  /\ ListInsertFront(<<>>, value, 1) \in Seq(S)
           /\ Len(ListInsertFront(<<>>, value, 1)) = 1
           /\ ListInsertFront(<<>>, value, 1) # <<>>
           /\ ListInsertFront(<<>>, value, 1)[1] = value
<1> DEFINE new == [i \in 1 .. 1 |-> value]
<1>1. ListInsertFront(<<>>, value, 1) = new
  BY DEF ListInsertFront, ListInsert
<1>2. new \in Seq(S) /\ Len(new) = 1 /\ new[1] = value
  OBVIOUS
<1>3. new # <<>>
  OBVIOUS
<1> HIDE DEF new
<1> QED
  BY <1>1, <1>2, <1>3

(* _olm_list_erase: the others keep their order and the gap closes.        *)
LEMMA ListEraseProperties ==
    ASSUME NEW S, NEW list \in Seq(S), NEW pos \in 1 .. Len(list)
    PROVE  /\ ListErase(list, pos) \in Seq(S)
           /\ Len(ListErase(list, pos)) = Len(list) - 1
           /\ \A i \in 1 .. Len(list) - 1 :
                 ListErase(list, pos)[i] = IF i < pos THEN list[i] ELSE list[i + 1]
  BY DEF ListErase
=============================================================================

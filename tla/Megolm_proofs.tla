--------------------------- MODULE Megolm_proofs ----------------------------
(***************************************************************************)
(* Facts about the operators of module Megolm, for every number of parts   *)
(* and every PartRange: the ratchet values that src/megolm.c computes, by  *)
(* steps or by a jump, are the ones docs/megolm.md defines, and nothing    *)
(* leads back from a later one to an earlier one.                          *)
(***************************************************************************)
EXTENDS Megolm, Common_proofs

-----------------------------------------------------------------------------
(* Division and remainder.                                                 *)

(* Quotient and remainder.                                                 *)
LEMMA DivisionOf ==
    ASSUME NEW a \in Int, NEW w \in Nat \ {0}
    PROVE  /\ a \div w \in Int /\ a % w \in Int
           /\ a = w * (a \div w) + (a % w)
           /\ 0 <= a % w /\ a % w < w
           /\ a \in Nat => a \div w \in Nat
  OBVIOUS

(* Multiples of w are at least w apart.                                    *)
LEMMA MultiplesApart ==
    ASSUME NEW w \in Nat \ {0}, NEW p \in Int, NEW q \in Int, p < q
    PROVE  w * p + w <= w * q
<1>1. PICK d \in Nat : q = p + 1 + d
  <2> q - p - 1 \in Nat /\ q = p + 1 + (q - p - 1)
    OBVIOUS
  <2> QED OBVIOUS
<1>2. w * q = w * p + w + w * d
  BY <1>1
<1>3. w * d >= 0
  BY <1>1
<1> QED BY <1>2, <1>3

(* Quotient and remainder are the only numbers that are ones.              *)
LEMMA DivisionIs ==
    ASSUME NEW w \in Nat \ {0}, NEW q \in Int, NEW r \in Nat, r < w
    PROVE  (w * q + r) \div w = q /\ (w * q + r) % w = r
<1> DEFINE a == w * q + r
<1>0. a \in Int /\ w * q \in Int
  OBVIOUS
<1>1. /\ a \div w \in Int /\ a % w \in Int
      /\ a = w * (a \div w) + (a % w)
      /\ 0 <= a % w /\ a % w < w
  BY <1>0, DivisionOf
<1> DEFINE q2 == a \div w
           r2 == a % w
<1>2. w * q + r = w * q2 + r2 /\ q2 \in Int /\ r2 \in Int /\ 0 <= r2 /\ r2 < w
      /\ w * q2 \in Int
  BY <1>1
<1> HIDE DEF a, q2, r2
<1>3. ~(q < q2)
  <2> SUFFICES ASSUME q < q2 PROVE FALSE
    OBVIOUS
  <2>1. w * q + w <= w * q2
    BY <1>2, MultiplesApart
  <2> HIDE DEF q2
  <2> QED BY <1>0, <1>2, <2>1
<1>4. ~(q2 < q)
  <2> SUFFICES ASSUME q2 < q PROVE FALSE
    OBVIOUS
  <2>1. w * q2 + w <= w * q
    BY <1>2, MultiplesApart
  <2> QED BY <1>0, <1>2, <2>1
<1>5. q2 = q
  BY <1>2, <1>3, <1>4
<1> QED BY <1>2, <1>5 DEF q2, r2, a

(* The remainder is 0 for the multiples and no other number.               *)
LEMMA MultiplesOf ==
    ASSUME NEW w \in Nat \ {0}, NEW a \in Int
    PROVE  a % w = 0 <=> \E q \in Int : a = w * q
<1>1. a % w = 0 => a = w * (a \div w) /\ a \div w \in Int
  BY DivisionOf
<1>2. ASSUME NEW q \in Int, a = w * q PROVE a % w = 0
  <2>1. (w * q + 0) % w = 0
    BY DivisionIs
  <2>2. a = w * q + 0
    BY <1>2
  <2> QED BY <2>1, <2>2
<1> QED BY <1>1, <1>2

(* Adding a multiple of w adds to the quotient and keeps the remainder.    *)
LEMMA ModuloShift ==
    ASSUME NEW w \in Nat \ {0}, NEW a \in Int, NEW q \in Int
    PROVE  /\ (a + w * q) % w = a % w
           /\ (a + w * q) \div w = a \div w + q
<1>1. /\ a \div w \in Int /\ a % w \in Nat /\ a % w < w
      /\ a = w * (a \div w) + (a % w)
  BY DivisionOf
<1> DEFINE d == a \div w
           r == a % w
<1>2. d \in Int /\ r \in Nat /\ r < w /\ a = w * d + r
  BY <1>1
<1> HIDE DEF d, r
<1>3. a + w * q = w * (d + q) + r /\ d + q \in Int
  BY <1>2
<1>4. (w * (d + q) + r) % w = r /\ (w * (d + q) + r) \div w = d + q
  BY <1>2, DivisionIs
<1> QED BY <1>3, <1>4 DEF d, r

(* The remainder does not see multiples added or subtracted.               *)
LEMMA MultiplesAdd ==
    ASSUME NEW w \in Nat \ {0}, NEW a \in Int, NEW b \in Int, b % w = 0
    PROVE  (a + b) % w = a % w /\ (a - b) % w = a % w
<1>1. PICK q \in Int : b = w * q
  BY MultiplesOf
<1>2. /\ (a + w * q) % w = a % w
      /\ (a + w * (-q)) % w = a % w
  <2>1. -q \in Int
    OBVIOUS
  <2> QED BY <2>1, ModuloShift
<1>3. a + w * (-q) = a - b /\ a + w * q = a + b
  BY <1>1
<1> QED BY <1>2, <1>3

(* A multiple of a multiple; the remainder by a multiple keeps the         *)
(* remainder.                                                              *)
LEMMA ModuloOfMultiple ==
    ASSUME NEW w \in Nat \ {0}, NEW k \in Nat \ {0}, NEW v \in Nat \ {0}, v = k * w
    PROVE  /\ \A b \in Int : b % v = 0 => b % w = 0
           /\ \A a \in Int : (a % v) % w = a % w
<1>1. ASSUME NEW b \in Int, b % v = 0 PROVE b % w = 0
  <2>1. PICK q \in Int : b = v * q
    BY <1>1, MultiplesOf
  <2>2. b = w * (k * q) /\ k * q \in Int
    BY <2>1
  <2> QED BY <2>2, MultiplesOf
<1>2. ASSUME NEW a \in Int PROVE (a % v) % w = a % w
  <2>1. a % v \in Int /\ a \div v \in Int /\ a = v * (a \div v) + (a % v)
    BY DivisionOf
  <2>2. a - (a % v) \in Int /\ a - (a % v) = v * (a \div v)
    BY <2>1
  <2>3. (a - (a % v)) % v = 0
    BY <2>1, <2>2, MultiplesOf
  <2>4. (a - (a % v)) % w = 0
    BY <1>1, <2>2, <2>3
  <2>5. ((a % v) + (a - (a % v))) % w = (a % v) % w
    BY <2>1, <2>2, <2>4, MultiplesAdd
  <2>6. (a % v) + (a - (a % v)) = a
    BY <2>1
  <2> QED BY <2>5, <2>6
<1> QED BY <1>1, <1>2

(* The same as MultiplesApart, for numbers whose remainder is 0.           *)
LEMMA MultiplesDistance ==
    ASSUME NEW w \in Nat \ {0}, NEW a \in Int, NEW b \in Int,
           a % w = 0, b % w = 0, a < b
    PROVE  a + w <= b
<1>1. PICK p \in Int : a = w * p
  BY MultiplesOf
<1>2. PICK q \in Int : b = w * q
  BY MultiplesOf
<1>3. p < q
  <2> SUFFICES ASSUME q <= p PROVE FALSE
    BY <1>1, <1>2
  <2>1. CASE q = p
    BY <1>1, <1>2, <2>1
  <2>2. CASE q < p
    <3>1. w * q + w <= w * p
      BY <2>2, MultiplesApart
    <3> QED BY <1>1, <1>2, <3>1
  <2> QED BY <2>1, <2>2
<1> QED BY <1>1, <1>2, <1>3, MultiplesApart

(* The last multiple of w up to a.                                         *)
LastMultiple(a, w) == a - (a % w)

(* It is one, less than w away, and the only one.                          *)
LEMMA LastMultipleIs ==
    ASSUME NEW w \in Nat \ {0}, NEW a \in Nat
    PROVE  /\ LastMultiple(a, w) \in Nat
           /\ LastMultiple(a, w) <= a
           /\ a < LastMultiple(a, w) + w
           /\ LastMultiple(a, w) % w = 0
           /\ LastMultiple(a, w) = w * (a \div w)
           /\ \A b \in Int : b % w = 0 /\ b <= a => b <= LastMultiple(a, w)
           /\ \A b \in Int : b % w = 0 /\ b <= a /\ a < b + w => b = LastMultiple(a, w)
<1> DEFINE l == LastMultiple(a, w)
<1>1. /\ a \div w \in Nat /\ a % w \in Int
      /\ a = w * (a \div w) + (a % w)
      /\ 0 <= a % w /\ a % w < w
  BY DivisionOf
<1>2. l = w * (a \div w) /\ l \in Int
  BY <1>1 DEF LastMultiple
<1>3. l % w = 0
  <2> HIDE DEF l
  <2>1. a \div w \in Int
    BY <1>1
  <2> QED BY <1>2, <2>1, MultiplesOf
<1>4. l \in Nat /\ l <= a /\ a < l + w
  <2>1. w * (a \div w) >= 0
    BY <1>1
  <2> QED BY <1>1, <1>2, <2>1 DEF LastMultiple
<1> HIDE DEF l
<1>5. ASSUME NEW b \in Int, b % w = 0, b <= a PROVE b <= l
  <2> SUFFICES ASSUME l < b PROVE FALSE
    BY <1>4
  <2>1. l + w <= b
    <3>1. l \in Int
      BY <1>4
    <3> QED BY <1>3, <1>5, <3>1, MultiplesDistance, Zenon
  <2> QED BY ONLY <1>4, <1>5, <2>1, w \in Nat, a \in Nat
<1>6. ASSUME NEW b \in Int, b % w = 0, b <= a, a < b + w PROVE b = l
  <2>1. b <= l
    BY <1>5, <1>6
  <2> SUFFICES ASSUME b < l PROVE FALSE
    BY <1>4, <2>1
  <2>2. b + w <= l
    <3>1. l \in Int
      BY <1>4
    <3> QED BY <1>3, <1>6, <3>1, MultiplesDistance, Zenon
  <2> QED BY ONLY <1>4, <1>6, <2>2, w \in Nat, a \in Nat
<1> QED BY <1>2, <1>3, <1>4, <1>5, <1>6 DEF l

(* In the same block of the coarser multiple, in the same block...  *)
LEMMA LastMultipleBetween ==
    ASSUME NEW w \in Nat \ {0}, NEW v \in Nat \ {0}, NEW k \in Nat \ {0}, v = k * w,
           NEW a \in Nat, NEW b \in Nat, LastMultiple(a, w) <= b, b <= a
    PROVE  /\ LastMultiple(b, w) = LastMultiple(a, w)
           /\ LastMultiple(b, v) = LastMultiple(a, v)
           /\ LastMultiple(a, v) <= LastMultiple(a, w)
<1> DEFINE l == LastMultiple(a, w)
           m == LastMultiple(a, v)
<1>1. l \in Nat /\ l % w = 0 /\ l <= a /\ a < l + w
  BY LastMultipleIs
<1>2. m \in Nat /\ m % v = 0 /\ m <= a /\ a < m + v
  BY LastMultipleIs
<1>3. l <= b
  OBVIOUS
<1> HIDE DEF l, m
<1>4. m <= l
  <2>1. m % w = 0
    <3>1. \A c \in Int : c % v = 0 => c % w = 0
      BY ModuloOfMultiple
    <3>2. m \in Int
      BY <1>2
    <3> QED BY <1>2, <3>1, <3>2, Zenon
  <2> QED BY <1>1, <1>2, <2>1, LastMultipleIs DEF l
<1>5. b < l + w /\ b < m + v /\ m <= b
  BY <1>1, <1>2, <1>3, <1>4
<1>6. l = LastMultiple(b, w)
  BY <1>1, <1>3, <1>5, LastMultipleIs
<1>7. m = LastMultiple(b, v)
  BY <1>2, <1>5, LastMultipleIs
<1> QED BY <1>4, <1>6, <1>7 DEF l, m

(* Division is monotone.                                                   *)
LEMMA DivisionMonotone ==
    ASSUME NEW w \in Nat \ {0}, NEW a \in Nat, NEW b \in Nat, a <= b
    PROVE  a \div w <= b \div w
<1>1. LastMultiple(a, w) <= LastMultiple(b, w)
  <2>1. LastMultiple(a, w) \in Int /\ LastMultiple(a, w) % w = 0 /\ LastMultiple(a, w) <= a
    BY LastMultipleIs
  <2>2. LastMultiple(a, w) <= b
    BY <2>1
  <2> QED BY <2>1, <2>2, LastMultipleIs, Zenon
<1>2. w * (a \div w) <= w * (b \div w)
  BY <1>1, LastMultipleIs
<1>3. a \div w \in Int /\ b \div w \in Int
  BY DivisionOf
<1> DEFINE p == a \div w
           q == b \div w
<1> HIDE DEF p, q
<1>4. p \in Int /\ q \in Int /\ w * p <= w * q
  BY <1>2, <1>3 DEF p, q
<1>5. ~(q < p)
  <2> SUFFICES ASSUME q < p PROVE FALSE
    OBVIOUS
  <2>1. w * q + w <= w * p
    BY <1>4, MultiplesApart
  <2>2. w * p \in Int /\ w * q \in Int
    BY <1>4
  <2> QED BY <1>4, <2>1, <2>2
<1> QED BY <1>4, <1>5 DEF p, q

(* Below k * w there are k quotients.                                      *)
LEMMA DivisionBelow ==
    ASSUME NEW w \in Nat \ {0}, NEW k \in Nat \ {0}, NEW a \in Nat, a < k * w
    PROVE  a \div w \in 0 .. k - 1
<1>1. a \div w \in Nat
  BY DivisionOf
<1>2. LastMultiple(a, w) = w * (a \div w) /\ LastMultiple(a, w) <= a
  BY LastMultipleIs
<1> DEFINE q == a \div w
<1> HIDE DEF q
<1>3. q \in Nat /\ w * q <= a
  BY <1>1, <1>2 DEF q
<1>4. ~(k <= q)
  <2> SUFFICES ASSUME k <= q PROVE FALSE
    OBVIOUS
  <2>1. w * k <= w * q
    <3>1. CASE k = q
      BY <3>1
    <3>2. CASE k < q
      <4>1. w * k + w <= w * q
        BY <1>3, <3>2, MultiplesApart
      <4> QED BY <1>3, <4>1
    <3> QED BY <1>3, <3>1, <3>2
  <2>2. w * k = k * w /\ w * k \in Int /\ w * q \in Int
    BY <1>3
  <2> QED BY <1>3, <2>1, <2>2
<1> QED BY <1>3, <1>4 DEF q

(* Two numbers of steps in one block of v = k * w are less than k blocks   *)
(* of w apart.                                                             *)
LEMMA SameBlock ==
    ASSUME NEW w \in Nat \ {0}, NEW k \in Nat \ {0}, NEW v \in Nat \ {0}, v = k * w,
           NEW p \in Nat, NEW s \in Nat, p <= s, LastMultiple(p, v) = LastMultiple(s, v)
    PROVE  (s \div w) - (p \div w) \in 0 .. k - 1
<1> DEFINE q == s \div v
           m == LastMultiple(s, v)
           a == p - m
           b == s - m
<1>1. q \in Nat /\ m = v * q /\ m \in Nat /\ m <= s /\ s < m + v /\ m <= p
  <2>1. LastMultiple(p, v) <= p
    BY LastMultipleIs
  <2>2. LastMultiple(s, v) \in Nat /\ LastMultiple(s, v) <= s /\ s < LastMultiple(s, v) + v
        /\ LastMultiple(s, v) = v * (s \div v)
    BY LastMultipleIs
  <2>3. s \div v \in Nat
    BY DivisionOf
  <2> QED BY <2>1, <2>2, <2>3
<1> HIDE DEF q, m
<1>2. a \in Nat /\ b \in Nat /\ a <= b /\ b < k * w /\ p = a + m /\ s = b + m
  BY <1>1
<1>3. m = w * (k * q) /\ k * q \in Int
  BY <1>1
<1> HIDE DEF a, b
<1>4. s \div w = (b \div w) + k * q /\ p \div w = (a \div w) + k * q
  <2>1. \A x \in Int : (x + w * (k * q)) \div w = x \div w + k * q
    BY <1>3, ModuloShift
  <2>2. a \in Int /\ b \in Int
    BY <1>2
  <2>3. (b + w * (k * q)) \div w = b \div w + k * q
    BY <2>1, <2>2
  <2>4. (a + w * (k * q)) \div w = a \div w + k * q
    BY <2>1, <2>2
  <2> QED BY <1>2, <1>3, <2>3, <2>4
<1>5. b \div w \in 0 .. k - 1
  BY <1>2, DivisionBelow
<1>6. a \div w <= b \div w
  BY <1>2, DivisionMonotone
<1>7. a \div w \in Nat
  BY <1>2, DivisionOf
<1> DEFINE x == a \div w
           y == b \div w
           z == k * q
<1>8. x \in Nat /\ y \in 0 .. k - 1 /\ z \in Int /\ x <= y
      /\ s \div w = y + z /\ p \div w = x + z
  BY <1>3, <1>4, <1>5, <1>6, <1>7
<1> HIDE DEF x, y, z
<1> QED BY <1>8

-----------------------------------------------------------------------------
(* The weights of the parts.                                               *)

(* The powers of PartRange up to m.                                        *)
LEMMA PowerTable ==
    \A m \in Nat : \E g : g = [n \in 0 .. m |-> IF n = 0 THEN 1 ELSE PartRange * g[n - 1]]
<1> DEFINE T == {m \in Nat : \E g : g = [n \in 0 .. m |->
                                           IF n = 0 THEN 1 ELSE PartRange * g[n - 1]]}
<1>1. 0 \in T
  <2> DEFINE g == [n \in 0 .. 0 |-> 1]
  <2>1. g = [n \in 0 .. 0 |-> IF n = 0 THEN 1 ELSE PartRange * g[n - 1]]
    OBVIOUS
  <2> QED BY <2>1, Zenon
<1>2. ASSUME NEW m \in Nat, m \in T PROVE m + 1 \in T
  <2>1. PICK g : g = [n \in 0 .. m |-> IF n = 0 THEN 1 ELSE PartRange * g[n - 1]]
    BY <1>2
  <2> DEFINE h == [n \in 0 .. m + 1 |-> IF n = 0 THEN 1 ELSE PartRange * g[n - 1]]
  <2>2. \A n \in 0 .. m : h[n] = g[n]
    BY <2>1
  <2>3. ASSUME NEW n \in 0 .. m + 1, n # 0
        PROVE  h[n] = PartRange * h[n - 1]
    <3>1. n - 1 \in 0 .. m
      BY <2>3
    <3> QED BY <2>2, <2>3, <3>1
  <2>4. h[0] = 1 /\ DOMAIN h = 0 .. m + 1 /\ h = [n \in 0 .. m + 1 |-> h[n]]
    OBVIOUS
  <2> HIDE DEF h
  <2>5. h = [n \in 0 .. m + 1 |-> IF n = 0 THEN 1 ELSE PartRange * h[n - 1]]
    BY <2>3, <2>4
  <2> QED BY <2>5
<1> HIDE DEF T
<1>3. Nat \subseteq T
  BY <1>1, <1>2, NatSetInduction
<1> QED BY <1>3 DEF T

(* Power is defined by recursion; this is its equation.                    *)
LEMMA PowerEquation ==
    Power = [n \in 0 .. MEGOLM_RATCHET_PARTS |->
               IF n = 0 THEN 1 ELSE PartRange * Power[n - 1]]
<1>1. MEGOLM_RATCHET_PARTS \in Nat
  BY PartsAssumption
<1>2. \E g : g = [n \in 0 .. MEGOLM_RATCHET_PARTS |->
                   IF n = 0 THEN 1 ELSE PartRange * g[n - 1]]
  BY <1>1, PowerTable
<1> QED BY <1>2, Zenon DEF Power

(* The powers start with 1, each is PartRange times the one before, and    *)
(* none is 0.                                                              *)
LEMMA PowerProperties ==
    /\ Power[0] = 1
    /\ \A n \in 0 .. MEGOLM_RATCHET_PARTS - 1 : Power[n + 1] = PartRange * Power[n]
    /\ \A n \in 0 .. MEGOLM_RATCHET_PARTS : Power[n] \in Nat \ {0}
<1> DEFINE N == MEGOLM_RATCHET_PARTS
           T == {n \in Nat : n <= N => Power[n] \in Nat \ {0}}
<1>1. N \in Nat \ {0} /\ PartRange \in Nat \ {0, 1}
  BY PartsAssumption, PartRangeAssumption
<1>2. /\ Power[0] = 1
      /\ \A n \in 1 .. N : Power[n] = PartRange * Power[n - 1]
  <2>1. \A n \in 0 .. N : Power[n] = IF n = 0 THEN 1 ELSE PartRange * Power[n - 1]
    BY PowerEquation
  <2> QED BY <1>1, <2>1
<1>3. ASSUME NEW n \in 0 .. N - 1 PROVE Power[n + 1] = PartRange * Power[n]
  <2>1. n + 1 \in 1 .. N /\ (n + 1) - 1 = n
    BY <1>1
  <2> QED BY <1>2, <2>1
<1>4. 0 \in T
  BY <1>2
<1>5. ASSUME NEW n \in Nat, n \in T PROVE n + 1 \in T
  <2> SUFFICES ASSUME n + 1 <= N PROVE Power[n + 1] \in Nat \ {0}
    OBVIOUS
  <2>1. n \in 0 .. N - 1 /\ n <= N
    BY <1>1
  <2>2. Power[n] \in Nat \ {0}
    BY <1>5, <2>1
  <2>3. \A a, b \in Nat \ {0} : a * b \in Nat \ {0}
    OBVIOUS
  <2> QED BY <1>1, <1>3, <2>1, <2>2, <2>3
<1> HIDE DEF T
<1>6. Nat \subseteq T
  BY <1>4, <1>5, NatSetInduction
<1> QED
  BY <1>1, <1>2, <1>3, <1>6 DEF T

(* Weights are positive, the last is 1, each is PartRange times the next   *)
(* one, and the counter ranges over PartRange times the first.             *)
LEMMA WeightProperties ==
    /\ \A j \in Part : Weight(j) \in Nat \ {0}
    /\ MEGOLM_RATCHET_PARTS - 1 \in Part
    /\ Weight(MEGOLM_RATCHET_PARTS - 1) = 1
    /\ 0 \in Part
    /\ CounterRange = PartRange * Weight(0)
    /\ CounterRange \in Nat \ {0}
    /\ \A j \in Part : j # 0 => j - 1 \in Part /\ Weight(j - 1) = PartRange * Weight(j)
<1> DEFINE N == MEGOLM_RATCHET_PARTS
<1>1. N \in Nat \ {0}
  BY PartsAssumption
<1>2. \A j \in Part : N - 1 - j \in 0 .. N
  BY <1>1 DEF Part
<1>3. CounterRange = PartRange * Weight(0)
  <2>1. N - 1 \in 0 .. N - 1 /\ (N - 1) + 1 = N /\ N - 1 - 0 = N - 1
    BY <1>1
  <2> QED BY <2>1, PowerProperties DEF Weight, CounterRange
<1>4. ASSUME NEW j \in Part, j # 0
      PROVE  j - 1 \in Part /\ Weight(j - 1) = PartRange * Weight(j)
  <2>1. /\ j - 1 \in Part
        /\ N - 1 - j \in 0 .. N - 1
        /\ N - 1 - (j - 1) = (N - 1 - j) + 1
    BY <1>1, <1>4 DEF Part
  <2> QED BY <2>1, PowerProperties DEF Weight
<1>5. N - 1 - (N - 1) = 0 /\ N - 1 \in Part /\ 0 \in Part /\ N \in 0 .. N
  BY <1>1 DEF Part
<1> QED BY <1>2, <1>3, <1>4, <1>5, PowerProperties DEF Weight, CounterRange

(* Every weight is a multiple of the ones that follow, the range of the    *)
(* counter of all of them.                                                 *)
LEMMA WeightsDivide ==
    /\ \A i, j \in Part : i <= j => \E k \in Nat \ {0} : Weight(i) = k * Weight(j)
    /\ \A j \in Part : \E k \in Nat \ {0} : CounterRange = k * PartRange * Weight(j)
<1> DEFINE T == {d \in Nat : \A i \in Part : i + d \in Part =>
                    \E k \in Nat \ {0} : Weight(i) = k * Weight(i + d)}
<1>1. 0 \in T
  <2> SUFFICES ASSUME NEW i \in Part, i + 0 \in Part
               PROVE  \E k \in Nat \ {0} : Weight(i) = k * Weight(i + 0)
    OBVIOUS
  <2>1. i + 0 = i /\ Weight(i) \in Nat
    BY WeightProperties DEF Part
  <2>2. Weight(i) = 1 * Weight(i + 0)
    BY <2>1
  <2> QED BY <2>2
<1>2. ASSUME NEW d \in Nat, d \in T PROVE d + 1 \in T
  <2> SUFFICES ASSUME NEW i \in Part, i + (d + 1) \in Part
               PROVE  \E k \in Nat \ {0} : Weight(i) = k * Weight(i + (d + 1))
    OBVIOUS
  <2>1. /\ i + d \in Part /\ i + (d + 1) # 0 /\ (i + (d + 1)) - 1 = i + d
    BY PartsAssumption DEF Part
  <2>2. PICK k \in Nat \ {0} : Weight(i) = k * Weight(i + d)
    BY <1>2, <2>1
  <2>3. Weight(i + d) = PartRange * Weight(i + (d + 1))
    BY <2>1, WeightProperties
  <2>4. PartRange \in Nat \ {0} /\ Weight(i + (d + 1)) \in Nat
    BY PartRangeAssumption, WeightProperties
  <2>5. \A w \in Nat : k * (PartRange * w) = (k * PartRange) * w
    BY <2>4
  <2>6. k * PartRange \in Nat \ {0}
    BY <2>4
  <2> QED BY <2>2, <2>3, <2>4, <2>5, <2>6
<1> HIDE DEF T
<1>3. Nat \subseteq T
  BY <1>1, <1>2, NatSetInduction
<1>4. ASSUME NEW i \in Part, NEW j \in Part, i <= j
      PROVE  \E k \in Nat \ {0} : Weight(i) = k * Weight(j)
  <2>1. j - i \in Nat /\ i + (j - i) = j
    BY <1>4 DEF Part
  <2>2. j - i \in T
    BY <1>3, <2>1
  <2> QED BY <2>1, <2>2 DEF T
<1>5. ASSUME NEW j \in Part
      PROVE  \E k \in Nat \ {0} : CounterRange = k * PartRange * Weight(j)
  <2>1. 0 \in Part /\ 0 <= j
    BY WeightProperties DEF Part
  <2>2. PICK k \in Nat \ {0} : Weight(0) = k * Weight(j)
    BY <1>4, <2>1
  <2>3. \A w \in Nat : PartRange * (k * w) = k * PartRange * w
    BY PartRangeAssumption
  <2> QED BY <2>2, <2>3, WeightProperties
<1> QED BY <1>4, <1>5

(* The first part whose weight divides the counter: there is one, as the   *)
(* last part's weight is 1.                                                *)
IsFirstDue(h, i) ==
    /\ h \in Part
    /\ i % Weight(h) = 0
    /\ \A g \in 0 .. h - 1 : i % Weight(g) # 0

(* There is a part that is due, only one, and if the weight of part j      *)
(* divides the counter it is j or one before it.                           *)
LEMMA FirstDueExists ==
    ASSUME NEW i \in Int
    PROVE  /\ \E h \in Part : IsFirstDue(h, i)
           /\ \A j \in Part : i % Weight(j) = 0 => \E h \in 0 .. j : IsFirstDue(h, i)
           /\ \A g, h : IsFirstDue(g, i) /\ IsFirstDue(h, i) => g = h
<1>1. ASSUME NEW j \in Part, i % Weight(j) = 0
      PROVE  \E h \in 0 .. j : IsFirstDue(h, i)
  <2> DEFINE T == {h \in Part : i % Weight(h) = 0}
  <2>1. T \subseteq Nat /\ j \in T
    BY <1>1 DEF Part
  <2>2. PICK h \in T : \A g \in T : h <= g
    <3> HIDE DEF T
    <3> QED BY <2>1, LeastElement
  <2>3. h \in 0 .. j
    BY <2>1, <2>2 DEF Part
  <2>4. \A g \in 0 .. h - 1 : g \in Part /\ ~(h <= g)
    BY <2>2, PartsAssumption DEF Part
  <2> QED BY <2>2, <2>3, <2>4 DEF IsFirstDue
<1>2. i % Weight(MEGOLM_RATCHET_PARTS - 1) = 0 /\ MEGOLM_RATCHET_PARTS - 1 \in Part
  <2>1. i % 1 = 0
    OBVIOUS
  <2> QED BY <2>1, WeightProperties
<1>3. ASSUME NEW g, NEW h, IsFirstDue(g, i), IsFirstDue(h, i) PROVE g = h
  BY <1>3 DEF IsFirstDue, Part
<1>4. \E h \in Part : IsFirstDue(h, i)
  BY <1>1, <1>2 DEF IsFirstDue
<1> QED BY <1>1, <1>3, <1>4

(* PartDue is the part that is due.                                        *)
LEMMA PartDueIs ==
    ASSUME NEW i \in Int
    PROVE  /\ IsFirstDue(PartDue(i), i)
           /\ \A h : IsFirstDue(h, i) => h = PartDue(i)
<1>1. \E h \in Part : /\ i % Weight(h) = 0
                      /\ \A g \in 0 .. h - 1 : i % Weight(g) # 0
  BY FirstDueExists DEF IsFirstDue
<1>2. IsFirstDue(PartDue(i), i)
  BY <1>1, Zenon DEF PartDue, IsFirstDue
<1> QED BY <1>2, FirstDueExists, Zenon

(* What the counter knows modulo its range is enough to tell which part is *)
(* due.                                                                    *)
LEMMA DueModulo ==
    ASSUME NEW i \in Int
    PROVE  i % CounterRange \in Int /\ PartDue(i % CounterRange) = PartDue(i)
<1>1. /\ CounterRange \in Nat \ {0}
      /\ i % CounterRange \in Int
  BY WeightProperties, DivisionOf
<1>2. ASSUME NEW j \in Part PROVE (i % CounterRange) % Weight(j) = i % Weight(j)
  <2>1. PICK k \in Nat \ {0} : CounterRange = k * PartRange * Weight(j)
    BY WeightsDivide
  <2>2. k * PartRange \in Nat \ {0} /\ Weight(j) \in Nat \ {0}
    BY PartRangeAssumption, WeightProperties
  <2> QED BY <1>1, <2>1, <2>2, ModuloOfMultiple
<1>3. \A h \in Part : \A g \in 0 .. h - 1 : g \in Part
  BY PartsAssumption DEF Part
<1>4. \A h : IsFirstDue(h, i % CounterRange) <=> IsFirstDue(h, i)
  BY <1>2, <1>3, Zenon DEF IsFirstDue
<1> QED BY <1>1, <1>4, PartDueIs, Zenon

-----------------------------------------------------------------------------
(* The recurrence of docs/megolm.md has a solution, and Documented is it.  *)

(* The recurrence: a value, and all values after i steps, from the values  *)
(* before in f.                                                            *)
Entry(f, i, j) ==
    LET last == i - (i % Weight(j))
        h    == CHOOSE h \in 0 .. j :
                   /\ last % Weight(h) = 0
                   /\ \A g \in 0 .. h - 1 : last % Weight(g) # 0
    IN  IF last = 0 THEN <<j>> ELSE Append(f[last - Weight(h)][h], j)

Row(f, i) == [j \in Part |-> Entry(f, i, j)]

(* What the recurrence says of one value; the value it refers to is an     *)
(* earlier one.                                                            *)
LEMMA RowEntry ==
    ASSUME NEW i \in Nat, NEW j \in Part
    PROVE  /\ LastMultiple(i, Weight(j)) = 0 => \A f : Row(f, i)[j] = <<j>>
           /\ LastMultiple(i, Weight(j)) # 0 =>
                \A h : IsFirstDue(h, LastMultiple(i, Weight(j))) =>
                  /\ h \in 0 .. j
                  /\ LastMultiple(i, Weight(j)) - Weight(h) \in 0 .. i - 1
                  /\ \A f : Row(f, i)[j] =
                        Append(f[LastMultiple(i, Weight(j)) - Weight(h)][h], j)
<1> DEFINE last == LastMultiple(i, Weight(j))
           h0 == CHOOSE h \in 0 .. j : /\ last % Weight(h) = 0
                                       /\ \A g \in 0 .. h - 1 : last % Weight(g) # 0
<1>1. \A f : Row(f, i)[j] = IF last = 0 THEN <<j>> ELSE Append(f[last - Weight(h0)][h0], j)
  BY Zenon DEF Row, Entry, LastMultiple
<1>2. Weight(j) \in Nat \ {0}
  BY WeightProperties
<1>3. last \in Nat /\ last <= i /\ last % Weight(j) = 0
  BY <1>2, LastMultipleIs
<1> HIDE DEF last
<1>4. ASSUME last # 0, NEW h, IsFirstDue(h, last)
      PROVE  /\ h \in 0 .. j /\ h = h0
             /\ last - Weight(h) \in 0 .. i - 1
  <2>1. last \in Int
    BY <1>3
  <2>2. PICK d \in 0 .. j : IsFirstDue(d, last)
    BY <1>3, <2>1, FirstDueExists
  <2>3. d = h
    BY <1>4, <2>1, <2>2, FirstDueExists
  <2>4. \A g \in 0 .. j : (/\ last % Weight(g) = 0
                           /\ \A e \in 0 .. g - 1 : last % Weight(e) # 0)
                            <=> IsFirstDue(g, last)
    BY PartsAssumption DEF IsFirstDue, Part
  <2>5. h0 \in 0 .. j /\ IsFirstDue(h0, last)
    <3>1. h0 \in 0 .. j /\ (/\ last % Weight(h0) = 0
                            /\ \A e \in 0 .. h0 - 1 : last % Weight(e) # 0)
      BY <2>2, <2>4
    <3> HIDE DEF h0
    <3> QED BY <2>4, <3>1
  <2> HIDE DEF h0
  <2>6. h0 = h
    BY <1>4, <2>1, <2>5, FirstDueExists
  <2>7. Weight(h) \in Nat \ {0} /\ last % Weight(h) = 0
    BY <1>4, WeightProperties DEF IsFirstDue
  <2>8. 0 + Weight(h) <= last
    <3>1. 0 % Weight(h) = 0
      BY <2>7
    <3>2. 0 < last /\ 0 \in Int
      BY <1>3, <1>4
    <3> QED BY <2>1, <2>7, <3>1, <3>2, MultiplesDistance, Zenon
  <2>9. last - Weight(h) \in 0 .. i - 1
    <3>1. \A w \in Nat \ {0} : 0 + w <= last => last - w \in 0 .. i - 1
      BY <1>3
    <3> QED BY <2>7, <2>8, <3>1, Zenon
  <2> QED BY <2>2, <2>3, <2>6, <2>9
<1> HIDE DEF h0
<1>5. last # 0 => \A h : IsFirstDue(h, last) =>
          /\ h \in 0 .. j
          /\ last - Weight(h) \in 0 .. i - 1
          /\ \A f : Row(f, i)[j] = Append(f[last - Weight(h)][h], j)
  BY <1>1, <1>4, Zenon
<1> QED BY <1>1, <1>5, Zenon DEF last

(* The same for a multiple that is not 0, with a name for it.              *)
LEMMA RowEntryAt ==
    ASSUME NEW i \in Nat, NEW j \in Part, NEW last,
           last = LastMultiple(i, Weight(j)), last # 0,
           NEW h, IsFirstDue(h, last)
    PROVE  /\ last - Weight(h) \in 0 .. i - 1
           /\ \A f : Row(f, i)[j] = Append(f[last - Weight(h)][h], j)
  BY RowEntry

(* The recurrence depends on earlier rows alone.                           *)
LEMMA RowDepends ==
    ASSUME NEW i \in Nat, NEW f, NEW g, \A l \in 0 .. i - 1 : f[l] = g[l]
    PROVE  Row(f, i) = Row(g, i)
<1>1. ASSUME NEW j \in Part PROVE Row(f, i)[j] = Row(g, i)[j]
  <2> DEFINE last == LastMultiple(i, Weight(j))
  <2>1. CASE last = 0
    BY <2>1, RowEntry
  <2>2. CASE last # 0
    <3>1. last \in Int
      BY LastMultipleIs, WeightProperties
    <3>2. PICK h \in Part : IsFirstDue(h, last)
      BY <3>1, FirstDueExists, Zenon
    <3>3. /\ last - Weight(h) \in 0 .. i - 1
          /\ Row(f, i)[j] = Append(f[last - Weight(h)][h], j)
          /\ Row(g, i)[j] = Append(g[last - Weight(h)][h], j)
      BY <2>2, <3>2, RowEntry, Zenon
    <3> QED BY <3>3, Zenon
  <2> QED BY <2>1, <2>2
<1>2. \A e : Row(e, i) = [j \in Part |-> Row(e, i)[j]]
  BY Zenon DEF Row
<1> QED BY <1>1, <1>2, Zenon

(* A table of the first rows, by induction.                                *)
LEMMA TableExists ==
    \A m \in Nat : \E t : t = [i \in 0 .. m |-> Row(t, i)]
<1> DEFINE T == {m \in Nat : \E t : t = [i \in 0 .. m |-> Row(t, i)]}
<1>1. 0 \in T
  <2> DEFINE t == [i \in 0 .. 0 |-> Row(<<>>, i)]
  <2>1. \A i \in 0 .. 0 : Row(<<>>, i) = Row(t, i)
    <3> SUFFICES ASSUME NEW i \in 0 .. 0 PROVE Row(<<>>, i) = Row(t, i)
      OBVIOUS
    <3>1. i \in Nat /\ \A l \in 0 .. i - 1 : <<>>[l] = t[l]
      OBVIOUS
    <3> HIDE DEF t
    <3> QED BY <3>1, RowDepends
  <2>2. t = [i \in 0 .. 0 |-> Row(t, i)]
    <3> DEFINE u == [i \in 0 .. 0 |-> Row(t, i)]
    <3>1. u = t
      BY <2>1, Zenon
    <3> QED BY <3>1
  <2> QED BY <2>2, Zenon
<1>2. ASSUME NEW m \in Nat, m \in T PROVE m + 1 \in T
  <2>1. PICK t : t = [i \in 0 .. m |-> Row(t, i)]
    BY <1>2, Zenon
  <2> DEFINE u == [i \in 0 .. m + 1 |-> Row(t, i)]
  <2>2. \A l \in 0 .. m : l \in 0 .. m + 1 /\ t[l] = Row(t, l)
    BY <2>1
  <2>3. \A l \in 0 .. m : u[l] = t[l]
    BY <2>2
  <2>4. ASSUME NEW i \in 0 .. m + 1 PROVE Row(u, i) = Row(t, i)
    <3>1. i \in Nat /\ \A l \in 0 .. i - 1 : l \in 0 .. m
      OBVIOUS
    <3>2. \A l \in 0 .. i - 1 : u[l] = t[l]
      BY <2>3, <3>1, Zenon
    <3> HIDE DEF u
    <3> QED BY <3>1, <3>2, RowDepends
  <2>5. u = [i \in 0 .. m + 1 |-> Row(u, i)]
    <3> DEFINE v == [i \in 0 .. m + 1 |-> Row(u, i)]
    <3>1. v = u
      BY <2>4, Zenon
    <3> QED BY <3>1
  <2>6. \E w : w = [i \in 0 .. m + 1 |-> Row(w, i)]
    BY <2>5, Zenon
  <2> QED BY <2>6
<1> HIDE DEF T
<1>3. Nat \subseteq T
  BY <1>1, <1>2, NatSetInduction
<1> QED BY <1>3 DEF T

(* Documented satisfies the recurrence that defines it.                    *)
LEMMA DocumentedEquation ==
    Documented = [i \in Nat |-> Row(Documented, i)]
<1> DEFINE table(m) == CHOOSE t : t = [i \in 0 .. m |-> Row(t, i)]
           f == [i \in Nat |-> table(i)[i]]
<1>1. ASSUME NEW m \in Nat, NEW i \in 0 .. m
      PROVE  table(m)[i] = Row(table(m), i)
  <2>1. \E t : t = [l \in 0 .. m |-> Row(t, l)]
    BY TableExists
  <2>2. table(m) = [l \in 0 .. m |-> Row(table(m), l)]
    BY <2>1, Zenon
  <2> HIDE DEF table
  <2> QED BY <2>2, Zenon
<1> HIDE DEF table
<1> DEFINE T == {i \in Nat : \A l \in 0 .. i : \A m \in Nat : l <= m => table(m)[l] = f[l]}
<1>2. ASSUME NEW i \in Nat, NEW m \in Nat, i <= m,
             \A l \in 0 .. i - 1 : table(m)[l] = f[l] /\ table(i)[l] = f[l]
      PROVE  table(m)[i] = f[i]
  <2>1. i \in 0 .. m /\ i \in 0 .. i
    BY <1>2
  <2>2. Row(table(m), i) = Row(table(i), i)
    <3>1. \A l \in 0 .. i - 1 : table(m)[l] = table(i)[l]
      BY <1>2, Zenon
    <3> QED BY <3>1, RowDepends, Zenon
  <2> QED BY <1>1, <2>1, <2>2, Zenon
<1>3. 0 \in T
  <2>1. \A m \in Nat : table(m)[0] = f[0]
    <3> TAKE m \in Nat
    <3> HIDE DEF f
    <3>1. 0 \in Nat /\ 0 <= m /\ 0 .. 0 - 1 = {}
      OBVIOUS
    <3> QED BY <1>2, <3>1
  <2> HIDE DEF f
  <2> QED BY <2>1
<1>4. ASSUME NEW i \in Nat, i \in T PROVE i + 1 \in T
  <2> HIDE DEF f
  <2> SUFFICES ASSUME NEW l \in 0 .. i + 1, NEW m \in Nat, l <= m
               PROVE  table(m)[l] = f[l]
    OBVIOUS
  <2>1. CASE l \in 0 .. i
    BY <1>4, <2>1
  <2>2. CASE l = i + 1
    <3>1. \A e \in 0 .. l - 1 : e \in 0 .. i /\ e <= m /\ e <= l
      BY <2>2
    <3>2. \A e \in 0 .. l - 1 : table(m)[e] = f[e] /\ table(l)[e] = f[e]
      BY <1>4, <3>1
    <3> QED BY <1>2, <3>2
  <2> QED BY <2>1, <2>2
<1>5. \A i \in Nat : i \in T
  <2> HIDE DEF T
  <2> QED BY <1>3, <1>4, NatSetInduction
<1>6. ASSUME NEW i \in Nat PROVE f[i] = Row(f, i)
  <2>1. f[i] = Row(table(i), i)
    <3>1. i \in 0 .. i
      OBVIOUS
    <3> QED BY <1>1, <3>1, Zenon
  <2>2. \A l \in 0 .. i - 1 : table(i)[l] = f[l]
    <3> HIDE DEF f
    <3>1. \A l \in 0 .. i - 1 : l \in 0 .. i /\ l <= i
      OBVIOUS
    <3> QED BY <1>5, <3>1
  <2> HIDE DEF f
  <2> QED BY <2>1, <2>2, RowDepends
<1>7. f = [i \in Nat |-> Row(f, i)]
  <2> DEFINE g == [i \in Nat |-> Row(f, i)]
  <2>1. g = f
    BY <1>6, Zenon
  <2> QED BY <2>1
<1>8. \E d : d = [i \in Nat |-> Row(d, i)]
  <2> HIDE DEF f
  <2> QED BY <1>7
<1> QED BY <1>8, Zenon DEF Documented, Row, Entry

(* The same, for one row.                                                  *)
LEMMA DocumentedRow ==
    ASSUME NEW i \in Nat
    PROVE  Documented[i] = Row(Documented, i)
  BY DocumentedEquation, Zenon

(* Before the first step every part has its random data.                   *)
LEMMA DocumentedAtStart ==
    ASSUME NEW j \in Part
    PROVE  Documented[0][j] = <<j>>
<1>1. Weight(j) \in Nat \ {0}
  BY WeightProperties
<1>2. LastMultiple(0, Weight(j)) = 0
  BY <1>1, LastMultipleIs
<1>3. 0 \in Nat
  OBVIOUS
<1>4. Row(Documented, 0)[j] = <<j>>
  BY <1>2, <1>3, RowEntry, Zenon
<1> QED BY <1>3, <1>4, DocumentedRow

(* Documented values are sequences of parts.                               *)
LEMMA DocumentedType ==
    ASSUME NEW i \in Nat
    PROVE  Documented[i] \in [Part -> Seq(Part)]
<1> DEFINE T == {n \in Nat : \A l \in 0 .. n : Documented[l] \in [Part -> Seq(Part)]}
<1>1. ASSUME NEW n \in Nat, \A l \in 0 .. n - 1 : Documented[l] \in [Part -> Seq(Part)]
      PROVE  Documented[n] \in [Part -> Seq(Part)]
  <2>1. ASSUME NEW j \in Part PROVE Entry(Documented, n, j) \in Seq(Part)
    <3> DEFINE last == LastMultiple(n, Weight(j))
    <3>1. Row(Documented, n)[j] = Entry(Documented, n, j)
      BY Zenon DEF Row
    <3>2. CASE last = 0
      <4>1. Entry(Documented, n, j) = <<j>>
        BY <3>1, <3>2, RowEntry
      <4> QED BY <4>1
    <3>3. CASE last # 0
      <4>1. last \in Int
        BY LastMultipleIs, WeightProperties
      <4>2. PICK h \in Part : IsFirstDue(h, last)
        BY <4>1, FirstDueExists, Zenon
      <4>3. /\ last - Weight(h) \in 0 .. n - 1
            /\ Entry(Documented, n, j) = Append(Documented[last - Weight(h)][h], j)
        BY <3>1, <3>3, <4>2, RowEntry, Zenon
      <4>4. Documented[last - Weight(h)][h] \in Seq(Part)
        BY <1>1, <4>3
      <4> QED BY <4>3, <4>4
    <3> QED BY <3>2, <3>3
  <2>2. Documented[n] = [j \in Part |-> Entry(Documented, n, j)]
    BY DocumentedRow, Zenon DEF Row
  <2> QED BY <2>1, <2>2
<1>2. 0 \in T
  <2>1. 0 .. 0 - 1 = {} /\ \A l \in 0 .. 0 : l = 0
    OBVIOUS
  <2> QED BY <1>1, <2>1
<1>3. ASSUME NEW n \in Nat, n \in T PROVE n + 1 \in T
  <2>1. \A l \in 0 .. (n + 1) - 1 : Documented[l] \in [Part -> Seq(Part)]
    BY <1>3
  <2>2. Documented[n + 1] \in [Part -> Seq(Part)]
    BY <1>1, <2>1
  <2>3. \A l \in 0 .. n + 1 : l = n + 1 \/ l \in 0 .. (n + 1) - 1
    OBVIOUS
  <2> QED BY <2>1, <2>2, <2>3
<1>4. i \in T
  <2> HIDE DEF T
  <2> QED BY <1>2, <1>3, NatSetInduction
<1> QED BY <1>4

(* The documented ratchet starts as the initialised one.                   *)
LEMMA DocumentedStart == DocumentedRatchet(0) = MegolmInit(RandomData, 0)
<1>1. 0 \in Nat
  OBVIOUS
<1>2. Documented[0] = RandomData
  <2>1. Documented[0] = [j \in Part |-> Documented[0][j]]
    BY <1>1, DocumentedType
  <2>2. Documented[0] = [j \in Part |-> <<j>>]
    BY <2>1, DocumentedAtStart, Zenon
  <2> QED BY <2>2, Zenon DEF RandomData
<1>3. 0 % CounterRange = 0
  <2>1. CounterRange \in Nat \ {0}
    BY WeightProperties
  <2> QED BY <1>1, <2>1, LastMultipleIs
<1> QED BY <1>2, <1>3, Zenon DEF DocumentedRatchet, MegolmInit

(* A part stands still as long as its weight does not divide the number of *)
(* steps.                                                                  *)
LEMMA StandsStill ==
    ASSUME NEW i \in Nat, NEW l \in Nat, NEW j \in Part,
           LastMultiple(i, Weight(j)) = LastMultiple(l, Weight(j))
    PROVE  Documented[i][j] = Documented[l][j]
<1> DEFINE last == LastMultiple(i, Weight(j))
<1>0. Documented[i] = Row(Documented, i) /\ Documented[l] = Row(Documented, l)
  BY DocumentedRow
<1>1. CASE last = 0
  <2>1. Row(Documented, i)[j] = <<j>> /\ Row(Documented, l)[j] = <<j>>
    BY <1>1, RowEntry, Zenon
  <2> QED BY <1>0, <2>1
<1>2. CASE last # 0
  <2>1. last \in Int
    BY LastMultipleIs, WeightProperties
  <2>2. PICK h \in Part : IsFirstDue(h, last)
    BY <2>1, FirstDueExists, Zenon
  <2>3. /\ Row(Documented, i)[j] = Append(Documented[last - Weight(h)][h], j)
        /\ Row(Documented, l)[j] = Append(Documented[last - Weight(h)][h], j)
    <3> HIDE DEF last
    <3>1. last = LastMultiple(l, Weight(j)) /\ last = LastMultiple(i, Weight(j))
      BY DEF last
    <3>2. ASSUME NEW r \in Nat, last = LastMultiple(r, Weight(j))
          PROVE  \A f : Row(f, r)[j] = Append(f[last - Weight(h)][h], j)
      BY <1>2, <2>2, <3>2, RowEntryAt
    <3>3. \A f : Row(f, i)[j] = Append(f[last - Weight(h)][h], j)
      BY <3>1, <3>2
    <3>4. \A f : Row(f, l)[j] = Append(f[last - Weight(h)][h], j)
      BY <3>1, <3>2
    <3> QED BY <3>3, <3>4, Zenon
  <2> QED BY <1>0, <2>3, Zenon
<1> QED BY <1>1, <1>2

(* When part h is due, it and the parts after it are hashed from it.       *)
LEMMA HashedFromDue ==
    ASSUME NEW i \in Nat \ {0}, NEW h, IsFirstDue(h, i), NEW j \in Part, h <= j
    PROVE  /\ i - Weight(h) \in 0 .. i - 1
           /\ Documented[i][j] = Append(Documented[i - Weight(h)][h], j)
<1>1. h \in Part /\ i % Weight(h) = 0
  BY DEF IsFirstDue
<1>2. i % Weight(j) = 0
  <2>1. PICK k \in Nat \ {0} : Weight(h) = k * Weight(j)
    BY <1>1, WeightsDivide
  <2>2. /\ Weight(h) \in Nat \ {0} /\ Weight(j) \in Nat \ {0} /\ i \in Int
    BY <1>1, WeightProperties
  <2>3. \A b \in Int : b % Weight(h) = 0 => b % Weight(j) = 0
    BY <2>1, <2>2, ModuloOfMultiple, Zenon
  <2> QED BY <1>1, <2>2, <2>3, Zenon
<1>3. LastMultiple(i, Weight(j)) = i
  BY <1>2 DEF LastMultiple
<1>4. i # 0 /\ i \in Nat
  OBVIOUS
<1>5. /\ i - Weight(h) \in 0 .. i - 1
      /\ Row(Documented, i)[j] = Append(Documented[i - Weight(h)][h], j)
  BY <1>3, <1>4, RowEntryAt
<1> QED BY <1>4, <1>5, DocumentedRow, Zenon

(* From one row to the next: the parts before the one that is due stay,    *)
(* the others are hashed from its value.                                   *)
LEMMA DocumentedNext ==
    ASSUME NEW n \in Nat, NEW j \in Part
    PROVE  Documented[n + 1][j] = IF j < PartDue(n + 1) THEN Documented[n][j]
                                  ELSE Append(Documented[n][PartDue(n + 1)], j)
<1> DEFINE h == PartDue(n + 1)
<1>0. n + 1 \in Nat
  OBVIOUS
<1>1. IsFirstDue(h, n + 1)
  BY PartDueIs
<1>3. h \in Part
  BY <1>1 DEF IsFirstDue
<1> HIDE DEF h
<1>4. Documented[n + 1][j] = IF j < h THEN Documented[n][j]
                             ELSE Append(Documented[n][h], j)
  <2>0. Weight(j) \in Nat \ {0} /\ Weight(h) \in Nat \ {0}
    BY <1>3, WeightProperties
  <2>1. CASE j < h
    <3>1. (n + 1) % Weight(j) # 0
      BY <1>1, <1>3, <2>1 DEF IsFirstDue, Part
    <3> DEFINE last == LastMultiple(n + 1, Weight(j))
    <3>2. last # n + 1
      <4>1. last % Weight(j) = 0
        BY <1>0, <2>0, LastMultipleIs, Zenon
      <4> QED BY <3>1, <4>1
    <3>3. last \in Nat /\ last <= n + 1 /\ last % Weight(j) = 0 /\ n + 1 < last + Weight(j)
      BY <1>0, <2>0, LastMultipleIs, Zenon
    <3> HIDE DEF last
    <3>4. last <= n /\ n < last + Weight(j)
      BY <2>0, <3>2, <3>3
    <3>5. last = LastMultiple(n, Weight(j))
      <4>1. last \in Int
        BY <3>3
      <4> QED BY <2>0, <3>3, <3>4, <4>1, LastMultipleIs, Zenon
    <3> QED BY <2>1, <3>5, StandsStill DEF last
  <2>2. CASE ~(j < h)
    <3>1. h <= j
      BY <1>3, <2>2 DEF Part
    <3>2. /\ Documented[n + 1][j] = Append(Documented[(n + 1) - Weight(h)][h], j)
          /\ (n + 1) - Weight(h) \in 0 .. n
      <4>1. n + 1 \in Nat \ {0}
        OBVIOUS
      <4>2. /\ Documented[n + 1][j] = Append(Documented[(n + 1) - Weight(h)][h], j)
            /\ (n + 1) - Weight(h) \in 0 .. (n + 1) - 1
        <5> DEFINE m == n + 1
        <5>1. IsFirstDue(h, m) /\ m \in Nat \ {0} /\ h <= j
          BY <1>1, <3>1, <4>1
        <5> HIDE DEF m
        <5>2. /\ Documented[m][j] = Append(Documented[m - Weight(h)][h], j)
              /\ m - Weight(h) \in 0 .. m - 1
          BY ONLY <5>1, j \in Part, HashedFromDue
        <5> QED BY <5>2 DEF m
      <4> QED BY <4>2
    <3>3. Documented[(n + 1) - Weight(h)][h] = Documented[n][h]
      <4> DEFINE b == (n + 1) - Weight(h)
      <4>1. b \in Nat /\ b <= n /\ b < b + Weight(h) /\ n < b + Weight(h)
        BY <2>0, <3>2
      <4>2. b % Weight(h) = 0
        <5>1. (n + 1) % Weight(h) = 0 /\ Weight(h) % Weight(h) = 0
          <6>1. Weight(h) = Weight(h) * 1 /\ Weight(h) \in Int
            BY <2>0
          <6> QED BY <1>1, <2>0, <6>1, MultiplesOf DEF IsFirstDue
        <5>2. Weight(h) \in Int /\ n + 1 \in Int
          BY <2>0
        <5>3. ((n + 1) - Weight(h)) % Weight(h) = (n + 1) % Weight(h)
          <6> DEFINE m == n + 1
                     w == Weight(h)
          <6>1. w \in Nat \ {0} /\ m \in Int /\ w \in Int /\ w % w = 0
            BY <2>0, <5>1
          <6> HIDE DEF m, w
          <6>2. (m - w) % w = m % w
            BY ONLY <6>1, MultiplesAdd, Zenon
          <6> QED BY <6>2 DEF m, w
        <5> QED BY <5>1, <5>3
      <4> HIDE DEF b
      <4>3. b = LastMultiple(n, Weight(h)) /\ b = LastMultiple(b, Weight(h))
        BY <2>0, <4>1, <4>2, LastMultipleIs
      <4> QED BY <1>3, <4>1, <4>3, StandsStill DEF b
    <3> QED BY <2>2, <3>2, <3>3
  <2> QED BY <2>1, <2>2
<1> QED BY <1>4 DEF h

-----------------------------------------------------------------------------
(* One step of the ratchet.                                                *)

(* The parts before part h stay, the others are hashed from part h.        *)
LEMMA RehashFromIs ==
    ASSUME NEW data, DOMAIN data = Part, NEW h \in Part
    PROVE  RehashFrom(data, h) =
             [i \in Part |-> IF i < h THEN data[i] ELSE Append(data[h], i)]
<1>1. \A i \in Part : RehashPart(data, h, i)[i] = Append(data[h], i)
  BY DEF RehashPart
<1> QED BY <1>1, Zenon DEF RehashFrom

(* megolm_advance takes the documented ratchet to the next documented      *)
(* ratchet, past the wrap of the counter too.                              *)
THEOREM AdvanceFollowsDocument ==
    ASSUME NEW n \in Nat
    PROVE  MegolmAdvance(DocumentedRatchet(n)) = DocumentedRatchet(n + 1)
<1> DEFINE counter == ((n % CounterRange) + 1) % CounterRange
           h == PartDue(n + 1)
<1>1. /\ counter = (n + 1) % CounterRange
      /\ PartDue(counter) = h
      /\ IsFirstDue(h, n + 1)
  <2>1. CounterRange \in Nat \ {0} /\ n + 1 \in Int
    BY WeightProperties
  <2>2. /\ n \div CounterRange \in Int /\ n % CounterRange \in Int
        /\ n = CounterRange * (n \div CounterRange) + (n % CounterRange)
    BY <2>1, DivisionOf
  <2>3. n + 1 = ((n % CounterRange) + 1) + CounterRange * (n \div CounterRange)
    BY <2>1, <2>2
  <2>4. counter = (n + 1) % CounterRange
    <3> DEFINE m == (n % CounterRange) + 1
               q == n \div CounterRange
    <3>1. m \in Int /\ q \in Int /\ n + 1 = m + CounterRange * q
      BY <2>2, <2>3
    <3> HIDE DEF m, q
    <3>2. (m + CounterRange * q) % CounterRange = m % CounterRange
      BY <2>1, <3>1, ModuloShift, Zenon
    <3> QED BY <3>1, <3>2 DEF m
  <2> QED BY <2>1, <2>4, DueModulo, PartDueIs
<1>0. n + 1 \in Nat
  OBVIOUS
<1>2. Documented[n] \in [Part -> Seq(Part)] /\ Documented[n + 1] \in [Part -> Seq(Part)]
  BY DocumentedType
<1>3. h \in Part
  BY <1>1 DEF IsFirstDue
<1> HIDE DEF counter, h
<1>4. ASSUME NEW j \in Part
      PROVE  Documented[n + 1][j] = IF j < h THEN Documented[n][j]
                                    ELSE Append(Documented[n][h], j)
  BY DocumentedNext DEF h
<1>5. MegolmAdvance(DocumentedRatchet(n)) =
        [counter |-> (n + 1) % CounterRange, data |-> RehashFrom(Documented[n], h)]
  BY <1>1 DEF MegolmAdvance, DocumentedRatchet, counter
<1>6. RehashFrom(Documented[n], h) = Documented[n + 1]
  <2>1. RehashFrom(Documented[n], h) =
          [i \in Part |-> IF i < h THEN Documented[n][i] ELSE Append(Documented[n][h], i)]
    BY <1>2, <1>3, RehashFromIs
  <2> QED BY <1>2, <1>4, <2>1
<1> QED BY <1>5, <1>6 DEF DocumentedRatchet

-----------------------------------------------------------------------------
(* A jump: the loop of megolm_advance_to over the parts.  Before part j    *)
(* the ratchet is where it was after p steps, on its way to where it is    *)
(* after s.                                                                *)

(* Before part j is hashed on the way from p to s, the ratchet is less     *)
(* than a round behind, and in the last block of the part before.          *)
OnTheWay(j, p, s) ==
    /\ p <= s
    /\ s < p + CounterRange
    /\ j # 0 => LastMultiple(s, Weight(j - 1)) <= p

(* On the way, part j is hashed when its weight divides the number of      *)
(* steps, and no part before it is.                                        *)
LEMMA DueOnTheWay ==
    ASSUME NEW j \in Part, NEW p \in Nat, NEW s \in Nat, OnTheWay(j, p, s),
           NEW x \in Nat, p < x, x <= s, x % Weight(j) = 0
    PROVE  IsFirstDue(j, x)
<1>1. ASSUME NEW g \in 0 .. j - 1, x % Weight(g) = 0 PROVE FALSE
  <2>1. j - 1 \in Part /\ g \in Part /\ g <= j - 1 /\ j # 0
    BY PartsAssumption DEF Part
  <2>2. PICK k \in Nat \ {0} : Weight(g) = k * Weight(j - 1)
    BY <2>1, WeightsDivide
  <2>3. Weight(g) \in Nat \ {0} /\ Weight(j - 1) \in Nat \ {0}
    BY <2>1, WeightProperties
  <2>4. x % Weight(j - 1) = 0
    <3> DEFINE v == Weight(g)
               w == Weight(j - 1)
    <3>1. v \in Nat \ {0} /\ w \in Nat \ {0} /\ v = k * w /\ x \in Int /\ x % v = 0
      BY <1>1, <2>2, <2>3
    <3> HIDE DEF v, w
    <3>2. \A b \in Int : b % v = 0 => b % w = 0
      BY <3>1, ModuloOfMultiple
    <3>3. x % w = 0
      BY <3>1, <3>2, Zenon
    <3> QED BY <3>3 DEF w
  <2>5. x <= LastMultiple(s, Weight(j - 1))
    <3>1. x \in Int
      OBVIOUS
    <3> QED BY <2>3, <2>4, <3>1, LastMultipleIs, Zenon
  <2>6. LastMultiple(s, Weight(j - 1)) <= p /\ LastMultiple(s, Weight(j - 1)) \in Nat
    BY <2>1, <2>3, LastMultipleIs DEF OnTheWay
  <2> QED BY <2>5, <2>6
<1> QED BY <1>1, Zenon DEF IsFirstDue

(* The counters differ by as many weights as the steps do, give or take    *)
(* full ranges of the part.                                                *)
LEMMA CounterDigits ==
    ASSUME NEW j \in Part, NEW n \in Nat
    PROVE  \E k \in Int : /\ j = 0 => k = n \div CounterRange
                          /\ (n % CounterRange) \div Weight(j)
                               = (n \div Weight(j)) - PartRange * k
<1> DEFINE w == Weight(j)
           c == n \div CounterRange
           a == n % CounterRange
<1>1. w \in Nat \ {0} /\ CounterRange \in Nat \ {0} /\ PartRange \in Nat
  BY WeightProperties, PartRangeAssumption
<1>2. PICK k \in Nat \ {0} : CounterRange = k * PartRange * w /\ (j = 0 => k = 1)
  <2>1. CASE j = 0
    <3>1. CounterRange = 1 * PartRange * w
      BY <1>1, <2>1, WeightProperties
    <3> QED BY <3>1
  <2>2. CASE j # 0
    BY <2>2, WeightsDivide
  <2> QED BY <2>1, <2>2
<1>3. c \in Int /\ a \in Int /\ n = CounterRange * c + a
  BY <1>1, DivisionOf
<1> HIDE DEF w, c, a
<1>4. n = a + w * (PartRange * (k * c)) /\ PartRange * (k * c) \in Int /\ k * c \in Int
  <2>1. (k * PartRange * w) * c = w * (PartRange * (k * c))
    BY <1>1, <1>2, <1>3
  <2>2. w * (PartRange * (k * c)) \in Int /\ PartRange * (k * c) \in Int /\ k * c \in Int
    BY <1>1, <1>3
  <2> QED BY <1>2, <1>3, <2>1, <2>2
<1>5. n \div w = (a \div w) + PartRange * (k * c)
  <2>1. (a + w * (PartRange * (k * c))) \div w = a \div w + PartRange * (k * c)
    BY <1>1, <1>3, <1>4, ModuloShift, Zenon
  <2> QED BY <1>4, <2>1
<1>6. a \div w \in Int /\ n \div w \in Int
  BY <1>1, <1>3, DivisionOf
<1>7. a \div w = (n \div w) - PartRange * (k * c)
  BY <1>4, <1>5, <1>6
<1>8. j = 0 => k * c = c
  BY <1>2, <1>3
<1> QED BY <1>4, <1>7, <1>8 DEF w, c, a

(* Two numbers of steps in one round have counters as far apart.           *)
LEMMA SameRound ==
    ASSUME NEW p \in Nat, NEW s \in Nat, p <= s,
           LastMultiple(p, CounterRange) = LastMultiple(s, CounterRange)
    PROVE  p % CounterRange <= s % CounterRange
<1>1. CounterRange \in Nat \ {0} /\ p % CounterRange \in Int /\ s % CounterRange \in Int
  BY WeightProperties, DivisionOf
<1> DEFINE a == p % CounterRange
           b == s % CounterRange
<1>2. a \in Int /\ b \in Int /\ p - a = s - b
  BY <1>1 DEF LastMultiple
<1> HIDE DEF a, b
<1> QED BY <1>2 DEF a, b

(* The steps of part j on the way to s are the blocks of its weight that   *)
(* lie between p and s, whatever the counters wrapped.                     *)
LEMMA StepsCount ==
    ASSUME NEW j \in Part, NEW p \in Nat, NEW s \in Nat, OnTheWay(j, p, s)
    PROVE  /\ Steps(DocumentedRatchet(p), j, s % CounterRange)
                = (s \div Weight(j)) - (p \div Weight(j))
           /\ (s \div Weight(j)) - (p \div Weight(j)) \in Nat
<1> DEFINE w == Weight(j)
           R == PartRange
           a == (s % CounterRange) \div w
           b == (p % CounterRange) \div w
           d == (s \div w) - (p \div w)
<1>1. w \in Nat \ {0} /\ CounterRange \in Nat \ {0} /\ R \in Nat \ {0, 1}
  BY WeightProperties, PartRangeAssumption
<1>2. p <= s /\ s < p + CounterRange
  BY DEF OnTheWay
<1>3. s % CounterRange \in Nat /\ p % CounterRange \in Nat
  BY <1>1, DivisionOf
<1>4. s \div w \in Nat /\ p \div w \in Nat /\ p \div w <= s \div w
  BY <1>1, <1>2, DivisionOf, DivisionMonotone
<1>5. d \in Nat
  BY <1>4
<1>6. PICK ks \in Int : /\ j = 0 => ks = s \div CounterRange
                        /\ a = (s \div w) - PartRange * ks
  BY CounterDigits
<1>7. PICK kp \in Int : /\ j = 0 => kp = p \div CounterRange
                        /\ b = (p \div w) - PartRange * kp
  BY CounterDigits
<1>8. a - b = d + R * (kp - ks) /\ kp - ks \in Int
  BY <1>1, <1>4, <1>6, <1>7
<1>9. (a - b) % R = d % R
  <2> DEFINE e == kp - ks
  <2>1. d \in Int /\ e \in Int /\ R \in Nat \ {0} /\ a - b = d + R * e
    BY <1>1, <1>5, <1>8
  <2> HIDE DEF d, e, a, b, R
  <2>2. (d + R * e) % R = d % R
    BY <2>1, ModuloShift, Zenon
  <2> QED BY <2>1, <2>2
<1>10. \/ d \in 0 .. R - 1 /\ p % CounterRange <= s % CounterRange
       \/ d \in 1 .. R /\ s % CounterRange < p % CounterRange
  <2>1. CASE j # 0
    <3> DEFINE v == Weight(j - 1)
    <3>1. v \in Nat \ {0} /\ v = R * w /\ j - 1 \in Part
      BY <2>1, WeightProperties
    <3>2. PICK k \in Nat \ {0} : CounterRange = k * PartRange * v
      BY <3>1, WeightsDivide
    <3>3. k * PartRange \in Nat \ {0}
      BY <1>1
    <3>4. LastMultiple(s, v) <= p
      BY <2>1 DEF OnTheWay
    <3> DEFINE round == k * PartRange
    <3> HIDE DEF v, round
    <3>5. /\ LastMultiple(p, v) = LastMultiple(s, v)
          /\ LastMultiple(p, CounterRange) = LastMultiple(s, CounterRange)
      <4>1. round \in Nat \ {0} /\ CounterRange = round * v
        BY <3>2, <3>3 DEF round
      <4> HIDE DEF CounterRange
      <4>2. p \in Nat /\ s \in Nat /\ p <= s /\ v \in Nat \ {0} /\ LastMultiple(s, v) <= p
        BY <1>2, <3>1, <3>4
      <4> QED BY <4>1, <4>2, LastMultipleBetween
    <3>6. p % CounterRange <= s % CounterRange
      BY <1>2, <3>5, SameRound
    <3> HIDE DEF R, w
    <3>7. (s \div w) - (p \div w) \in 0 .. R - 1
      BY <1>1, <1>2, <3>1, <3>5, SameBlock
    <3> QED BY <3>6, <3>7
  <2>2. CASE j = 0
    <3>1. CounterRange = R * w
      BY <2>2, WeightProperties
    <3>2. CASE LastMultiple(p, CounterRange) = LastMultiple(s, CounterRange)
      <4>1. p % CounterRange <= s % CounterRange
        BY <1>2, <3>2, SameRound
      <4>2. (s \div w) - (p \div w) \in 0 .. R - 1
        <5> HIDE DEF w, R
        <5> QED BY <1>1, <1>2, <3>1, <3>2, SameBlock
      <4> QED BY <4>1, <4>2
    <3>3. CASE LastMultiple(p, CounterRange) # LastMultiple(s, CounterRange)
      <4> DEFINE mp == LastMultiple(p, CounterRange)
                 ms == LastMultiple(s, CounterRange)
                 qp == p \div CounterRange
                 qs == s \div CounterRange
                 rp == p % CounterRange
                 rs == s % CounterRange
      <4>1. /\ mp \in Nat /\ mp <= p /\ p < mp + CounterRange /\ mp = CounterRange * qp
            /\ ms \in Nat /\ ms <= s /\ s < ms + CounterRange /\ ms = CounterRange * qs
        BY <1>1, LastMultipleIs
      <4>2. qp \in Nat /\ qs \in Nat /\ rp \in Nat /\ rs \in Nat /\ rp < CounterRange
            /\ rs < CounterRange
        BY <1>1, DivisionOf
      <4>3. rp = p - mp /\ rs = s - ms
        BY <4>1, <4>2 DEF LastMultiple
      <4>4. qp <= qs
        BY <1>1, <1>2, DivisionMonotone
      <4>5. ks = qs /\ kp = qp
        BY <1>6, <1>7, <2>2
      <4> HIDE DEF mp, ms, qp, qs, rp, rs, a, b, d, R, w
      <4>6. qs = qp + 1
        <5>1. qp < qs
          BY <3>3, <4>1, <4>2, <4>4 DEF mp, ms
        <5>2. ~(qp + 1 < qs)
          <6> SUFFICES ASSUME qp + 1 < qs PROVE FALSE
            OBVIOUS
          <6> DEFINE q1 == qp + 1
          <6>1. q1 \in Int /\ q1 < qs /\ CounterRange * q1 = mp + CounterRange
            BY <1>1, <4>1, <4>2
          <6> HIDE DEF q1
          <6>2. CounterRange * q1 + CounterRange <= CounterRange * qs
            BY <1>1, <4>2, <6>1, MultiplesApart
          <6> QED BY <1>1, <1>2, <4>1, <6>1, <6>2
        <5> QED BY <4>2, <5>1, <5>2
      <4>7. ms = mp + CounterRange
        BY <1>1, <4>1, <4>2, <4>6
      <4>8. rs < rp
        BY <1>1, <1>2, <4>1, <4>2, <4>3, <4>7
      <4>9. a - b = d - R
        BY <1>1, <1>5, <1>8, <4>2, <4>5, <4>6
      <4>10. a <= b /\ b \in 0 .. R - 1 /\ a \in Nat
        <5>1. rs \div w <= rp \div w
          BY <1>1, <4>2, <4>8, DivisionMonotone
        <5>2. rp \div w \in 0 .. R - 1
          BY <1>1, <3>1, <4>2, DivisionBelow DEF R
        <5>3. rs \div w \in Nat
          BY <1>1, <4>2, DivisionOf
        <5> QED BY <5>1, <5>2, <5>3 DEF a, b, rs, rp
      <4>11. d \in 1 .. R
        BY <1>1, <1>5, <4>9, <4>10
      <4> QED BY <4>8, <4>11 DEF rs, rp
    <3> QED BY <3>2, <3>3
  <2> QED BY <2>1, <2>2
<1> DEFINE to == s % CounterRange
           from == p % CounterRange
<1>11. Steps(DocumentedRatchet(p), j, to) =
         IF (a - b) % R = 0 /\ to < from THEN R ELSE (a - b) % R
  BY DEF Steps, DocumentedRatchet
<1>12. d \in Nat /\ to \in Nat /\ from \in Nat /\ R \in Nat \ {0, 1}
       /\ \/ d \in 0 .. R - 1 /\ from <= to
          \/ d \in 1 .. R /\ to < from
  BY <1>1, <1>3, <1>5, <1>10
<1> DEFINE x == (a - b) % R
<1>13. x = d % R
  BY <1>9
<1> HIDE DEF a, b, d, R, to, from, x
<1>14. d \in 0 .. R - 1 => x = d
  BY <1>12, <1>13
<1>15. d = R => x = 0
  BY <1>12, <1>13
<1>16. (IF x = 0 /\ to < from THEN R ELSE x) = d
  BY <1>12, <1>14, <1>15
<1> QED BY <1>5, <1>11, <1>16 DEF d, x, to

(* Part j hashed m times.                                                  *)
Times(m, j) == [n \in 1 .. m |-> j]

(* Hashed m times and once more.                                           *)
LEMMA OneMoreOf ==
    ASSUME NEW S, NEW v \in Seq(S), NEW j, NEW m \in Nat
    PROVE  Append(v \o Times(m, j), j) = v \o Times(m + 1, j)
<1> DEFINE U == S \cup {j}
           a == [n \in 1 .. m |-> j]
           b == [n \in 1 .. m + 1 |-> j]
<1>1. v \in Seq(U) /\ a \in Seq(U) /\ b \in Seq(U) /\ j \in U
  OBVIOUS
<1>2. Len(a) = m /\ Len(b) = m + 1 /\ \A i \in 1 .. m : a[i] = j
  OBVIOUS
<1>3. \A i \in 1 .. m + 1 : b[i] = j
  OBVIOUS
<1> HIDE DEF a, b, U
<1>4. v \o a \in Seq(U) /\ v \o b \in Seq(U)
  BY <1>1
<1>5. Append(v \o a, j) \in Seq(U) /\ Len(Append(v \o a, j)) = Len(v) + m + 1
  BY <1>1, <1>2, <1>4
<1>6. Len(v \o b) = Len(v) + m + 1
  BY <1>1, <1>2
<1>7. ASSUME NEW i \in 1 .. Len(v) + m + 1 PROVE Append(v \o a, j)[i] = (v \o b)[i]
  <2>1. CASE i = Len(v) + m + 1
    BY <1>1, <1>2, <1>3, <1>4, <2>1
  <2>2. CASE i \in Len(v) + 1 .. Len(v) + m
    BY <1>1, <1>2, <1>3, <1>4, <2>2
  <2>3. CASE i \in 1 .. Len(v)
    BY <1>1, <1>2, <1>4, <2>3
  <2>4. \/ i = Len(v) + m + 1
        \/ i \in Len(v) + 1 .. Len(v) + m
        \/ i \in 1 .. Len(v)
    <3>1. Len(v) \in Nat
      OBVIOUS
    <3> QED BY <3>1
  <2> QED BY <2>1, <2>2, <2>3, <2>4, Zenon
<1>8. \A s, t \in Seq(U) :
         Len(s) = Len(t) /\ (\A i \in 1 .. Len(s) : s[i] = t[i]) => s = t
  OBVIOUS
<1>9. Append(v \o a, j) = v \o b
  BY <1>4, <1>5, <1>6, <1>7, <1>8
<1> QED BY <1>9 DEF a, b, Times

(* Part j alone is hashed with every block of its weight on the way.       *)
LEMMA HashedAgain ==
    ASSUME NEW j \in Part, NEW p \in Nat, NEW s \in Nat, OnTheWay(j, p, s), NEW e \in Nat,
           LastMultiple(p, Weight(j)) + Weight(j) * e <= s
    PROVE  Documented[LastMultiple(p, Weight(j)) + Weight(j) * e][j]
             = Documented[p][j] \o Times(e, j)
<1> DEFINE w == Weight(j)
           b == LastMultiple(p, w)
           T == {m \in Nat : b + w * m <= s =>
                    Documented[b + w * m][j] = Documented[p][j] \o Times(m, j)}
<1>1. w \in Nat \ {0}
  BY WeightProperties
<1>2. b \in Nat /\ b <= p /\ p < b + w /\ b % w = 0
  BY <1>1, LastMultipleIs
<1>3. Documented[p][j] \in Seq(Part)
  BY DocumentedType
<1>4. \A m \in Nat : w * m \in Nat
  BY <1>1
<1>5. 0 \in T
  <2>1. LastMultiple(b, w) = b
    <3> HIDE DEF w, b
    <3>1. b \in Int /\ b <= b /\ b < b + w
      BY <1>1, <1>2
    <3> QED BY <1>1, <1>2, <3>1, LastMultipleIs, Zenon
  <2>2. Documented[b][j] = Documented[p][j]
    BY <1>2, <2>1, StandsStill
  <2>3. b + w * 0 = b
    BY <1>1, <1>2
  <2>4. Documented[p][j] \o Times(0, j) = Documented[p][j]
    BY <1>3 DEF Times
  <2> HIDE DEF b, w
  <2> QED BY <2>2, <2>3, <2>4
<1>6. ASSUME NEW m \in Nat, m \in T PROVE m + 1 \in T
  <2> DEFINE x == b + w * (m + 1)
  <2> SUFFICES ASSUME x <= s
               PROVE  Documented[x][j] = Documented[p][j] \o Times(m + 1, j)
    <3>1. m + 1 \in Nat
      OBVIOUS
    <3> QED BY <3>1, Zenon
  <2>1. x - w = b + w * m /\ x \in Nat \ {0} /\ p < x /\ w * m >= 0
    BY <1>1, <1>2, <1>4
  <2>2. x % w = 0
    <3>1. b % w = 0 /\ b \in Int /\ m + 1 \in Int
      BY <1>2
    <3>2. (b + w * (m + 1)) % w = b % w
      <4> DEFINE q == m + 1
      <4>1. q \in Int
        BY <3>1
      <4> HIDE DEF b, w, q
      <4>2. (b + w * q) % w = b % w
        BY <1>1, <3>1, <4>1, ModuloShift, Zenon
      <4> QED BY <4>2 DEF q
    <3> QED BY <3>1, <3>2
  <2>3. Documented[b + w * m][j] = Documented[p][j] \o Times(m, j)
    <3>1. b + w * m <= s
      BY <1>1, <1>2, <1>4, <2>1
    <3> QED BY <1>6, <3>1
  <2> HIDE DEF x, T, b
  <2>4. IsFirstDue(j, x)
    <3>1. x \in Nat
      BY <2>1
    <3> QED BY <2>1, <2>2, <3>1, DueOnTheWay
  <2>5. Documented[x][j] = Append(Documented[x - w][j], j)
    <3>1. j <= j
      BY DEF Part
    <3> QED BY <2>1, <2>4, <3>1, HashedFromDue
  <2> DEFINE v == Documented[p][j]
  <2>6. v \in Seq(Part)
    BY <1>3
  <2>7. Documented[x][j] = Append(v \o Times(m, j), j)
    BY <2>1, <2>3, <2>5
  <2> HIDE DEF v, w
  <2>8. Append(v \o Times(m, j), j) = v \o Times(m + 1, j)
    <3>1. m \in Nat
      OBVIOUS
    <3> QED BY <2>6, <3>1, OneMoreOf, Zenon
  <2> QED BY <2>7, <2>8 DEF v
<1> HIDE DEF T
<1>7. e \in T
  BY <1>5, <1>6, NatSetInduction
<1> QED BY <1>7 DEF T

(* One pass of the loop brings the ratchet to the last block of part j.    *)
LEMMA AdvancePartFollows ==
    ASSUME NEW j \in Part, NEW p \in Nat, NEW s \in Nat, OnTheWay(j, p, s)
    PROVE  \E r \in Nat : /\ p <= r /\ r <= s
                          /\ LastMultiple(s, Weight(j)) <= r
                          /\ AdvancePart(DocumentedRatchet(p), j, s % CounterRange)
                               = DocumentedRatchet(r)
<1> DEFINE w == Weight(j)
           C == CounterRange
           to == s % C
           d == (s \div w) - (p \div w)
           b == LastMultiple(p, w)
           r == LastMultiple(s, w)
<1>1. w \in Nat \ {0} /\ C \in Nat \ {0}
  BY WeightProperties
<1>2. Steps(DocumentedRatchet(p), j, to) = d /\ d \in Nat
  BY StepsCount
<1>3. p <= s
  BY DEF OnTheWay
<1>4. /\ b \in Nat /\ b <= p /\ p < b + w /\ b = w * (p \div w)
      /\ r \in Nat /\ r <= s /\ s < r + w /\ r = w * (s \div w) /\ r % w = 0
  BY <1>1, LastMultipleIs
<1>5. s \div w \in Nat /\ p \div w \in Nat
  BY <1>1, DivisionOf
<1>6. r = b + w * d
  BY <1>1, <1>4, <1>5
<1>7. CASE d = 0
  <2>1. AdvancePart(DocumentedRatchet(p), j, to) = DocumentedRatchet(p)
    BY <1>2, <1>7 DEF AdvancePart
  <2>2. r <= p
    <3> HIDE DEF b, r, d, w
    <3> QED BY <1>1, <1>4, <1>6, <1>7
  <2> QED BY <1>3, <2>1, <2>2
<1>8. CASE d # 0
  <2>1. /\ AdvancePart(DocumentedRatchet(p), j, to).counter = (to \div w) * w
        /\ AdvancePart(DocumentedRatchet(p), j, to) =
             [counter |-> (to \div w) * w,
              data |-> RehashFrom([Documented[p] EXCEPT
                                     ![j] = @ \o [n \in 1 .. d - 1 |-> j]], j)]
    <3> HIDE DEF d
    <3> QED BY <1>2, <1>8 DEF AdvancePart, DocumentedRatchet
  <2>2. p < r /\ r \in Nat \ {0} /\ r - w = b + w * (d - 1) /\ d - 1 \in Nat
        /\ r - w <= s
    <3> HIDE DEF b, r, d, w
    <3>1. w * d = w * (d - 1) + w /\ w * (d - 1) >= 0 /\ d - 1 \in Nat
      BY <1>1, <1>2, <1>8
    <3>2. w * (d - 1) \in Int
      BY <1>1, <3>1
    <3> QED BY <1>1, <1>2, <1>4, <1>6, <3>1, <3>2
  <2>3. IsFirstDue(j, r)
    BY <1>4, <2>2, DueOnTheWay
  <2>4. (to \div w) * w = r % C
    <3> DEFINE m == LastMultiple(s, C)
    <3>1. PICK k \in Nat \ {0} : C = k * PartRange * w
      BY WeightsDivide
    <3>2. k * PartRange \in Nat \ {0}
      BY PartRangeAssumption
    <3>3. LastMultiple(r, C) = m
      <4>1. r \in Nat /\ LastMultiple(s, w) <= r /\ r <= s
        BY <1>4
      <4> DEFINE k2 == k * PartRange
      <4>2. k2 \in Nat \ {0} /\ C = k2 * w
        BY <3>1, <3>2
      <4> HIDE DEF w, C, r, k2
      <4> QED BY <1>1, <4>1, <4>2, LastMultipleBetween
    <3>4. r % C \in Int /\ to \in Nat
      BY <1>1, <1>4, DivisionOf
    <3>5. r % C = r - m /\ to = s - m /\ m \in Nat
      <4>1. m \in Nat
        BY <1>1, LastMultipleIs
      <4> QED BY <1>4, <3>3, <3>4, <4>1 DEF LastMultiple
    <3>6. m % w = 0
      <4>1. m % C = 0 /\ m \in Int
        BY <1>1, LastMultipleIs
      <4> HIDE DEF m, w, C
      <4>2. \A x \in Int : x % C = 0 => x % w = 0
        BY <1>1, <3>1, <3>2, ModuloOfMultiple
      <4> QED BY <4>1, <4>2
    <3> HIDE DEF m, to
    <3>7. to % w = s % w
      <4>1. m \in Int /\ s \in Int
        BY <3>5
      <4>2. (s - m) % w = s % w
        <5> HIDE DEF w
        <5> QED BY <1>1, <3>6, <4>1, MultiplesAdd, Zenon
      <4> QED BY <3>5, <4>2
    <3>8. w * (to \div w) = to - (s % w)
      <4>1. LastMultiple(to, w) = w * (to \div w)
        <5> HIDE DEF w
        <5> QED BY <1>1, <3>4, LastMultipleIs
      <4> QED BY <3>7, <4>1 DEF LastMultiple
    <3>9. r = s - (s % w) /\ s % w \in Int /\ to \div w \in Int
      BY <1>1, <3>4, DivisionOf DEF LastMultiple
    <3> DEFINE x == s % w
               y == to \div w
    <3>10. x \in Int /\ y \in Int /\ w * y = to - x /\ r = s - x
      BY <3>8, <3>9
    <3> HIDE DEF x, y, r, w
    <3>11. y * w = w * y
      BY <1>1, <3>10
    <3> QED BY <1>4, <3>4, <3>5, <3>10, <3>11 DEF y
  <2>5. Documented[p] \in [Part -> Seq(Part)] /\ Documented[r] \in [Part -> Seq(Part)]
    BY <1>4, DocumentedType
  <2> DEFINE v == Documented[p][j] \o Times(d - 1, j)
             data == [Documented[p] EXCEPT ![j] = v]
  <2>6. Documented[r - w][j] = v
    <3>1. LastMultiple(p, w) + w * (d - 1) <= s
      BY <2>2
    <3>2. d - 1 \in Nat
      BY <2>2
    <3>3. Documented[LastMultiple(p, w) + w * (d - 1)][j] = v
      <4> HIDE DEF d
      <4> QED BY <3>1, <3>2, HashedAgain
    <3> QED BY <2>2, <3>3
  <2>7. ASSUME NEW i \in Part, i < j PROVE Documented[r][i] = Documented[p][i]
    <3>1. j - 1 \in Part /\ i <= j - 1 /\ j # 0
      BY <2>7, PartsAssumption DEF Part
    <3>2. PICK k \in Nat \ {0} : Weight(i) = k * Weight(j - 1)
      BY <3>1, WeightsDivide
    <3>3. Weight(i) \in Nat \ {0} /\ Weight(j - 1) \in Nat \ {0}
      BY <3>1, WeightProperties
    <3>4. LastMultiple(s, Weight(j - 1)) <= p /\ LastMultiple(s, Weight(j - 1)) <= r
          /\ LastMultiple(s, Weight(j - 1)) \in Nat
      <4>1. LastMultiple(s, Weight(j - 1)) \in Nat
        BY <3>3, LastMultipleIs
      <4>2. LastMultiple(s, Weight(j - 1)) <= p
        BY <3>1 DEF OnTheWay
      <4> HIDE DEF r
      <4> QED BY <1>4, <2>2, <4>1, <4>2
    <3> HIDE DEF r
    <3>5. LastMultiple(p, Weight(i)) = LastMultiple(s, Weight(i))
      BY <1>3, <3>2, <3>3, <3>4, LastMultipleBetween
    <3>6. LastMultiple(r, Weight(i)) = LastMultiple(s, Weight(i))
      BY <1>4, <3>2, <3>3, <3>4, LastMultipleBetween
    <3> QED BY <1>4, <3>5, <3>6, StandsStill
  <2>8. ASSUME NEW i \in Part, j <= i PROVE Documented[r][i] = Append(v, i)
    <3> HIDE DEF r, v
    <3>1. Documented[r][i] = Append(Documented[r - w][j], i)
      BY <2>2, <2>3, <2>8, HashedFromDue
    <3> QED BY <2>6, <3>1
  <2>9. DOMAIN data = Part /\ data[j] = v /\ \A i \in Part : i < j => data[i] = Documented[p][i]
    <3>1. \A i \in Part : i < j => i # j
      BY DEF Part
    <3> HIDE DEF v
    <3>2. DOMAIN data = Part /\ data[j] = v
      BY <2>5
    <3>3. \A i \in Part : i # j => data[i] = Documented[p][i]
      BY <2>5
    <3> QED BY <3>1, <3>2, <3>3
  <2>10. RehashFrom(data, j) = Documented[r]
    <3> HIDE DEF data, v, r
    <3>1. RehashFrom(data, j) =
            [i \in Part |-> IF i < j THEN data[i] ELSE Append(data[j], i)]
      BY <2>9, RehashFromIs
    <3>2. \A i \in Part : i < j \/ j <= i
      BY DEF Part
    <3>3. \A i \in Part : j <= i => ~(i < j)
      BY DEF Part
    <3>4. \A i \in Part : (IF i < j THEN data[i] ELSE Append(data[j], i)) = Documented[r][i]
      BY <2>7, <2>8, <2>9, <3>2, <3>3, Zenon
    <3> QED BY <2>5, <3>1, <3>4
  <2>11. AdvancePart(DocumentedRatchet(p), j, to) = DocumentedRatchet(r)
    <3>1. data = [Documented[p] EXCEPT ![j] = @ \o [n \in 1 .. d - 1 |-> j]]
      BY DEF Times
    <3> HIDE DEF data
    <3> QED BY <2>1, <2>4, <2>10, <3>1 DEF DocumentedRatchet
  <2>12. r \in Nat /\ p <= r /\ r <= s /\ LastMultiple(s, Weight(j)) <= r
    <3>1. LastMultiple(s, Weight(j)) = r
      OBVIOUS
    <3> HIDE DEF r
    <3> QED BY <1>4, <2>2, <3>1
  <2> HIDE DEF r
  <2> QED BY <2>11, <2>12
<1> QED BY <1>7, <1>8

(* The loop over the parts: f[k] is the ratchet after the first k of them. *)
LoopStep(f, megolm, advance_to, k) ==
    IF k = 0 THEN megolm ELSE AdvancePart(f[k - 1], k - 1, advance_to)

(* All values it goes through.                                             *)
LoopTable(f, megolm, advance_to, m) ==
    [k \in 0 .. m |-> LoopStep(f, megolm, advance_to, k)]

(* The loop has a result, by induction over its passes.                    *)
LEMMA LoopExists ==
    ASSUME NEW megolm, NEW advance_to
    PROVE  \A m \in Nat : \E f : f = LoopTable(f, megolm, advance_to, m)
<1> DEFINE S(f, k) == LoopStep(f, megolm, advance_to, k)
           T == {m \in Nat : \E f : f = [k \in 0 .. m |-> S(f, k)]}
<1>1. \A f, g, k : (k # 0 => f[k - 1] = g[k - 1]) => S(f, k) = S(g, k)
  BY Zenon DEF LoopStep
<1> HIDE DEF S
<1>2. 0 \in T
  <2> DEFINE f == [k \in 0 .. 0 |-> S(<<>>, k)]
  <2>1. \A k \in 0 .. 0 : S(<<>>, k) = S(f, k)
    <3>1. \A k \in 0 .. 0 : k = 0
      OBVIOUS
    <3> QED BY <1>1, <3>1, Zenon
  <2>2. f = [k \in 0 .. 0 |-> S(f, k)]
    <3> DEFINE g == [k \in 0 .. 0 |-> S(f, k)]
    <3>1. g = f
      BY <2>1, Zenon
    <3> QED BY <3>1
  <2> QED BY <2>2, Zenon
<1>3. ASSUME NEW m \in Nat, m \in T PROVE m + 1 \in T
  <2>1. PICK f : f = [k \in 0 .. m |-> S(f, k)]
    BY <1>3, Zenon
  <2> DEFINE g == [k \in 0 .. m + 1 |-> S(f, k)]
  <2>2. \A k \in 0 .. m : k \in 0 .. m + 1 /\ f[k] = S(f, k)
    BY <2>1
  <2>3. \A k \in 0 .. m : g[k] = f[k]
    BY <2>2
  <2>4. ASSUME NEW k \in 0 .. m + 1 PROVE S(g, k) = S(f, k)
    <3>1. k # 0 => k - 1 \in 0 .. m
      OBVIOUS
    <3>2. k # 0 => g[k - 1] = f[k - 1]
      BY <2>3, <3>1, Zenon
    <3> HIDE DEF g
    <3> QED BY <1>1, <3>2, Zenon
  <2>5. g = [k \in 0 .. m + 1 |-> S(g, k)]
    <3> DEFINE h == [k \in 0 .. m + 1 |-> S(g, k)]
    <3>1. h = g
      BY <2>4, Zenon
    <3> QED BY <3>1
  <2>6. \E h : h = [k \in 0 .. m + 1 |-> S(h, k)]
    BY <2>5, Zenon
  <2>7. m + 1 \in Nat
    OBVIOUS
  <2> QED BY <2>6, <2>7, Zenon
<1> HIDE DEF T
<1>4. Nat \subseteq T
  BY <1>2, <1>3, NatSetInduction
<1>5. \A m \in Nat : \E f : f = [k \in 0 .. m |-> S(f, k)]
  BY <1>4, Zenon DEF T
<1> QED BY <1>5, Zenon DEF S, LoopTable

(* megolm_advance_to is that loop.                                         *)
LEMMA LoopOfAdvanceTo ==
    ASSUME NEW megolm, NEW advance_to
    PROVE  \E f : /\ MegolmAdvanceTo(megolm, advance_to) = f[MEGOLM_RATCHET_PARTS]
                  /\ f[0] = megolm
                  /\ \A j \in Part : f[j + 1] = AdvancePart(f[j], j, advance_to)
<1> DEFINE N == MEGOLM_RATCHET_PARTS
           f == CHOOSE f : f = [k \in 0 .. N |-> LoopStep(f, megolm, advance_to, k)]
<1>1. N \in Nat
  BY PartsAssumption
<1>2. f = [k \in 0 .. N |-> LoopStep(f, megolm, advance_to, k)]
  <2>1. \E g : g = LoopTable(g, megolm, advance_to, N)
    BY <1>1, LoopExists, Zenon
  <2> QED BY <2>1, Zenon DEF LoopTable
<1>3. MegolmAdvanceTo(megolm, advance_to) = f[N]
  BY Zenon DEF MegolmAdvanceTo, LoopStep
<1> HIDE DEF f
<1>4. \A k \in 0 .. N : f[k] = LoopStep(f, megolm, advance_to, k)
  BY <1>2, Zenon
<1>5. f[0] = megolm
  <2>1. 0 \in 0 .. N
    BY <1>1
  <2> QED BY <1>4, <2>1, Zenon DEF LoopStep
<1>6. ASSUME NEW j \in Part PROVE f[j + 1] = AdvancePart(f[j], j, advance_to)
  <2>1. j + 1 \in 0 .. N /\ j + 1 # 0 /\ (j + 1) - 1 = j
    BY <1>1 DEF Part
  <2>2. f[j + 1] = LoopStep(f, megolm, advance_to, j + 1)
    BY <1>4, <2>1
  <2>3. LoopStep(f, megolm, advance_to, j + 1)
          = AdvancePart(f[(j + 1) - 1], (j + 1) - 1, advance_to)
    BY <2>1, Zenon DEF LoopStep
  <2> QED BY <2>1, <2>2, <2>3, Zenon
<1> QED BY <1>3, <1>5, <1>6

(* megolm_advance_to takes the documented ratchet to any later documented  *)
(* ratchet that is less than a full round ahead, whether or not the        *)
(* counter wraps on the way.  The loop invariant: the pass for part k      *)
(* leaves a documented ratchet between the first one and the one asked     *)
(* for, no earlier than the last change of part k.                         *)
THEOREM AdvanceToFollowsDocument ==
    ASSUME NEW p \in Nat, NEW s \in Nat, p <= s, s < p + CounterRange
    PROVE  MegolmAdvanceTo(DocumentedRatchet(p), s % CounterRange) = DocumentedRatchet(s)
<1> DEFINE N == MEGOLM_RATCHET_PARTS
           to == s % CounterRange
           Reached(k, r) == /\ r \in Nat /\ p <= r /\ r <= s
                            /\ k # 0 => LastMultiple(s, Weight(k - 1)) <= r
<1>1. N \in Nat \ {0} /\ CounterRange \in Nat \ {0}
  BY PartsAssumption, WeightProperties
<1>2. PICK f : /\ MegolmAdvanceTo(DocumentedRatchet(p), to) = f[N]
               /\ f[0] = DocumentedRatchet(p)
               /\ \A j \in Part : f[j + 1] = AdvancePart(f[j], j, to)
  <2> DEFINE m == DocumentedRatchet(p)
  <2> HIDE DEF m, to
  <2>1. \E f : /\ MegolmAdvanceTo(m, to) = f[MEGOLM_RATCHET_PARTS]
               /\ f[0] = m
               /\ \A j \in Part : f[j + 1] = AdvancePart(f[j], j, to)
    BY LoopOfAdvanceTo
  <2> QED BY <2>1 DEF m
<1> DEFINE T == {k \in Nat : k <= N => \E r \in Nat : Reached(k, r) /\ f[k] = DocumentedRatchet(r)}
<1>3. 0 \in T
  <2>1. Reached(0, p) /\ f[0] = DocumentedRatchet(p)
    BY <1>2
  <2> HIDE DEF Reached
  <2> QED BY <2>1
<1>4. ASSUME NEW k \in Nat, k \in T PROVE k + 1 \in T
  <2> SUFFICES ASSUME k + 1 <= N
               PROVE  \E r \in Nat : Reached(k + 1, r) /\ f[k + 1] = DocumentedRatchet(r)
    <3>1. k + 1 \in Nat
      OBVIOUS
    <3> QED BY <3>1, Zenon
  <2>1. k \in Part /\ k <= N
    BY <1>1 DEF Part
  <2>2. PICK q \in Nat : Reached(k, q) /\ f[k] = DocumentedRatchet(q)
    BY <1>4, <2>1
  <2>3. OnTheWay(k, q, s)
    BY <1>1, <2>2 DEF OnTheWay
  <2>4. PICK r \in Nat : /\ q <= r /\ r <= s
                         /\ LastMultiple(s, Weight(k)) <= r
                         /\ AdvancePart(DocumentedRatchet(q), k, to) = DocumentedRatchet(r)
    BY <2>1, <2>3, AdvancePartFollows
  <2>5. f[k + 1] = DocumentedRatchet(r)
    BY <1>2, <2>1, <2>2, <2>4
  <2>6. Reached(k + 1, r)
    <3>1. (k + 1) - 1 = k
      OBVIOUS
    <3> QED BY <2>2, <2>4, <3>1
  <2> HIDE DEF Reached
  <2> QED BY <2>5, <2>6
<1>5. N \in T
  <2> HIDE DEF T
  <2> QED BY <1>1, <1>3, <1>4, NatSetInduction
<1>6. PICK r \in Nat : Reached(N, r) /\ f[N] = DocumentedRatchet(r)
  BY <1>1, <1>5
<1>7. r = s
  <2>1. Weight(N - 1) = 1 /\ N # 0
    BY <1>1, WeightProperties
  <2>2. LastMultiple(s, 1) = s
    BY DEF LastMultiple
  <2> QED BY <1>6, <2>1, <2>2
<1> QED BY <1>2, <1>6, <1>7

-----------------------------------------------------------------------------
(* What cannot be computed from a later ratchet.                           *)

(* IsPrefix, element by element.                                           *)
LEMMA PrefixElements ==
    ASSUME NEW S, NEW u \in Seq(S), NEW v \in Seq(S)
    PROVE  IsPrefix(u, v) <=> /\ Len(u) <= Len(v)
                              /\ \A i \in 1 .. Len(u) : u[i] = v[i]
<1>1. Len(u) \in Nat /\ Len(v) \in Nat
  OBVIOUS
<1>2. SubSeq(u, 1, Len(u)) = u
  OBVIOUS
<1>3. CASE Len(u) <= Len(v)
  <2>1. SubSeq(v, 1, Len(u)) \in Seq(S) /\ Len(SubSeq(v, 1, Len(u))) = Len(u)
    BY <1>1, <1>3
  <2>2. \A i \in 1 .. Len(u) : SubSeq(v, 1, Len(u))[i] = v[i]
    BY <1>1, <1>3
  <2> DEFINE t == SubSeq(v, 1, Len(u))
  <2> HIDE DEF t
  <2>3. u = t <=> \A i \in 1 .. Len(u) : u[i] = t[i]
    BY <2>1 DEF t
  <2> QED BY <1>2, <1>3, <2>2, <2>3 DEF IsPrefix, t
<1>4. CASE ~(Len(u) <= Len(v))
  BY <1>4 DEF IsPrefix
<1> QED BY <1>3, <1>4

(* The elements of a sequence with one appended.                           *)
LEMMA AppendElements ==
    ASSUME NEW S, NEW v \in Seq(S), NEW a \in S
    PROVE  /\ Append(v, a) \in Seq(S)
           /\ Len(v) \in Nat
           /\ Len(Append(v, a)) = Len(v) + 1
           /\ \A i \in 1 .. Len(v) : Append(v, a)[i] = v[i]
           /\ Append(v, a)[Len(v) + 1] = a
  OBVIOUS

(* Hashing a value once more never makes it a prefix of one it was not a   *)
(* prefix of, and no longer of itself.                                     *)
LEMMA PrefixOfHashed ==
    ASSUME NEW S, NEW u \in Seq(S), NEW v \in Seq(S), NEW a \in S, NEW b \in S
    PROVE  /\ IsPrefix(Append(u, a), v) => IsPrefix(u, v)
           /\ ~IsPrefix(Append(v, a), v)
           /\ IsPrefix(u, Append(v, a)) => IsPrefix(u, v) \/ IsPrefix(v, u)
           /\ a # b => ~IsPrefix(Append(v, a), Append(v, b))
           /\ IsPrefix(v, v)
<1> DEFINE ua == Append(u, a)
           va == Append(v, a)
           vb == Append(v, b)
<1>1. /\ ua \in Seq(S) /\ Len(ua) = Len(u) + 1 /\ \A i \in 1 .. Len(u) : ua[i] = u[i]
      /\ va \in Seq(S) /\ Len(va) = Len(v) + 1 /\ \A i \in 1 .. Len(v) : va[i] = v[i]
      /\ vb \in Seq(S) /\ Len(vb) = Len(v) + 1 /\ vb[Len(v) + 1] = b
      /\ va[Len(v) + 1] = a
      /\ Len(u) \in Nat /\ Len(v) \in Nat
  BY AppendElements
<1> HIDE DEF ua, va, vb
<1>2. \A s, t \in Seq(S) : IsPrefix(s, t) <=>
         Len(s) <= Len(t) /\ \A i \in 1 .. Len(s) : s[i] = t[i]
  BY PrefixElements
<1>3. ASSUME IsPrefix(ua, v) PROVE IsPrefix(u, v)
  <2>1. Len(ua) <= Len(v) /\ \A i \in 1 .. Len(ua) : ua[i] = v[i]
    BY <1>1, <1>2, <1>3
  <2>2. Len(u) <= Len(v) /\ \A i \in 1 .. Len(u) : u[i] = v[i]
    <3>1. \A i \in 1 .. Len(u) : i \in 1 .. Len(ua) /\ ua[i] = u[i]
      BY <1>1
    <3>2. \A i \in 1 .. Len(u) : u[i] = v[i]
      BY <2>1, <3>1
    <3> QED BY <1>1, <2>1, <3>2
  <2> QED BY <1>2, <2>2
<1>4. ~IsPrefix(va, v)
  BY <1>1, <1>2
<1>5. ASSUME IsPrefix(u, va) PROVE IsPrefix(u, v) \/ IsPrefix(v, u)
  <2>1. Len(u) <= Len(v) + 1 /\ \A i \in 1 .. Len(u) : u[i] = va[i]
    BY <1>1, <1>2, <1>5
  <2>2. CASE Len(u) <= Len(v)
    BY <1>1, <1>2, <2>1, <2>2
  <2>3. CASE Len(u) = Len(v) + 1
    BY <1>1, <1>2, <2>1, <2>3
  <2> QED BY <1>1, <2>1, <2>2, <2>3
<1>6. ASSUME a # b PROVE ~IsPrefix(va, vb)
  <2>1. Len(v) + 1 \in 1 .. Len(va)
    BY <1>1
  <2> QED BY <1>1, <1>2, <1>6, <2>1
<1>7. IsPrefix(v, v)
  BY <1>1, <1>2
<1> QED BY <1>3, <1>4, <1>5, <1>6, <1>7 DEF ua, va, vb

(* No value of the ratchet can be hashed into another one of the same      *)
(* time.                                                                   *)
LEMMA Antichain ==
    ASSUME NEW n \in Nat, NEW k \in Part, NEW g \in Part, k # g
    PROVE  ~IsPrefix(Documented[n][k], Documented[n][g])
<1> DEFINE T == {m \in Nat : \A i, j \in Part :
                    i # j => ~IsPrefix(Documented[m][i], Documented[m][j])}
<1>1. 0 \in T
  <2>1. \A j \in Part : Documented[0][j] = <<j>>
    BY DocumentedAtStart
  <2>2. ASSUME NEW i \in Part, NEW j \in Part, i # j PROVE ~IsPrefix(<<i>>, <<j>>)
    <3>1. <<i>> \in Seq(Part) /\ <<j>> \in Seq(Part) /\ Len(<<i>>) = 1 /\ <<i>>[1] = i /\ <<j>>[1] = j
      OBVIOUS
    <3> DEFINE u == <<i>>
               v == <<j>>
    <3>2. u \in Seq(Part) /\ v \in Seq(Part) /\ 1 \in 1 .. Len(u) /\ u[1] # v[1]
      BY <2>2, <3>1
    <3> HIDE DEF u, v
    <3>3. ~IsPrefix(u, v)
      BY <3>2, PrefixElements
    <3> QED BY <3>3 DEF u, v
  <2> QED BY <2>1, <2>2
<1>2. ASSUME NEW m \in Nat, m \in T PROVE m + 1 \in T
  <2>0. m + 1 \in Nat
    OBVIOUS
  <2> SUFFICES ASSUME NEW i \in Part, NEW j \in Part, i # j
               PROVE  ~IsPrefix(Documented[m + 1][i], Documented[m + 1][j])
    BY <2>0, Zenon
  <2> DEFINE o == Documented[m]
             h == PartDue(m + 1)
  <2>1. o \in [Part -> Seq(Part)] /\ h \in Part
    <3>1. IsFirstDue(h, m + 1)
      BY PartDueIs
    <3> QED BY <3>1, DocumentedType DEF IsFirstDue
  <2>2. \A x \in Part : Documented[m + 1][x] = IF x < h THEN o[x] ELSE Append(o[h], x)
    BY DocumentedNext
  <2>3. \A x, y \in Part : x # y => ~IsPrefix(o[x], o[y])
    BY <1>2
  <2> HIDE DEF o, h
  <2>4. \A x \in Part : o[x] \in Seq(Part)
    BY <2>1
  <2>5. i < h => i # h
    BY <2>1 DEF Part
  <2>6. j < h => j # h
    BY <2>1 DEF Part
  <2>7. CASE i < h /\ j < h
    BY <2>2, <2>3, <2>7
  <2>8. CASE i < h /\ ~(j < h)
    <3>1. /\ Documented[m + 1][i] = o[i] /\ Documented[m + 1][j] = Append(o[h], j)
          /\ ~IsPrefix(o[i], o[h]) /\ ~IsPrefix(o[h], o[i])
      BY <2>1, <2>2, <2>3, <2>5, <2>8
    <3> QED BY <2>1, <2>4, <3>1, PrefixOfHashed
  <2>9. CASE ~(i < h) /\ j < h
    <3>1. /\ Documented[m + 1][i] = Append(o[h], i) /\ Documented[m + 1][j] = o[j]
          /\ ~IsPrefix(o[h], o[j])
      BY <2>1, <2>2, <2>3, <2>6, <2>9
    <3> QED BY <2>1, <2>4, <3>1, PrefixOfHashed
  <2>10. CASE ~(i < h) /\ ~(j < h)
    <3>1. /\ Documented[m + 1][i] = Append(o[h], i)
          /\ Documented[m + 1][j] = Append(o[h], j)
      BY <2>2, <2>10
    <3> QED BY <2>1, <2>4, <3>1, PrefixOfHashed
  <2> QED BY <2>7, <2>8, <2>9, <2>10
<1> HIDE DEF T
<1>3. n \in T
  BY <1>1, <1>2, NatSetInduction
<1> QED BY <1>3 DEF T

(* Forward secrecy: a value that is hashed on cannot be computed from what *)
(* the ratchet becomes, ever after.                                        *)
LEMMA NoValueBefore ==
    ASSUME NEW i \in Nat, NEW m \in Nat, i < m
    PROVE  \A k \in Part : ~IsPrefix(Documented[m][k], Documented[i][PartDue(i + 1)])
<1> DEFINE h == PartDue(i + 1)
           x == Documented[i][h]
           T == {d \in Nat : \A k \in Part : ~IsPrefix(Documented[(i + 1) + d][k], x)}
<1>0. h \in Part
  <2>1. IsFirstDue(h, i + 1)
    BY PartDueIs
  <2> QED BY <2>1 DEF IsFirstDue
<1>1. x \in Seq(Part)
  BY <1>0, DocumentedType
<1>2. 0 \in T
  <2>1. (i + 1) + 0 = i + 1
    OBVIOUS
  <2>2. ASSUME NEW k \in Part PROVE ~IsPrefix(Documented[i + 1][k], x)
    <3>1. CASE k < h
      <4>1. Documented[i + 1][k] = Documented[i][k] /\ k # h
        BY <1>0, <3>1, DocumentedNext DEF Part
      <4> QED BY <1>0, <4>1, Antichain
    <3>2. CASE ~(k < h)
      <4>1. Documented[i + 1][k] = Append(x, k)
        BY <3>2, DocumentedNext
      <4> HIDE DEF x
      <4> QED BY <1>1, <4>1, PrefixOfHashed
    <3> QED BY <3>1, <3>2
  <2> HIDE DEF x
  <2> QED BY <2>1, <2>2
<1>3. ASSUME NEW d \in Nat, d \in T PROVE d + 1 \in T
  <2> DEFINE e == (i + 1) + d
             g == PartDue(e + 1)
  <2>1. e \in Nat /\ (i + 1) + (d + 1) = e + 1 /\ d + 1 \in Nat
    OBVIOUS
  <2>2. \A k \in Part : ~IsPrefix(Documented[e][k], x)
    BY <1>3
  <2> HIDE DEF x, e
  <2>3. Documented[e] \in [Part -> Seq(Part)] /\ g \in Part
    <3>1. IsFirstDue(g, e + 1)
      BY <2>1, PartDueIs
    <3> QED BY <2>1, <3>1, DocumentedType DEF IsFirstDue
  <2>4. ASSUME NEW k \in Part PROVE ~IsPrefix(Documented[e + 1][k], x)
    <3>1. Documented[e + 1][k] = IF k < g THEN Documented[e][k] ELSE Append(Documented[e][g], k)
      BY <2>1, DocumentedNext
    <3> HIDE DEF g
    <3>2. Documented[e][g] \in Seq(Part)
      BY <2>3
    <3>3. ~IsPrefix(Append(Documented[e][g], k), x)
      BY <1>1, <2>2, <2>3, <3>2, PrefixOfHashed
    <3> QED BY <2>2, <3>1, <3>3
  <2> QED BY <2>1, <2>4
<1> HIDE DEF T
<1>4. m - (i + 1) \in Nat /\ (i + 1) + (m - (i + 1)) = m
  OBVIOUS
<1>5. m - (i + 1) \in T
  BY <1>2, <1>3, <1>4, NatSetInduction
<1> QED BY <1>4, <1>5 DEF T

(* Nobody who knows values of later ratchets can compute an earlier one.   *)
THEOREM NotComputable ==
    ASSUME NEW i \in Nat, NEW known,
           \A v \in known : \E m \in Nat, k \in Part : i < m /\ v = Documented[m][k]
    PROVE  ~RatchetComputable(known, Documented[i])
<1>1. PartDue(i + 1) \in Part
  <2>1. IsFirstDue(PartDue(i + 1), i + 1)
    BY PartDueIs
  <2> QED BY <2>1 DEF IsFirstDue
<1>2. \A v \in known : ~IsPrefix(v, Documented[i][PartDue(i + 1)])
  BY NoValueBefore
<1> QED BY <1>1, <1>2, Zenon DEF RatchetComputable, HashableFrom

-----------------------------------------------------------------------------
(* Ratchets of any random data: what the passes do to their type.          *)

(* A set of values that hashing does not lead out of, and ratchets of such *)
(* values.                                                                 *)
Closed(S, V) ==
    /\ V \subseteq Seq(S)
    /\ Part \subseteq S
    /\ \A v \in V : \A j \in Part : Append(v, j) \in V

RatchetOf(V) == [counter : Counter, data : [Part -> V]]

(* Hashing any number of times does not lead out of a closed set.          *)
LEMMA TimesStays ==
    ASSUME NEW S, NEW V, Closed(S, V), NEW v \in V, NEW j \in Part, NEW m \in Nat
    PROVE  v \o Times(m, j) \in V
<1> DEFINE T == {n \in Nat : v \o Times(n, j) \in V}
<1>1. v \in Seq(S) /\ \A u \in V : Append(u, j) \in V
  BY DEF Closed
<1>2. 0 \in T
  <2>1. v \o Times(0, j) = v
    BY <1>1 DEF Times
  <2> QED BY <2>1
<1>3. ASSUME NEW n \in Nat, n \in T PROVE n + 1 \in T
  <2>1. Append(v \o Times(n, j), j) \in V
    BY <1>1, <1>3
  <2>2. Append(v \o Times(n, j), j) = v \o Times(n + 1, j)
    BY <1>1, OneMoreOf, Zenon
  <2> QED BY <2>1, <2>2
<1> HIDE DEF T
<1>4. m \in T
  BY <1>2, <1>3, NatSetInduction
<1> QED BY <1>4 DEF T

(* Nor does a pass of megolm_advance_to for one part, whatever the         *)
(* ratchet and the counter it is taken to: the calls need not agree with   *)
(* the documented ratchets, as with an imported key they do not.           *)
LEMMA AdvancePartStays ==
    ASSUME NEW S, NEW V, Closed(S, V), NEW megolm \in RatchetOf(V), NEW j \in Part,
           NEW advance_to \in Counter
    PROVE  AdvancePart(megolm, j, advance_to) \in RatchetOf(V)
<1> DEFINE w == Weight(j)
           steps == Steps(megolm, j, advance_to)
<1>1. /\ w \in Nat \ {0} /\ CounterRange \in Nat \ {0} /\ PartRange \in Nat \ {0, 1}
      /\ advance_to \in Nat /\ advance_to < CounterRange
  BY WeightProperties, PartRangeAssumption DEF Counter
<1>2. steps \in Nat
  <2> DEFINE d == (advance_to \div w) - (megolm.counter \div w)
  <2>1. megolm.counter \in Int
    BY <1>1 DEF RatchetOf, Counter
  <2>2. d \in Int
    BY <1>1, <2>1, DivisionOf
  <2> HIDE DEF d
  <2>3. d % PartRange \in Nat
    BY <1>1, <2>2, DivisionOf
  <2> QED BY <1>1, <2>3 DEF Steps, d
<1>3. CASE steps = 0
  BY <1>3 DEF AdvancePart
<1>4. CASE steps # 0
  <2> DEFINE v == megolm.data[j] \o Times(steps - 1, j)
             data == [megolm.data EXCEPT ![j] = v]
             counter == (advance_to \div w) * w
  <2>1. megolm.data \in [Part -> V] /\ megolm.data[j] \in V
    BY DEF RatchetOf
  <2>2. steps - 1 \in Nat
    BY <1>2, <1>4
  <2>3. v \in V
    <3> HIDE DEF steps
    <3> QED BY <2>1, <2>2, TimesStays
  <2> HIDE DEF v
  <2>4. data \in [Part -> V]
    BY <2>1, <2>3
  <2>5. RehashFrom(data, j) \in [Part -> V]
    <3> HIDE DEF data
    <3>1. DOMAIN data = Part /\ data[j] \in V
      BY <2>4
    <3>2. RehashFrom(data, j) =
            [i \in Part |-> IF i < j THEN data[i] ELSE Append(data[j], i)]
      BY <3>1, RehashFromIs
    <3>3. \A i \in Part : data[i] \in V /\ Append(data[j], i) \in V
      BY <2>4, <3>1 DEF Closed
    <3> QED BY <3>2, <3>3
  <2>6. counter \in Counter
    <3>1. LastMultiple(advance_to, w) \in Nat /\ LastMultiple(advance_to, w) <= advance_to
          /\ LastMultiple(advance_to, w) = w * (advance_to \div w)
      BY <1>1, LastMultipleIs
    <3>2. advance_to \div w \in Nat
      BY <1>1, DivisionOf
    <3> DEFINE q == advance_to \div w
    <3>3. counter = LastMultiple(advance_to, w)
      <4>1. q \in Int /\ LastMultiple(advance_to, w) = w * q /\ counter = q * w
        BY <3>1, <3>2
      <4> HIDE DEF q, counter, w
      <4> QED BY <1>1, <4>1
    <3> HIDE DEF counter, w
    <3> QED BY <1>1, <3>1, <3>3 DEF Counter
  <2>7. AdvancePart(megolm, j, advance_to) =
          [counter |-> counter, data |-> RehashFrom(data, j)]
    <3>1. data = [megolm.data EXCEPT ![j] = @ \o [n \in 1 .. steps - 1 |-> j]]
      BY DEF Times, v
    <3> HIDE DEF data, steps
    <3> QED BY <1>4, <3>1 DEF AdvancePart, steps
  <2> HIDE DEF counter, data
  <2> QED BY <2>5, <2>6, <2>7 DEF RatchetOf
<1> QED BY <1>3, <1>4

(* Nor does megolm_advance_to.                                             *)
LEMMA AdvanceToStays ==
    ASSUME NEW S, NEW V, Closed(S, V), NEW megolm \in RatchetOf(V),
           NEW advance_to \in Counter
    PROVE  MegolmAdvanceTo(megolm, advance_to) \in RatchetOf(V)
<1> DEFINE N == MEGOLM_RATCHET_PARTS
<1>1. N \in Nat
  BY PartsAssumption
<1>2. PICK f : /\ MegolmAdvanceTo(megolm, advance_to) = f[N]
               /\ f[0] = megolm
               /\ \A j \in Part : f[j + 1] = AdvancePart(f[j], j, advance_to)
  BY LoopOfAdvanceTo
<1> DEFINE T == {k \in Nat : k <= N => f[k] \in RatchetOf(V)}
<1>3. 0 \in T
  BY <1>2
<1>4. ASSUME NEW k \in Nat, k \in T PROVE k + 1 \in T
  <2> SUFFICES ASSUME k + 1 <= N PROVE f[k + 1] \in RatchetOf(V)
    <3>1. k + 1 \in Nat
      OBVIOUS
    <3> QED BY <3>1, Zenon
  <2>1. k \in Part /\ k <= N
    BY <1>1 DEF Part
  <2>2. f[k] \in RatchetOf(V)
    BY <1>4, <2>1
  <2> QED BY <1>2, <2>1, <2>2, AdvancePartStays
<1>5. N \in T
  <2> HIDE DEF T
  <2> QED BY <1>1, <1>3, <1>4, NatSetInduction
<1> QED BY <1>1, <1>2, <1>5
=============================================================================

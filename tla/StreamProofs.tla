----------------------------- MODULE StreamProofs ----------------------------
(***************************************************************************)
(* What goes on at the two ends of a stream of bytes, for every width of a *)
(* byte and of a long: how longs are encoded, what a BinaryWriter leaves,  *)
(* what a BinaryReader gives, and what the calls of an ArrayReader do to   *)
(* it, whatever the bytes.                                                 *)
(***************************************************************************)
EXTENDS ArrayReader, SequencesExt, SequenceTheorems, WellFoundedInduction, TLAPS

-----------------------------------------------------------------------------
(***************************************************************************)
(* Longs and their encoding.                                               *)
(***************************************************************************)

\* There is at least one nonnegative long, and one byte more holds every long.
LEMMA HalfIsPositive == Half \in Nat \ {0} /\ Weight[MaxLen] = Base * Half
<1>1. MaxLen - 1 \in 0 .. MaxLen /\ MaxLen \in 1 .. MaxLen
  BY VarintAssumption
<1> QED
  BY <1>1, VarintAssumption DEF Half

\* And one is not the only one: Half is a product with Base.
LEMMA HalfExceedsOne == Half > 1
<1>1. \A b \in Nat \ {0, 1}, w \in Nat \ {0} : b * w > 1
  <2> SUFFICES ASSUME NEW b \in Nat \ {0, 1}, NEW w \in Nat \ {0} PROVE b * w > 1
    OBVIOUS
  <2>1. b * w = (b - 1) * w + w /\ (b - 1) * w >= w
    <3>1. (b - 2) * w \in Nat
      OBVIOUS
    <3> QED
      BY <3>1
  <2> QED
    BY <2>1
<1>2. MaxLen - 1 \in 1 .. MaxLen /\ MaxLen - 2 \in 0 .. MaxLen /\ (MaxLen - 1) - 1 = MaxLen - 2
  BY VarintAssumption
<1>3. Half = Base * Weight[MaxLen - 2] /\ Weight[MaxLen - 2] \in Nat \ {0}
  BY <1>2, VarintAssumption DEF Half
<1>4. Base \in Nat \ {0, 1}
  BY VarintAssumption
<1> QED
  BY <1>1, <1>3, <1>4

\* int64 arithmetic gives an int64.
LEMMA WrapIsLong == ASSUME NEW n \in Int PROVE Wrap(n) \in Long
<1>1. (n + Half) % (2 * Half) \in 0 .. (2 * Half - 1)
  BY HalfIsPositive
<1> QED
  BY <1>1, HalfIsPositive DEF Wrap, Long

\* ... and changes nothing that already is one.
LEMMA WrapOfLong == ASSUME NEW n \in Long PROVE Wrap(n) = n
<1>1. n + Half \in 0 .. (2 * Half - 1)
  BY HalfIsPositive DEF Long
<1>2. \A a \in Nat, m \in Nat \ {0} : a < m => a % m = a
  OBVIOUS
<1>3. (n + Half) % (2 * Half) = n + Half
  BY <1>1, <1>2, HalfIsPositive
<1> QED
  BY <1>3, HalfIsPositive DEF Wrap, Long

(***************************************************************************)
(* Zigzag maps the longs one to one onto the unsigned longs: what ReadLong *)
(* undoes is what WriteLong did, for both signs and at both ends.          *)
(***************************************************************************)
THEOREM ZigZagIsInverse ==
  /\ \A l \in Long : ZigZag(l) \in ULong /\ UnZigZag(ZigZag(l)) = l
  /\ \A u \in ULong : UnZigZag(u) \in Long /\ ZigZag(UnZigZag(u)) = u
<1>1. ASSUME NEW l \in Long
      PROVE  ZigZag(l) \in ULong /\ UnZigZag(ZigZag(l)) = l
  <2>1. CASE l >= 0
    <3>1. (2 * l) % 2 = 0 /\ (2 * l) \div 2 = l
      BY <2>1 DEF Long
    <3> QED
      BY <2>1, <3>1, HalfIsPositive DEF Long, ULong, ZigZag, UnZigZag
  <2>2. CASE ~(l >= 0)
    <3>1. (-(2 * l) - 1) % 2 = 1 /\ (-(2 * l) - 1) \div 2 = -l - 1
      BY <2>2, HalfIsPositive DEF Long
    <3> QED
      BY <2>2, <3>1, HalfIsPositive DEF Long, ULong, ZigZag, UnZigZag
  <2> QED
    BY <2>1, <2>2
<1>2. ASSUME NEW u \in ULong
      PROVE  UnZigZag(u) \in Long /\ ZigZag(UnZigZag(u)) = u
  <2>1. /\ u \in Nat /\ u < 2 * Half
        /\ u = 2 * (u \div 2) + (u % 2)
        /\ u % 2 \in {0, 1}
        /\ u \div 2 \in Nat
    BY HalfIsPositive DEF ULong
  <2> QED
    BY <2>1, HalfIsPositive DEF Long, ZigZag, UnZigZag
<1> QED
  BY <1>1, <1>2

\* A nonempty set of numbers has a least one, so Min is that number.
LEMMA MinOfNats ==
  ASSUME NEW S \in SUBSET Nat, S # {}
  PROVE  Min(S) \in S /\ \A n \in S : Min(S) <= n
<1> DEFINE Less == OpToRel(<, Nat)
<1>1. \A a, b \in Nat : a < b => <<a, b>> \in Less
  BY DEF OpToRel
<1>2. IsWellFoundedOn(Less, Nat)
  BY NatLessThanWellFounded
<1> HIDE DEF Less
<1>3. PICK m \in S : \A n \in S : <<n, m>> \notin Less
  BY <1>2, WFMin
<1>4. \A n \in S : m <= n
  <2> TAKE n \in S
  <2>1. ~(n < m)
    BY <1>1, <1>3
  <2> QED
    BY <2>1
<1>5. \E k \in S : \A n \in S : k <= n
  BY <1>4
<1> QED
  BY <1>5 DEF Min

\* Every unsigned long fits in the groups GroupCount gives it.
LEMMA GroupCountFits ==
  ASSUME NEW u \in ULong
  PROVE  GroupCount(u) \in 1 .. MaxLen /\ u < Weight[GroupCount(u)]
<1> DEFINE fitting == {n \in 1 .. MaxLen : u < Weight[n]}
<1>1. MaxLen \in fitting
  <2>1. \A b \in Nat \ {0, 1}, h \in Nat : 2 * h <= b * h
    OBVIOUS
  <2>2. 2 * Half <= Weight[MaxLen]
    BY <2>1, HalfIsPositive, VarintAssumption
  <2>3. u \in Int /\ u < 2 * Half
    BY HalfIsPositive DEF ULong
  <2>4. MaxLen \in 1 .. MaxLen /\ Weight[MaxLen] \in Nat
    BY VarintAssumption
  <2>5. u < Weight[MaxLen]
    BY <2>2, <2>3, <2>4, HalfIsPositive
  <2> QED
    BY <2>4, <2>5
<1>2. fitting # {}
  BY <1>1
<1>3. fitting \in SUBSET Nat
  <2>1. 1 .. MaxLen \subseteq Nat
    BY VarintAssumption
  <2> QED
    BY <2>1
<1>4. Min(fitting) \in fitting
  BY <1>2, <1>3, MinOfNats
<1> QED
  BY <1>4 DEF GroupCount

\* The encoding of a long is one byte at least, and MaxLen at most.
LEMMA PutVarintIsBytes ==
  ASSUME NEW l \in Long
  PROVE  PutVarint(l) \in Seq(Byte) /\ Len(PutVarint(l)) \in 1 .. MaxLen
<1> DEFINE u == ZigZag(l)
           n == GroupCount(u)
           group(i) == (u \div Weight[i - 1]) % Base
<1>1. u \in ULong /\ n \in 1 .. MaxLen /\ n \in Nat
  BY ZigZagIsInverse, GroupCountFits, VarintAssumption
<1>2. ASSUME NEW i \in 1 .. n
      PROVE  group(i) \in 0 .. (Base - 1)
  <2> HIDE DEF u, n
  <2>1. i - 1 \in 0 .. MaxLen
    BY <1>1, VarintAssumption
  <2>2. Weight[i - 1] \in Nat \ {0}
    BY <2>1, VarintAssumption
  <2>3. u \in Nat
    BY <1>1, HalfIsPositive DEF ULong
  <2>4. u \div Weight[i - 1] \in Nat
    BY <2>2, <2>3
  <2>5. \A a \in Nat, b \in Nat \ {0} : a % b \in 0 .. (b - 1)
    OBVIOUS
  <2> QED
    BY <2>4, <2>5, VarintAssumption
<1>3. ASSUME NEW i \in 1 .. n
      PROVE  (IF i < n THEN Base + group(i) ELSE group(i)) \in Byte
  <2>1. Base \in Nat \ {0}
    BY VarintAssumption
  <2>2. \A g \in 0 .. (Base - 1) : g \in Byte /\ Base + g \in Byte
    BY <2>1 DEF Byte
  <2>3. group(i) \in 0 .. (Base - 1)
    BY <1>2
  <2> QED
    BY <2>2, <2>3
<1>4. PutVarint(l) = [i \in 1 .. n |-> IF i < n THEN Base + group(i) ELSE group(i)]
  BY DEF PutVarint
<1>5. PutVarint(l) \in [1 .. n -> Byte]
  BY <1>3, <1>4
<1> HIDE DEF u, n, group
<1> QED
  BY <1>1, <1>5

\* One turn of the loop: a group of bits at its place.
LEMMA GroupIsNat ==
  ASSUME NEW b \in Byte, NEW i \in 1 .. MaxLen
  PROVE  (b % Base) * Weight[i - 1] \in Nat
<1>1. i - 1 \in 0 .. MaxLen /\ Base \in Nat \ {0}
  BY VarintAssumption
<1>2. Weight[i - 1] \in Nat
  BY <1>1, VarintAssumption
<1>3. b \in Nat
  BY <1>1 DEF Byte
<1>4. b % Base \in Nat
  BY <1>1, <1>3
<1> QED
  BY <1>2, <1>4

(***************************************************************************)
(* The loop computes a number: the recursive function Accumulated exists   *)
(* and its values are natural.  (By least counterexample, twice.)          *)
(***************************************************************************)
LEMMA AccumulatedIsNat ==
  ASSUME NEW bytes \in Seq(Byte), Len(bytes) <= MaxLen
  PROVE  /\ Accumulated(bytes) \in [0 .. Len(bytes) -> Nat]
         /\ \A n \in 0 .. Len(bytes) :
              Accumulated(bytes)[n] =
                IF n = 0 THEN 0
                ELSE Accumulated(bytes)[n - 1] + (bytes[n] % Base) * Weight[n - 1]
<1> DEFINE L == Len(bytes)
           term(n) == (bytes[n] % Base) * Weight[n - 1]
           Loop(f, m) == f = [n \in 0 .. m |-> IF n = 0 THEN 0 ELSE f[n - 1] + term(n)]
<1>1. L \in Nat
  OBVIOUS
<1>2. ASSUME NEW n \in 1 .. L
      PROVE  term(n) \in Nat
  <2>1. n \in 1 .. MaxLen
    BY <1>1, VarintAssumption
  <2>2. bytes[n] \in Byte
    OBVIOUS
  <2> QED
    BY <2>1, <2>2, GroupIsNat
<1> HIDE DEF L, term
<1>3. \A m \in 0 .. L : \E f : Loop(f, m)
  <2> DEFINE T == {m \in 0 .. L : ~\E f : Loop(f, m)}
  <2> SUFFICES ASSUME T # {} PROVE FALSE
    OBVIOUS
  <2>1. T \in SUBSET Nat
    BY <1>1
  <2>2. Min(T) \in T /\ \A n \in T : Min(T) <= n
    BY <2>1, MinOfNats
  <2> DEFINE m == Min(T)
  <2>3. m \in 0 .. L /\ ~\E f : Loop(f, m)
    BY <2>2
  <2>4. m # 0
    <3> DEFINE f0 == [n \in 0 .. 0 |-> 0]
    <3>1. Loop(f0, 0)
      OBVIOUS
    <3> QED
      BY <3>1, <2>3
  <2>5. PICK f : Loop(f, m - 1)
    <3> HIDE DEF Loop
    <3>1. m - 1 \in 0 .. L /\ ~(m <= m - 1)
      BY <2>3, <2>4, <1>1
    <3>2. m - 1 \notin T
      BY <2>2, <3>1
    <3> QED
      BY <3>1, <3>2
  <2> HIDE DEF T, m
  <2> DEFINE g == [n \in 0 .. m |-> IF n = 0 THEN 0 ELSE f[n - 1] + term(n)]
  <2>7. \A n \in 0 .. m - 1 : g[n] = f[n]
    BY <2>3, <2>5, <1>1
  <2>8. Loop(g, m)
    <3>1. \A n \in 0 .. m : n # 0 => n - 1 \in 0 .. m - 1
      BY <2>3, <1>1
    <3> HIDE DEF g
    <3>2. \A n \in 0 .. m : n # 0 => g[n - 1] = f[n - 1]
      BY <2>7, <3>1
    <3>3. g = [n \in 0 .. m |-> IF n = 0 THEN 0 ELSE f[n - 1] + term(n)]
      BY DEF g
    <3> QED
      BY <3>2, <3>3
  <2> QED
    BY <2>3, <2>8
<1>4. Loop(Accumulated(bytes), L)
  <2>1. Accumulated(bytes) = CHOOSE f : Loop(f, L)
    BY DEF Accumulated, L, term
  <2>2. \E f : Loop(f, L)
    <3> HIDE DEF Loop
    <3>1. L \in 0 .. L
      BY <1>1
    <3> QED
      BY <1>3, <3>1
  <2> QED
    BY <2>1, <2>2
<1> DEFINE acc == Accumulated(bytes)
<1>5. \A n \in 0 .. L : acc[n] = IF n = 0 THEN 0 ELSE acc[n - 1] + term(n)
  BY <1>4
<1> HIDE DEF acc
<1>6. \A n \in 0 .. L : acc[n] \in Nat
  <2> DEFINE T == {n \in 0 .. L : acc[n] \notin Nat}
  <2> SUFFICES ASSUME T # {} PROVE FALSE
    OBVIOUS
  <2>1. T \in SUBSET Nat
    BY <1>1
  <2>2. Min(T) \in T /\ \A n \in T : Min(T) <= n
    BY <2>1, MinOfNats
  <2> DEFINE m == Min(T)
  <2>3. m \in 0 .. L /\ acc[m] \notin Nat
    BY <2>2
  <2>4. m # 0
    BY <2>3, <1>5, <1>1
  <2>5. m - 1 \in 0 .. L /\ m - 1 \notin T
    BY <2>2, <2>3, <2>4, <1>1
  <2>6. acc[m - 1] \in Nat
    BY <2>5
  <2>7. m \in 1 .. L
    BY <2>3, <2>4, <1>1
  <2>8. acc[m] = acc[m - 1] + term(m) /\ term(m) \in Nat
    BY <2>3, <2>4, <2>7, <1>2, <1>5
  <2> QED
    BY <2>3, <2>6, <2>8
<1>7. acc \in [0 .. L -> Nat]
  <2>1. acc = [n \in 0 .. L |-> IF n = 0 THEN 0 ELSE acc[n - 1] + term(n)]
    BY <1>4 DEF acc
  <2>2. acc = [n \in 0 .. L |-> acc[n]]
    BY <2>1
  <2> QED
    BY <1>6, <2>2
<1> QED
  BY <1>5, <1>7 DEF acc, L, term

\* So what ReadLong returns is a long, whatever the bytes.
LEMMA VarintValueIsLong ==
  ASSUME NEW bytes \in Seq(Byte), Len(bytes) <= MaxLen
  PROVE  GroupsValue(bytes) \in Nat /\ VarintValue(bytes) \in Long
<1>1. GroupsValue(bytes) \in Nat
  BY AccumulatedIsNat DEF GroupsValue
<1>2. \A a \in Nat, b \in Nat \ {0} : a % b \in 0 .. (b - 1)
  OBVIOUS
<1>3. 2 * Half \in Nat \ {0}
  BY HalfIsPositive
<1>4. GroupsValue(bytes) % (2 * Half) \in ULong
  BY <1>1, <1>2, <1>3 DEF ULong
<1> QED
  BY <1>1, <1>4, ZigZagIsInverse DEF VarintValue

-----------------------------------------------------------------------------
\* Division by one group and then by another is division by both.
LEMMA DivideAgain ==
  ASSUME NEW u \in Nat, NEW w \in Nat \ {0}, NEW b \in Nat \ {0}
  PROVE  /\ b * w \in Nat \ {0}
         /\ (u \div w) % b \in Nat
         /\ u = (u \div (b * w)) * (b * w) + ((u \div w) % b) * w + (u % w)
<1> DEFINE q == u \div w
           r == u % w
           p == q \div b
           g == q % b
           d == b * w
           k == u \div d
<1>1. q \in Nat /\ r \in 0 .. (w - 1) /\ u = w * q + r
  OBVIOUS
<1>2. p \in Nat /\ g \in 0 .. (b - 1) /\ q = b * p + g
  BY <1>1
<1> HIDE DEF q, r, p, g
<1>3. d \in Nat \ {0}
  <2>1. \A x, y \in Nat \ {0} : x * y \in Nat \ {0}
    OBVIOUS
  <2> QED
    BY <2>1
<1>4. k \in Nat /\ d * k <= u /\ u < d * k + d
  <2> HIDE DEF d
  <2> QED
    BY <1>3
<1>5. u = d * p + (g * w + r)
  BY <1>1, <1>2
<1>6. g * w + r \in 0 .. (d - 1)
  <2>1. g * w \in Nat /\ (b - 1 - g) * w \in Nat
    BY <1>2
  <2>2. g * w + (b - 1 - g) * w + w = d
    BY <1>2
  <2> QED
    BY <1>1, <1>3, <2>1, <2>2
<1> HIDE DEF d, k
<1>7. k = p
  <2>1. \A x, y \in Nat : x < y => d * x + d <= d * y
    <3> SUFFICES ASSUME NEW x \in Nat, NEW y \in Nat, x < y PROVE d * x + d <= d * y
      OBVIOUS
    <3>1. d * (y - x - 1) \in Nat
      BY <1>3
    <3>2. d * y = d * x + d + d * (y - x - 1)
      BY <1>3
    <3> QED
      BY <1>3, <3>1, <3>2
  <2>2. ~(k < p) /\ ~(p < k)
    <3>1. d * k \in Nat /\ d * p \in Nat
      BY <1>2, <1>3, <1>4
    <3>2. ~(k < p)
      BY <1>2, <1>3, <1>4, <1>5, <1>6, <2>1, <3>1
    <3>3. ~(p < k)
      BY <1>2, <1>3, <1>4, <1>5, <1>6, <2>1, <3>1
    <3> QED
      BY <3>2, <3>3
  <2> QED
    BY <1>2, <1>4, <2>2
<1>8. u = k * d + g * w + r
  BY <1>1, <1>2, <1>3, <1>5, <1>7
<1> QED
  BY <1>2, <1>3, <1>8 DEF k, d, g, q, r

\* A number below the modulus is its own remainder.
LEMMA SmallRemainder == \A a \in Nat, m \in Nat \ {0} : a < m => a % m = a
OBVIOUS

\* The groups of a long.
LEMMA GroupsOfLong ==
  ASSUME NEW l \in Long
  PROVE  /\ ZigZag(l) \in Nat
         /\ GroupCount(ZigZag(l)) \in 1 .. MaxLen /\ GroupCount(ZigZag(l)) \in Nat
         /\ ZigZag(l) < Weight[GroupCount(ZigZag(l))]
         /\ Len(PutVarint(l)) = GroupCount(ZigZag(l))
         /\ \A i \in 1 .. MaxLen :
              /\ Weight[i - 1] \in Nat \ {0} /\ Weight[i] = Base * Weight[i - 1]
              /\ (ZigZag(l) \div Weight[i - 1]) % Base \in 0 .. (Base - 1)
<1> DEFINE u == ZigZag(l)
           n == GroupCount(u)
<1>1. u \in ULong
  BY ZigZagIsInverse
<1>2. n \in 1 .. MaxLen /\ u < Weight[n]
  BY <1>1, GroupCountFits
<1>3. PutVarint(l) =
        [i \in 1 .. n |-> IF i < n THEN Base + ((u \div Weight[i - 1]) % Base)
                          ELSE (u \div Weight[i - 1]) % Base]
  BY DEF PutVarint
<1> HIDE DEF u, n
<1>4. u \in Nat
  BY <1>1, HalfIsPositive DEF ULong
<1>5. n \in Nat
  BY <1>2, VarintAssumption
<1>6. Len(PutVarint(l)) = n
  BY <1>3, <1>5
<1>7. ASSUME NEW i \in 1 .. MaxLen
      PROVE  /\ Weight[i - 1] \in Nat \ {0} /\ Weight[i] = Base * Weight[i - 1]
             /\ (u \div Weight[i - 1]) % Base \in 0 .. (Base - 1)
  <2>1. i - 1 \in 0 .. MaxLen
    BY VarintAssumption
  <2>2. Weight[i - 1] \in Nat \ {0} /\ Weight[i] = Base * Weight[i - 1]
    BY <2>1, VarintAssumption
  <2>3. u \div Weight[i - 1] \in Nat
    BY <1>4, <2>2
  <2>4. \A a \in Nat, b \in Nat \ {0} : a % b \in 0 .. (b - 1)
    OBVIOUS
  <2> QED
    BY <2>2, <2>3, <2>4, VarintAssumption
<1> QED
  BY <1>2, <1>4, <1>5, <1>6, <1>7 DEF u, n

\* After i turns the loop has the lowest i groups of what was encoded.
LEMMA GroupsAddUp ==
  ASSUME NEW l \in Long
  PROVE  GroupsValue(PutVarint(l)) = ZigZag(l)
<1> DEFINE bytes == PutVarint(l)
           u == ZigZag(l)
           n == GroupCount(u)
           group(i) == (u \div Weight[i - 1]) % Base
           acc == Accumulated(bytes)
<1>1. u \in Nat /\ n \in 1 .. MaxLen /\ n \in Nat /\ Len(bytes) = n
  BY GroupsOfLong
<1>2. bytes \in Seq(Byte) /\ Len(bytes) <= MaxLen
  BY PutVarintIsBytes, VarintAssumption
<1>3. bytes = [i \in 1 .. n |-> IF i < n THEN Base + group(i) ELSE group(i)]
  BY DEF PutVarint
<1>4. \A i \in 0 .. n : acc[i] = IF i = 0 THEN 0 ELSE acc[i - 1] + (bytes[i] % Base) * Weight[i - 1]
  BY <1>1, <1>2, AccumulatedIsNat
<1>5. u < Weight[n]
  BY GroupsOfLong
<1>6. ASSUME NEW i \in 1 .. n
      PROVE  /\ Weight[i - 1] \in Nat \ {0} /\ Weight[i] = Base * Weight[i - 1]
             /\ group(i) \in 0 .. (Base - 1)
  <2>1. i \in 1 .. MaxLen
    BY <1>1, VarintAssumption
  <2> QED
    BY <2>1, GroupsOfLong
<1> HIDE DEF acc, u, n
<1>7. ASSUME NEW i \in 1 .. n
      PROVE  bytes[i] % Base = group(i)
  <2>1. \A b \in Nat \ {0} : \A g \in 0 .. (b - 1) : g % b = g /\ (b + g) % b = g
    <3> SUFFICES ASSUME NEW b \in Nat \ {0}, NEW g \in 0 .. (b - 1)
                 PROVE  g % b = g /\ (b + g) % b = g
      OBVIOUS
    <3>1. g % b = g
      OBVIOUS
    <3>2. (b + g) % b = g
      OBVIOUS
    <3> QED
      BY <3>1, <3>2
  <2>2. group(i) \in 0 .. (Base - 1) /\ Base \in Nat \ {0}
    BY <1>6, VarintAssumption
  <2>3. bytes[i] = IF i < n THEN Base + group(i) ELSE group(i)
    BY <1>3
  <2> HIDE DEF group
  <2> QED
    BY <2>1, <2>2, <2>3
<1> HIDE DEF bytes
<1>8. \A i \in 0 .. n : acc[i] = u % Weight[i]
  <2> DEFINE T == {i \in 0 .. n : acc[i] # u % Weight[i]}
  <2> SUFFICES ASSUME T # {} PROVE FALSE
    OBVIOUS
  <2>1. T \in SUBSET Nat
    BY <1>1
  <2>2. PICK m \in T : \A i \in T : m <= i
    BY <2>1, MinOfNats
  <2>3. m \in 0 .. n /\ acc[m] # u % Weight[m]
    OBVIOUS
  <2>4. m # 0
    <3>1. acc[0] = 0
      BY <1>1, <1>4
    <3>2. u % 1 = 0
      BY <1>1
    <3> QED
      BY <2>3, <3>1, <3>2, VarintAssumption
  <2>5. m \in 1 .. n /\ m - 1 \in 0 .. n /\ m - 1 \notin T
    BY <1>1, <2>2, <2>3, <2>4
  <2>6. acc[m - 1] = u % Weight[m - 1]
    BY <2>5
  <2> HIDE DEF T
  <2> DEFINE w == Weight[m - 1]
             d == Weight[m]
             g == group(m)
  <2>7. w \in Nat \ {0} /\ d = Base * w /\ Base \in Nat \ {0} /\ g \in Nat
    BY <1>6, <2>5, VarintAssumption
  <2>8. acc[m] = (u % w) + g * w
    BY <1>4, <1>7, <2>4, <2>5, <2>6
  <2>9. g = (u \div w) % Base
    OBVIOUS
  <2> HIDE DEF w, d, g
  <2>10. /\ Base * w \in Nat \ {0}
         /\ u = (u \div (Base * w)) * (Base * w) + ((u \div w) % Base) * w + (u % w)
    BY <1>1, <2>7, DivideAgain
  <2>11. d \in Nat \ {0} /\ u = (u \div d) * d + g * w + (u % w)
    BY <2>7, <2>9, <2>10
  <2>12. (u \div d) * d + (u % d) = u /\ u \div d \in Nat /\ u % d \in Nat
    BY <1>1, <2>11
  <2>13. (u \div d) * d \in Nat
    BY <2>11, <2>12
  <2>14. u % w \in Nat /\ g * w \in Nat
    BY <1>1, <2>7
  <2>15. u % d = (u % w) + g * w
    BY <1>1, <2>11, <2>12, <2>13, <2>14
  <2> QED
    BY <2>3, <2>8, <2>15 DEF d
<1>9. Weight[n] \in Nat \ {0} /\ n \in 0 .. n
  BY <1>1, VarintAssumption
<1>10. u % Weight[n] = u
  BY <1>1, <1>5, <1>9, SmallRemainder
<1>11. acc[n] = u
  BY <1>8, <1>9, <1>10
<1> QED
  BY <1>1, <1>11 DEF GroupsValue, acc, u, bytes

\* Only the last byte has no continuation bit.
LEMMA LastGroupEnds ==
  ASSUME NEW l \in Long
  PROVE  \A i \in 1 .. Len(PutVarint(l)) : PutVarint(l)[i] < Base <=> i = Len(PutVarint(l))
<1> DEFINE u == ZigZag(l)
           n == GroupCount(u)
           group(i) == (u \div Weight[i - 1]) % Base
<1>1. n \in 1 .. MaxLen /\ n \in Nat /\ Len(PutVarint(l)) = n
  BY GroupsOfLong
<1>2. PutVarint(l) = [i \in 1 .. n |-> IF i < n THEN Base + group(i) ELSE group(i)]
  BY DEF PutVarint
<1>3. ASSUME NEW i \in 1 .. n
      PROVE  group(i) \in 0 .. (Base - 1)
  <2>1. i \in 1 .. MaxLen
    BY <1>1, VarintAssumption
  <2> QED
    BY <2>1, GroupsOfLong
<1> HIDE DEF u, n
<1>4. ASSUME NEW i \in 1 .. n
      PROVE  PutVarint(l)[i] < Base <=> i = n
  <2>1. group(i) \in 0 .. (Base - 1) /\ Base \in Nat
    BY <1>3, VarintAssumption
  <2>2. PutVarint(l)[i] = IF i < n THEN Base + group(i) ELSE group(i)
    BY <1>2
  <2> HIDE DEF group
  <2> QED
    BY <1>1, <2>1, <2>2
<1> QED
  BY <1>1, <1>4

(***************************************************************************)
(* ReadLong gives back what WriteLong wrote, whatever the width, wherever  *)
(* it lies in the stream, and whatever follows it; it consumes the bytes   *)
(* that were written and no other (avro.go:262).                           *)
(***************************************************************************)
THEOREM LongIsReadBack ==
  ASSUME NEW s \in Seq(Byte), NEW ending, NEW off \in 0 .. Len(s), NEW l \in Long,
         off + Len(PutVarint(l)) <= Len(s),
         \A i \in 1 .. Len(PutVarint(l)) : s[off + i] = PutVarint(l)[i]
  PROVE  ReadLong(s, ending, off) = Result(off + Len(PutVarint(l)), "none", l)
<1> DEFINE bytes == PutVarint(l)
           u == ZigZag(l)
           m == Len(bytes)
           ends == LastGroups(s, off)
<1>0. bytes \in Seq(Byte) /\ m \in 1 .. MaxLen
  BY PutVarintIsBytes
<1>1. m \in Nat /\ off \in Nat /\ Len(s) \in Nat
  <2>1. Len(s) \in Nat
    OBVIOUS
  <2>2. off \in Nat
    BY <2>1
  <2>3. m \in Nat
    BY <1>0
  <2> QED
    BY <2>1, <2>2, <2>3
<1>2. \A i \in 1 .. m : bytes[i] < Base <=> i = m
  BY LastGroupEnds
<1>3. (\A i \in 1 .. m : s[off + i] = bytes[i]) /\ off + m <= Len(s)
  OBVIOUS
<1> HIDE DEF bytes
<1>4. m \in ends
  <2>1. m \in 1 .. m /\ s[off + m] = bytes[m] /\ bytes[m] < Base
    BY <1>1, <1>0, <1>2, <1>3
  <2> QED
    BY <1>0, <1>3, <2>1 DEF LastGroups
<1>5. \A i \in ends : ~(i < m)
  <2> SUFFICES ASSUME NEW i \in 1 .. MaxLen, s[off + i] < Base, i < m PROVE FALSE
    BY DEF LastGroups
  <2>1. i \in 1 .. m /\ i # m
    BY <1>1
  <2> QED
    BY <1>2, <1>3, <2>1
<1>6. ends \in SUBSET Nat
  BY VarintAssumption DEF LastGroups
<1>7. Min(ends) = m
  <2>1. Min(ends) \in ends /\ Min(ends) <= m
    BY <1>4, <1>6, MinOfNats
  <2>2. Min(ends) \in Nat
    BY <1>6, <2>1
  <2> QED
    BY <1>1, <1>5, <2>1, <2>2
<1>8. SubSeq(s, off + 1, off + m) = bytes
  <2>1. SubSeq(s, off + 1, off + m) = [i \in 1 .. m |-> s[off + i]]
    BY <1>1, <1>3
  <2>2. bytes = [i \in 1 .. m |-> bytes[i]]
    BY <1>0
  <2> QED
    BY <1>3, <2>1, <2>2
<1>9. VarintValue(bytes) = l
  <2>1. GroupsValue(bytes) = u /\ u \in ULong /\ UnZigZag(u) = l
    BY GroupsAddUp, ZigZagIsInverse DEF bytes
  <2>2. u \in Nat /\ u < 2 * Half /\ 2 * Half \in Nat \ {0}
    BY <2>1, HalfIsPositive DEF ULong
  <2> HIDE DEF u
  <2>3. u % (2 * Half) = u
    BY <2>2, SmallRemainder
  <2> QED
    BY <2>1, <2>3 DEF VarintValue
<1> QED
  BY <1>4, <1>7, <1>8, <1>9 DEF ReadLong, bytes

(***************************************************************************)
(* A long whose last bytes are missing is the end of the input to ReadLong *)
(* and never another long (avro.go:262).                                   *)
(***************************************************************************)
THEOREM CutLongIsReported ==
  ASSUME NEW s \in Seq(Byte), NEW ending, NEW off \in 0 .. Len(s), NEW l \in Long,
         Len(s) < off + Len(PutVarint(l)),
         \A i \in 1 .. Len(s) - off : s[off + i] = PutVarint(l)[i]
  PROVE  ReadLong(s, ending, off) = Result(Len(s), ReadFullError(ending, 0), 0)
<1> DEFINE bytes == PutVarint(l)
           m == Len(bytes)
<1>0. bytes \in Seq(Byte) /\ m \in 1 .. MaxLen
  BY PutVarintIsBytes
<1>1. m \in Nat /\ off \in Nat /\ Len(s) \in Nat
  <2>1. Len(s) \in Nat
    OBVIOUS
  <2>2. off \in Nat
    BY <2>1
  <2>3. m \in Nat
    BY <1>0
  <2> QED
    BY <2>1, <2>2, <2>3
<1>2. \A i \in 1 .. m : bytes[i] < Base <=> i = m
  BY LastGroupEnds
<1>3. \A i \in 1 .. Len(s) - off : s[off + i] = bytes[i]
  OBVIOUS
<1>4. Len(s) < off + m /\ MaxLen \in Nat
  BY VarintAssumption
<1> HIDE DEF bytes
<1>5. LastGroups(s, off) = {}
  <2> SUFFICES ASSUME NEW i \in 1 .. MaxLen, off + i <= Len(s), s[off + i] < Base PROVE FALSE
    BY DEF LastGroups
  <2>1. i \in 1 .. m /\ i # m /\ i \in 1 .. Len(s) - off
    BY <1>1, <1>4
  <2> QED
    BY <1>2, <1>3, <2>1
<1>6. ~(off + MaxLen <= Len(s))
  BY <1>0, <1>1, <1>4
<1> QED
  BY <1>5, <1>6 DEF ReadLong

-----------------------------------------------------------------------------
(***************************************************************************)
(* Sequences.  FlattenSeq is recursive, so what it joins takes a least     *)
(* counterexample, as AccumulatedIsNat does.                               *)
(***************************************************************************)
\* What FlattenSeq joins, one sequence after the other.
LEMMA FlattenPath ==
  ASSUME NEW S, NEW seqs \in Seq(Seq(S)), Len(seqs) # 0
  PROVE  \E flat :
           /\ flat[1] = seqs[1] /\ FlattenSeq(seqs) = flat[Len(seqs)]
           /\ \A i \in 2 .. Len(seqs) : flat[i] = flat[i - 1] \o seqs[i]
           /\ \A i \in 1 .. Len(seqs) : flat[i] \in Seq(S)
<1> DEFINE L == Len(seqs)
           part(i) == seqs[i]
           joined(x, i) == x \o seqs[i]
           Loop(f, m) ==
             f = [i \in 1 .. m |-> IF i = 1 THEN part(i) ELSE joined(f[i - 1], i)]
           flat == CHOOSE f : Loop(f, L)
<1>1. L \in Nat /\ L # 0
  OBVIOUS
<1>4. \A i \in 1 .. L : part(i) \in Seq(S) /\ \A x \in Seq(S) : joined(x, i) \in Seq(S)
  OBVIOUS
<1>5. FlattenSeq(seqs) = flat[L]
  BY <1>1 DEF FlattenSeq
<1> HIDE DEF L, part, joined
<1>6. \A m \in 0 .. L : \E f : Loop(f, m)
  <3> DEFINE T == {m \in 0 .. L : ~\E f : Loop(f, m)}
  <3> SUFFICES ASSUME T # {} PROVE FALSE
    OBVIOUS
  <3>1. T \in SUBSET Nat
    BY <1>1
  <3>2. Min(T) \in T /\ \A n \in T : Min(T) <= n
    BY <3>1, MinOfNats
  <3> DEFINE m == Min(T)
  <3>3. m \in 0 .. L /\ ~\E f : Loop(f, m)
    BY <3>2
  <3>4. m # 0
    <4> DEFINE f0 == [i \in 1 .. 0 |-> << >>]
    <4>1. Loop(f0, 0)
      OBVIOUS
    <4> QED
      BY <4>1, <3>3
  <3>5. PICK f : Loop(f, m - 1)
    <4> HIDE DEF Loop
    <4>1. m - 1 \in 0 .. L /\ ~(m <= m - 1)
      BY <3>3, <3>4, <1>1
    <4>2. m - 1 \notin T
      BY <3>2, <4>1
    <4> QED
      BY <4>1, <4>2
  <3> HIDE DEF T, m
  <3> DEFINE g == [i \in 1 .. m |-> IF i = 1 THEN part(i) ELSE joined(f[i - 1], i)]
  <3>6. \A i \in 1 .. m - 1 : g[i] = f[i]
    BY <3>3, <3>5, <1>1
  <3>7. Loop(g, m)
    <4>1. \A i \in 1 .. m : i # 1 => i - 1 \in 1 .. m - 1
      BY <3>3, <1>1
    <4> HIDE DEF g
    <4>2. \A i \in 1 .. m : i # 1 => g[i - 1] = f[i - 1]
      BY <4>1, <3>6
    <4>3. g = [i \in 1 .. m |-> IF i = 1 THEN part(i) ELSE joined(f[i - 1], i)]
      BY DEF g
    <4> QED
      BY <4>2, <4>3
  <3> QED
    BY <3>3, <3>7
<1>7. Loop(flat, L)
  <3>1. \E f : Loop(f, L)
    <4> HIDE DEF Loop
    <4>1. L \in 0 .. L
      BY <1>1
    <4> QED
      BY <1>6, <4>1
  <3> HIDE DEF Loop
  <3> QED
    BY <3>1
<1>8. \A i \in 1 .. L : flat[i] = IF i = 1 THEN part(i) ELSE joined(flat[i - 1], i)
  <3> HIDE DEF flat
  <3> QED
    BY <1>7
<1> HIDE DEF flat
<1> DEFINE T == {i \in 1 .. L : flat[i] \notin Seq(S)}
<1>9. T = {}
  <3> SUFFICES ASSUME T # {} PROVE FALSE
    OBVIOUS
  <3>1. T \in SUBSET Nat
    BY <1>1
  <3>2. Min(T) \in T /\ \A n \in T : Min(T) <= n
    BY <3>1, MinOfNats
  <3> DEFINE m == Min(T)
  <3>3. m \in 1 .. L /\ flat[m] \notin Seq(S)
    BY <3>2
  <3>4. m # 1
    BY <3>3, <1>8, <1>4
  <3>5. m - 1 \in 1 .. L /\ m - 1 \notin T
    BY <3>2, <3>3, <3>4, <1>1
  <3>6. flat[m - 1] \in Seq(S)
    BY <3>5
  <3>7. flat[m] = joined(flat[m - 1], m)
    BY <3>3, <3>4, <1>8
  <3> HIDE DEF m, T
  <3> QED
    BY <3>3, <3>6, <3>7, <1>4
<1>10. flat[1] = seqs[1]
  <2>1. 1 \in 1 .. L
    BY <1>1
  <2> QED
    BY <1>8, <2>1 DEF part
<1>11. \A i \in 2 .. L : flat[i] = flat[i - 1] \o seqs[i]
  <2>1. \A i \in 2 .. L : i \in 1 .. L /\ i # 1
    BY <1>1
  <2> QED
    BY <1>8, <2>1 DEF joined
<1>12. \A i \in 1 .. L : flat[i] \in Seq(S)
  BY <1>9
<1> QED
  BY <1>5, <1>10, <1>11, <1>12 DEF L

LEMMA FlattenSeqType ==
  ASSUME NEW S, NEW seqs \in Seq(Seq(S))
  PROVE  FlattenSeq(seqs) \in Seq(S)
<1>1. CASE Len(seqs) = 0
  <2>1. seqs = << >>
    BY <1>1
  <2> QED
    BY <1>1, <2>1 DEF FlattenSeq
<1>2. CASE Len(seqs) # 0
  <2>1. Len(seqs) \in 1 .. Len(seqs)
    BY <1>2
  <2> QED
    BY <1>2, <2>1, FlattenPath
<1> QED
  BY <1>1, <1>2

LEMMA BoundedSeqType ==
  ASSUME NEW S, NEW n \in Nat, NEW s \in BoundedSeq(S, n)
  PROVE  s \in Seq(S) /\ Len(s) <= n
<1>1. PICK m \in 0 .. n : s \in [1 .. m -> S]
  BY DEF BoundedSeq, SeqOf
<1>2. s \in Seq(S) /\ Len(s) = m
  BY <1>1
<1> QED
  BY <1>2

-----------------------------------------------------------------------------
(***************************************************************************)
(* Bytes in a stream.                                                      *)
(***************************************************************************)
\* The bytes b lie in s after the first off ones.
Has(s, off, b) == off + Len(b) <= Len(s) /\ \A i \in 1 .. Len(b) : s[off + i] = b[i]

\* s is a beginning of t.
Begins(s, t) == Len(s) <= Len(t) /\ \A i \in 1 .. Len(s) : s[i] = t[i]

LEMMA Joined ==
  ASSUME NEW s \in Seq(Byte), NEW t \in Seq(Byte)
  PROVE  /\ Len(s \o t) = Len(s) + Len(t)
         /\ \A i \in 1 .. Len(s) : (s \o t)[i] = s[i]
         /\ \A i \in 1 .. Len(t) : (s \o t)[Len(s) + i] = t[i]
OBVIOUS

LEMMA HasLater ==
  ASSUME NEW s \in Seq(Byte), NEW t \in Seq(Byte), NEW off \in Nat, NEW b \in Seq(Byte), Has(s, off, b)
  PROVE  Has(s \o t, off, b)
<1>1. Len(s \o t) = Len(s) + Len(t) /\ \A i \in 1 .. Len(s) : (s \o t)[i] = s[i]
  OBVIOUS
<1>2. off + Len(b) <= Len(s) /\ Len(b) \in Nat /\ Len(s) \in Nat /\ Len(t) \in Nat
  BY DEF Has
<1>3. ASSUME NEW i \in 1 .. Len(b)
      PROVE  (s \o t)[off + i] = b[i]
  <2>1. off + i \in 1 .. Len(s)
    BY <1>2
  <2> QED
    BY <1>1, <2>1 DEF Has
<1> HIDE DEF Has
<1>4. off + Len(b) <= Len(s \o t)
  BY <1>1, <1>2
<1> QED
  BY <1>3, <1>4 DEF Has

LEMMA HasInside ==
  ASSUME NEW s \in Seq(Byte), NEW b \in Seq(Byte), NEW off \in Nat, NEW c \in Seq(Byte), Has(b, off, c)
  PROVE  Has(s \o b, Len(s) + off, c)
<1>1. /\ Len(s \o b) = Len(s) + Len(b)
      /\ \A i \in 1 .. Len(b) : (s \o b)[Len(s) + i] = b[i]
  OBVIOUS
<1>2. off + Len(c) <= Len(b) /\ Len(b) \in Nat /\ Len(s) \in Nat /\ Len(c) \in Nat
  BY DEF Has
<1>3. ASSUME NEW i \in 1 .. Len(c)
      PROVE  (s \o b)[Len(s) + off + i] = c[i]
  <2>1. off + i \in 1 .. Len(b) /\ Len(s) + off + i = Len(s) + (off + i)
    BY <1>2
  <2> QED
    BY <1>1, <2>1 DEF Has
<1>4. Len(s) + off + Len(c) <= Len(s \o b)
  BY <1>1, <1>2
<1> QED
  BY <1>3, <1>4 DEF Has

LEMMA HasAppended ==
  ASSUME NEW s \in Seq(Byte), NEW b \in Seq(Byte)
  PROVE  Has(s \o b, Len(s), b)
<1>1. /\ Len(s \o b) = Len(s) + Len(b)
      /\ \A i \in 1 .. Len(b) : (s \o b)[Len(s) + i] = b[i]
  OBVIOUS
<1> QED
  BY <1>1 DEF Has

LEMMA HasParts ==
  ASSUME NEW s \in Seq(Byte), NEW off \in Nat, NEW a \in Seq(Byte), NEW b \in Seq(Byte),
         Has(s, off, a \o b)
  PROVE  Has(s, off, a) /\ Has(s, off + Len(a), b)
<1>1. /\ Len(a \o b) = Len(a) + Len(b) /\ Len(a) \in Nat /\ Len(b) \in Nat /\ Len(s) \in Nat
      /\ \A i \in 1 .. Len(a) : (a \o b)[i] = a[i]
      /\ \A i \in 1 .. Len(b) : (a \o b)[Len(a) + i] = b[i]
  OBVIOUS
<1>2. /\ off + Len(a \o b) <= Len(s)
      /\ \A i \in 1 .. Len(a \o b) : s[off + i] = (a \o b)[i]
  BY DEF Has
<1>3. ASSUME NEW i \in 1 .. Len(a)
      PROVE  s[off + i] = a[i]
  <2>1. i \in 1 .. Len(a \o b)
    BY <1>1
  <2> QED
    BY <1>1, <1>2, <2>1
<1>4. ASSUME NEW i \in 1 .. Len(b)
      PROVE  s[off + Len(a) + i] = b[i]
  <2>1. Len(a) + i \in 1 .. Len(a \o b) /\ off + Len(a) + i = off + (Len(a) + i)
    BY <1>1
  <2> QED
    BY <1>1, <1>2, <2>1
<1>5. off + Len(a) <= Len(s) /\ off + Len(a) + Len(b) <= Len(s)
  BY <1>1, <1>2
<1> QED
  BY <1>3, <1>4, <1>5 DEF Has

-----------------------------------------------------------------------------
(***************************************************************************)
(* What the reader reads where a long or an item lies in the ideal stream. *)
(***************************************************************************)
LEMMA LongAt ==
  ASSUME NEW s \in Seq(Byte), NEW t \in Seq(Byte), Begins(s, t), NEW source,
         NEW off \in 0 .. Len(s), NEW l \in Long, Has(t, off, PutVarint(l))
  PROVE  ReadLong(s, source, off) =
           IF off + Len(PutVarint(l)) <= Len(s)
           THEN Result(off + Len(PutVarint(l)), "none", l)
           ELSE Result(Len(s), ReadFullError(source, 0), 0)
<1> DEFINE bytes == PutVarint(l)
<1>1. Len(s) \in Nat /\ off \in Nat /\ bytes \in Seq(Byte) /\ Len(bytes) \in Nat
  BY PutVarintIsBytes
<1>2. (\A i \in 1 .. Len(s) : s[i] = t[i]) /\ \A i \in 1 .. Len(bytes) : t[off + i] = bytes[i]
  BY DEF Begins, Has
<1>3. CASE off + Len(bytes) <= Len(s)
  <2>1. ASSUME NEW i \in 1 .. Len(bytes)
        PROVE  s[off + i] = bytes[i]
    <3>1. off + i \in 1 .. Len(s)
      BY <1>1, <1>3
    <3> QED
      BY <1>2, <3>1
  <2> QED
    BY <1>3, <2>1, LongIsReadBack
<1>4. CASE ~(off + Len(bytes) <= Len(s))
  <2>1. Len(s) < off + Len(bytes)
    BY <1>1, <1>4
  <2>2. ASSUME NEW i \in 1 .. Len(s) - off
        PROVE  s[off + i] = bytes[i]
    <3>1. off + i \in 1 .. Len(s) /\ i \in 1 .. Len(bytes)
      BY <1>1, <2>1
    <3> QED
      BY <1>2, <3>1
  <2>3. ReadLong(s, source, off) = Result(Len(s), ReadFullError(source, 0), 0)
    BY <2>1, <2>2, CutLongIsReported
  <2> QED
    BY <1>4, <2>3
<1> QED
  BY <1>3, <1>4

\* What ReadFixed reads where bytes lie in the ideal stream.
LEMMA FixedAt ==
  ASSUME NEW s \in Seq(Byte), NEW t \in Seq(Byte), Begins(s, t), NEW source,
         NEW off \in 0 .. Len(s), NEW b \in Seq(Byte), Has(t, off, b)
  PROVE  ReadFixed(s, source, off, Len(b)) =
           IF off + Len(b) <= Len(s)
           THEN Result(off + Len(b), "none", b)
           ELSE Result(Len(s), ReadFullError(source, Len(s) - off), << >>)
<1>1. Len(s) \in Nat /\ off \in Nat /\ Len(b) \in Nat
  OBVIOUS
<1>2. ASSUME off + Len(b) <= Len(s)
      PROVE  SubSeq(s, off + 1, off + Len(b)) = b
  <2>1. \A i \in 1 .. Len(b) : s[off + i] = b[i]
    <3> SUFFICES ASSUME NEW i \in 1 .. Len(b) PROVE s[off + i] = b[i]
      OBVIOUS
    <3>1. off + i \in 1 .. Len(s)
      BY <1>1, <1>2
    <3> QED
      BY <3>1 DEF Begins, Has
  <2>2. SubSeq(s, off + 1, off + Len(b)) = [i \in 1 .. Len(b) |-> s[off + i]]
    BY <1>1, <1>2
  <2>3. b = [i \in 1 .. Len(b) |-> b[i]]
    OBVIOUS
  <2> QED
    BY <2>1, <2>2, <2>3
<1> QED
  BY <1>2 DEF ReadFixed

Encoding(nl, v) == IF nl THEN << >> ELSE PutVarint(Len(v)) \o v

LEMMA ItemAt ==
  ASSUME StreamTypeOK, NEW t \in Seq(Byte), Begins(wire, t), NEW off \in 0 .. Len(wire),
         NEW v \in Values, Len(v) \in Long, Has(t, off, Encoding(nulls, v))
  PROVE  LET r == Unmarshal(off)
             to == off + Len(Encoding(nulls, v))
         IN  /\ r.err = "none" => r = Result(to, "none", v) /\ to <= Len(wire)
             /\ (to <= Len(wire) /\ Len(v) < IntHalf) => r.err = "none"
<1> DEFINE length == PutVarint(Len(v))
           n == ReadLong(wire, end, off)
           at == off + Len(length)
<1>1. /\ wire \in Seq(Byte) /\ Len(wire) \in Nat /\ off \in Nat
      /\ v \in Seq(Byte) /\ Len(v) \in Nat
      /\ length \in Seq(Byte) /\ Len(length) \in Nat
      /\ IntHalf \in Nat
  <2>1. v \in Seq(Byte)
    BY ItemsAssumption DEF Values
  <2>2. IntHalf \in Nat
    BY IntHalfAssumption, HalfIsPositive
  <2> QED
    BY <2>1, <2>2, PutVarintIsBytes DEF StreamTypeOK
<1>2. CASE nulls
  <2>1. v = << >> /\ Encoding(nulls, v) = << >> /\ Unmarshal(off) = Result(off, "none", << >>)
    BY <1>2 DEF Values, Encoding, Unmarshal
  <2>2. off + Len(<< >>) = off /\ off <= Len(wire)
    BY <1>1
  <2> QED
    BY <2>1, <2>2 DEF Result
<1>3. CASE ~nulls
  <2>1. Encoding(nulls, v) = length \o v /\ Unmarshal(off) = ReadBytes(wire, end, off)
    BY <1>3 DEF Encoding, Unmarshal
  <2>2. Has(t, off, length) /\ Has(t, at, v)
    BY <1>1, <2>1, HasParts
  <2>3. off + Len(Encoding(nulls, v)) = at + Len(v)
    BY <1>1, <2>1
  <2>4. n = IF at <= Len(wire) THEN Result(at, "none", Len(v)) ELSE Result(Len(wire), ReadFullError(end, 0), 0)
    BY <1>1, <2>2, LongAt
  <2>5. ReadFullError(end, 0) # "none"
    BY DEF ReadFullError
  <2>6. CASE ~(at <= Len(wire))
    <3>1. n.err # "none" /\ ~(at + Len(v) <= Len(wire))
      BY <1>1, <2>4, <2>5, <2>6 DEF Result
    <3>2. Unmarshal(off).err # "none"
      BY <2>1, <3>1 DEF ReadBytes, Result
    <3> QED
      BY <2>3, <3>1, <3>2
  <2>7. CASE at <= Len(wire)
    <3>1. n.err = "none" /\ n.val = Len(v) /\ n.off = at /\ ~(n.val < 0)
      BY <1>1, <2>4, <2>7 DEF Result
    <3>2. CASE Len(v) >= IntHalf
      <4>1. Unmarshal(off) = Result(at, "overflow", << >>)
        BY <2>1, <3>1, <3>2 DEF ReadBytes
      <4> QED
        BY <1>1, <3>2, <4>1 DEF Result
    <3>3. CASE ~(Len(v) >= IntHalf)
      <4>1. Unmarshal(off) = ReadFixed(wire, end, at, Len(v))
        BY <2>1, <3>1, <3>3 DEF ReadBytes
      <4>2. CASE ~(at + Len(v) <= Len(wire))
        <5>1. Unmarshal(off).err # "none"
          BY <4>1, <4>2 DEF ReadFixed, Result, ReadFullError
        <5> QED
          BY <2>3, <4>2, <5>1
      <4>3. CASE at + Len(v) <= Len(wire)
        <5>1. Unmarshal(off) = Result(at + Len(v), "none", SubSeq(wire, at + 1, at + Len(v)))
          BY <4>1, <4>3 DEF ReadFixed
        <5>2. at \in Nat
          BY <1>1
        <5> HIDE DEF at
        <5>3. \A i \in 1 .. Len(v) : wire[at + i] = v[i]
          <6> SUFFICES ASSUME NEW i \in 1 .. Len(v) PROVE wire[at + i] = v[i]
            OBVIOUS
          <6>1. at + i \in 1 .. Len(wire)
            BY <1>1, <4>3, <5>2
          <6> QED
            BY <2>2, <6>1 DEF Begins, Has
        <5>4. SubSeq(wire, at + 1, at + Len(v)) = [i \in 1 .. Len(v) |-> wire[at + i]]
          BY <1>1, <4>3, <5>2
        <5>5. v = [i \in 1 .. Len(v) |-> v[i]]
          BY <1>1
        <5>6. SubSeq(wire, at + 1, at + Len(v)) = v
          BY <5>3, <5>4, <5>5
        <5>7. Unmarshal(off) = Result(at + Len(v), "none", v)
          BY <5>1, <5>6
        <5>8. Unmarshal(off).err = "none"
          BY <5>7 DEF Result
        <5> QED
          BY <2>3, <4>3, <5>7, <5>8
      <4> QED
        BY <4>2, <4>3
    <3> QED
      BY <3>2, <3>3
  <2> QED
    BY <2>6, <2>7
<1> QED
  BY <1>2, <1>3

-----------------------------------------------------------------------------
(***************************************************************************)
(* What the operations of BinaryWriter leave.  A writer x reached from w   *)
(* by writing at most n bytes: the offset counts the bytes unless a write  *)
(* failed, and is never ahead of them.                                     *)
(***************************************************************************)
BinaryWriters == [out : Seq(Byte), offset : Nat, err : {"none", "sink", "item"}]

Grown(w, x, n) ==
  /\ x \in BinaryWriters
  /\ Len(x.out) - Len(w.out) \in 0 .. n
  /\ x.offset - w.offset \in 0 .. (Len(x.out) - Len(w.out))
  /\ x.err = "none" => x.offset - w.offset = Len(x.out) - Len(w.out)

LEMMA GrownNot == ASSUME NEW w \in BinaryWriters PROVE Grown(w, w, 0)
BY DEF BinaryWriters, Grown

LEMMA GrownWeaker ==
  ASSUME NEW w \in BinaryWriters, NEW m \in Nat, NEW n \in Nat, m <= n,
         NEW x, Grown(w, x, m)
  PROVE  Grown(w, x, n)
<1>1. Len(x.out) - Len(w.out) \in 0 .. n
  BY DEF Grown, BinaryWriters
<1> QED
  BY <1>1 DEF Grown

LEMMA WroteGrows ==
  ASSUME NEW w \in BinaryWriters, w.err = "none", NEW b \in Seq(Byte)
  PROVE  Grown(w, Wrote(w, b), Len(b)) /\ Wrote(w, b).err = "none"
<1> DEFINE x == Wrote(w, b)
<1>1. w.out \in Seq(Byte) /\ w.offset \in Nat /\ Len(b) \in Nat /\ Len(w.out) \in Nat
  BY DEF BinaryWriters
<1>2. w.out \o b \in Seq(Byte) /\ Len(w.out \o b) = Len(w.out) + Len(b)
  BY <1>1
<1> DEFINE out == w.out \o b
           offset == w.offset + Len(b)
<1>0. x = [w EXCEPT !.out = out, !.offset = offset]
  BY DEF Wrote
<1>5. out \in Seq(Byte) /\ offset \in Nat
  BY <1>1, <1>2
<1> HIDE DEF x, out, offset
<1>6. x \in BinaryWriters /\ x.out = out /\ x.offset = offset /\ x.err = "none"
  BY <1>0, <1>5 DEF BinaryWriters
<1>3. /\ x \in BinaryWriters
      /\ x.out = w.out \o b /\ x.offset = w.offset + Len(b) /\ x.err = "none"
  BY <1>6 DEF out, offset
<1>4. Len(x.out) - Len(w.out) = Len(b) /\ x.offset - w.offset = Len(b)
  BY <1>1, <1>2, <1>3
<1>7. Grown(w, x, Len(b))
  BY <1>1, <1>3, <1>4 DEF Grown
<1> QED
  BY <1>3, <1>7 DEF x

LEMMA WriteFixedGrows ==
  ASSUME NEW w \in BinaryWriters, w.err = "none", NEW b \in Seq(Byte),
         NEW x \in WriteFixed(w, b)
  PROVE  Grown(w, x, Len(b)) /\ (x.err = "none" => x = Wrote(w, b))
<1>1. CASE x = Wrote(w, b)
  BY <1>1, WroteGrows
<1>2. CASE \E k \in 0 .. Len(b) : x = Cut(w, b, k)
  <2>1. PICK k \in 0 .. Len(b) : x = Cut(w, b, k)
    BY <1>2
  <2>2. w.out \in Seq(Byte) /\ w.offset \in Nat /\ Len(b) \in Nat /\ Len(w.out) \in Nat
    BY DEF BinaryWriters
  <2> DEFINE part == SubSeq(b, 1, k)
  <2>3. part \in Seq(Byte) /\ Len(part) = k
    BY <2>2, SubSeqProperties
  <2> HIDE DEF part
  <2>4. w.out \o part \in Seq(Byte) /\ Len(w.out \o part) = Len(w.out) + k
    BY <2>2, <2>3
  <2>5. x = [w EXCEPT !.out = w.out \o part, !.err = "sink"]
    BY <2>1 DEF Cut, part
  <2>6. /\ x \in BinaryWriters
        /\ x.out = w.out \o part /\ x.offset = w.offset /\ x.err = "sink"
    BY <2>2, <2>4, <2>5 DEF BinaryWriters
  <2>7. Len(x.out) - Len(w.out) = k /\ x.offset - w.offset = 0
    BY <2>2, <2>4, <2>6
  <2> QED
    BY <2>2, <2>6, <2>7 DEF Grown
<1> QED
  BY <1>1, <1>2 DEF WriteFixed

\* Writing on, n bytes after m.
LEMMA GrownTransitive ==
  ASSUME NEW w \in BinaryWriters, NEW m \in Nat, NEW n \in Nat,
         NEW x, Grown(w, x, m), x.err = "none", NEW y, Grown(x, y, n)
  PROVE  Grown(w, y, m + n)
<1>1. /\ w.offset \in Nat /\ x.offset \in Nat /\ y.offset \in Nat
      /\ Len(w.out) \in Nat /\ Len(x.out) \in Nat /\ Len(y.out) \in Nat
  BY DEF Grown, BinaryWriters
<1>2. /\ Len(x.out) - Len(w.out) \in 0 .. m
      /\ x.offset - w.offset = Len(x.out) - Len(w.out)
  BY DEF Grown
<1>3. /\ y \in BinaryWriters
      /\ Len(y.out) - Len(x.out) \in 0 .. n
      /\ y.offset - x.offset \in 0 .. (Len(y.out) - Len(x.out))
      /\ y.err = "none" => y.offset - x.offset = Len(y.out) - Len(x.out)
  BY DEF Grown
<1>4. /\ Len(y.out) - Len(w.out) \in 0 .. (m + n)
      /\ y.offset - w.offset \in 0 .. (Len(y.out) - Len(w.out))
      /\ y.err = "none" => y.offset - w.offset = Len(y.out) - Len(w.out)
  <2> DEFINE lw == Len(w.out)
             lx == Len(x.out)
             ly == Len(y.out)
  <2>1. /\ lw \in Nat /\ lx \in Nat /\ ly \in Nat
        /\ lx - lw \in 0 .. m /\ ly - lx \in 0 .. n
    BY <1>1, <1>2, <1>3
  <2> HIDE DEF lw, lx, ly
  <2>2. ly - lw \in 0 .. (m + n) /\ ly - lw = (ly - lx) + (lx - lw)
    BY <2>1
  <2>3. y.offset - w.offset = (y.offset - x.offset) + (lx - lw)
    <3> DEFINE ow == w.offset
               ox == x.offset
               oy == y.offset
    <3>1. ow \in Nat /\ ox \in Nat /\ oy \in Nat
      BY <1>1
    <3>2. ox - ow = lx - lw
      BY <1>2 DEF lx, lw
    <3> HIDE DEF ow, ox, oy
    <3>3. oy - ow = (oy - ox) + (lx - lw)
      BY <2>1, <3>1, <3>2
    <3> QED
      BY <3>3 DEF ow, ox, oy
  <2>4. /\ y.offset - x.offset \in 0 .. (ly - lx)
        /\ y.err = "none" => y.offset - x.offset = ly - lx
    BY <1>3 DEF ly, lx
  <2>5. y.offset - w.offset \in 0 .. (ly - lw)
    BY <2>1, <2>2, <2>3, <2>4
  <2>6. y.err = "none" => y.offset - w.offset = ly - lw
    BY <2>2, <2>3, <2>4
  <2> QED
    BY <2>2, <2>5, <2>6 DEF ly, lw
<1> QED
  BY <1>3, <1>4 DEF Grown

LEMMA AndThenFixedGrows ==
  ASSUME NEW w \in BinaryWriters, NEW m \in Nat, NEW writers,
         \A x \in writers : Grown(w, x, m),
         NEW b \in Seq(Byte), NEW y \in AndThenFixed(writers, b)
  PROVE  Grown(w, y, m + Len(b))
<1>1. PICK x \in writers : y \in IF x.err = "none" THEN WriteFixed(x, b) ELSE {x}
  BY DEF AndThenFixed
<1>0. Grown(w, x, m) /\ Len(b) \in Nat
  OBVIOUS
<1>2. Grown(w, x, m) /\ x \in BinaryWriters /\ Len(b) \in Nat
  BY <1>0 DEF Grown
<1>3. CASE x.err = "none"
  <2>1. Grown(x, y, Len(b))
    BY <1>1, <1>2, <1>3, WriteFixedGrows
  <2> QED
    BY <1>2, <1>3, <2>1, GrownTransitive
<1>4. CASE x.err # "none"
  <2>1. y = x
    BY <1>1, <1>4
  <2>2. m + Len(b) \in Nat /\ m <= m + Len(b)
    BY <1>2
  <2> QED
    BY <1>2, <2>1, <2>2, GrownWeaker
<1> QED
  BY <1>3, <1>4

LEMMA WriteLongGrows ==
  ASSUME NEW w \in BinaryWriters, w.err = "none", NEW l \in Long,
         NEW x \in WriteLong(w, l)
  PROVE  Grown(w, x, Len(PutVarint(l))) /\ (x.err = "none" => x = Wrote(w, PutVarint(l)))
BY PutVarintIsBytes, WriteFixedGrows DEF WriteLong

LEMMA AndThenLongGrows ==
  ASSUME NEW w \in BinaryWriters, NEW m \in Nat, NEW writers,
         \A x \in writers : Grown(w, x, m),
         NEW l \in Long, NEW y \in AndThenLong(writers, l)
  PROVE  Grown(w, y, m + Len(PutVarint(l)))
BY PutVarintIsBytes, AndThenFixedGrows DEF AndThenLong

LEMMA RefusedGrows ==
  ASSUME NEW w \in BinaryWriters, NEW n \in Nat, NEW x, Grown(w, x, n)
  PROVE  Grown(w, [x EXCEPT !.err = "item"], n)
<1> DEFINE y == [x EXCEPT !.err = "item"]
<1>1. x \in BinaryWriters
  BY DEF Grown
<1>2. y \in BinaryWriters /\ y.out = x.out /\ y.offset = x.offset /\ y.err = "item"
  BY <1>1 DEF BinaryWriters
<1> HIDE DEF y
<1>3. Grown(w, y, n)
  BY <1>2 DEF Grown
<1> QED
  BY <1>3 DEF y

-----------------------------------------------------------------------------
(***************************************************************************)
(* What the writer's operations leave: a beginning of what they write, and *)
(* all of it if they do not fail.                                          *)
(***************************************************************************)
Part(w, x, b) ==
  /\ x \in BinaryWriters
  /\ Len(w.out) <= Len(x.out)
  /\ Begins(x.out, w.out \o b)
  /\ x.err = "none" => x.out = w.out \o b

LEMMA Regroup ==
  ASSUME NEW s \in Seq(Byte), NEW t \in Seq(Byte), NEW u \in Seq(Byte)
  PROVE  (s \o t) \o u = s \o (t \o u)
OBVIOUS

LEMMA JoinedIsBytes ==
  ASSUME NEW s \in Seq(Byte), NEW t \in Seq(Byte)
  PROVE  s \o t \in Seq(Byte)
OBVIOUS

LEMMA BeginsLater ==
  ASSUME NEW s \in Seq(Byte), NEW t \in Seq(Byte), NEW c \in Seq(Byte), Begins(s, t)
  PROVE  Begins(s, t \o c)
<1>1. /\ Len(t \o c) = Len(t) + Len(c) /\ \A i \in 1 .. Len(t) : (t \o c)[i] = t[i]
      /\ Len(s) \in Nat /\ Len(t) \in Nat /\ Len(c) \in Nat
  OBVIOUS
<1>2. Len(s) <= Len(t) /\ \A i \in 1 .. Len(s) : s[i] = t[i]
  BY DEF Begins
<1>3. ASSUME NEW i \in 1 .. Len(s) PROVE s[i] = (t \o c)[i]
  <2>1. i \in 1 .. Len(t)
    BY <1>1, <1>2
  <2> QED
    BY <1>1, <1>2, <2>1
<1>4. Len(s) <= Len(t \o c)
  BY <1>1, <1>2
<1> QED
  BY <1>3, <1>4 DEF Begins

LEMMA BeginsAll ==
  ASSUME NEW s \in Seq(Byte)
  PROVE  Begins(s, s) /\ Begins(s, s \o << >>) /\ s \o << >> = s
<1>1. s \o << >> = s /\ Len(s) \in Nat
  OBVIOUS
<1>2. Begins(s, s)
  BY <1>1 DEF Begins
<1> QED
  BY <1>1, <1>2

\* A beginning of the same length is the whole.
LEMMA BeginsWhole ==
  ASSUME NEW s \in Seq(Byte), NEW t \in Seq(Byte), Begins(s, t), Len(s) >= Len(t)
  PROVE  s = t
<1>1. Len(s) \in Nat /\ Len(t) \in Nat /\ Len(s) <= Len(t) /\ \A i \in 1 .. Len(s) : s[i] = t[i]
  BY DEF Begins
<1>2. Len(s) = Len(t)
  BY <1>1
<1>3. s = [i \in 1 .. Len(s) |-> s[i]] /\ t = [i \in 1 .. Len(t) |-> t[i]]
  OBVIOUS
<1> QED
  BY <1>1, <1>2, <1>3

LEMMA PartFixed ==
  ASSUME NEW w \in BinaryWriters, w.err = "none", NEW b \in Seq(Byte), NEW x \in WriteFixed(w, b)
  PROVE  Part(w, x, b)
<1>1. /\ x \in BinaryWriters /\ w.out \in Seq(Byte) /\ Len(w.out) \in Nat /\ Len(b) \in Nat
      /\ Len(w.out) <= Len(x.out)
  <2>1. Grown(w, x, Len(b))
    BY WriteFixedGrows
  <2>2. w.out \in Seq(Byte) /\ Len(w.out) \in Nat /\ Len(b) \in Nat
    BY DEF BinaryWriters
  <2>3. x \in BinaryWriters /\ Len(x.out) - Len(w.out) \in 0 .. Len(b)
    BY <2>1 DEF Grown
  <2>4. Len(x.out) \in Nat
    BY <2>3 DEF BinaryWriters
  <2>5. \A m, n, k \in Nat : n - m \in 0 .. k => m <= n
    OBVIOUS
  <2> QED
    BY <2>2, <2>3, <2>4, <2>5
<1>2. CASE x = Wrote(w, b)
  <2>1. x.out = w.out \o b
    BY <1>2 DEF Wrote, BinaryWriters
  <2>2. w.out \o b \in Seq(Byte)
    BY <1>1
  <2>3. Begins(x.out, w.out \o b)
    BY <2>1, <2>2, BeginsAll
  <2> QED
    BY <1>1, <2>1, <2>3 DEF Part
<1>3. CASE \E k \in 0 .. Len(b) : x = Cut(w, b, k)
  <2>1. PICK k \in 0 .. Len(b) : x = Cut(w, b, k)
    BY <1>3
  <2> DEFINE part == SubSeq(b, 1, k)
  <2>2. part \in Seq(Byte) /\ Len(part) = k /\ \A i \in 1 .. k : part[i] = b[i]
    BY <1>1, SubSeqProperties
  <2>3. x.out = w.out \o part /\ x.err = "sink"
    BY <2>1 DEF Cut, BinaryWriters
  <2> HIDE DEF part
  <2> DEFINE n == Len(w.out)
             t == w.out
  <2>4. /\ Len(t \o part) = n + k /\ Len(t \o b) = n + Len(b)
        /\ \A i \in 1 .. n : (t \o part)[i] = t[i] /\ (t \o b)[i] = t[i]
        /\ \A i \in 1 .. k : (t \o part)[n + i] = part[i]
        /\ \A i \in 1 .. Len(b) : (t \o b)[n + i] = b[i]
    <3>1. t \in Seq(Byte) /\ part \in Seq(Byte) /\ b \in Seq(Byte)
      BY <1>1, <2>2
    <3> HIDE DEF t
    <3>2. /\ Len(t \o part) = Len(t) + Len(part)
          /\ \A i \in 1 .. Len(t) : (t \o part)[i] = t[i]
          /\ \A i \in 1 .. Len(part) : (t \o part)[Len(t) + i] = part[i]
      BY <3>1, Joined
    <3>3. /\ Len(t \o b) = Len(t) + Len(b)
          /\ \A i \in 1 .. Len(t) : (t \o b)[i] = t[i]
          /\ \A i \in 1 .. Len(b) : (t \o b)[Len(t) + i] = b[i]
      BY <3>1, Joined
    <3> QED
      BY <2>2, <3>2, <3>3 DEF t
  <2>5. ASSUME NEW i \in 1 .. n + k PROVE (t \o part)[i] = (t \o b)[i]
    <3>1. CASE i \in 1 .. n
      BY <2>4, <3>1
    <3>2. CASE i \notin 1 .. n
      <4>1. i - n \in 1 .. k /\ i - n \in 1 .. Len(b) /\ n + (i - n) = i
        BY <1>1, <3>2
      <4> QED
        BY <2>2, <2>4, <4>1
    <3> QED
      BY <3>1, <3>2
  <2>6. n + k <= n + Len(b)
    BY <1>1
  <2>7. Begins(t \o part, t \o b)
    <3> HIDE DEF t, n
    <3> QED
      BY <2>4, <2>5, <2>6 DEF Begins
  <2> QED
    BY <1>1, <2>3, <2>7 DEF Part
<1> QED
  BY <1>2, <1>3 DEF WriteFixed

\* Writing on, c after b.
LEMMA PartOn ==
  ASSUME NEW w \in BinaryWriters, NEW b \in Seq(Byte), NEW c \in Seq(Byte),
         NEW x, Part(w, x, b), NEW y,
         x.err = "none" => Part(x, y, c), x.err # "none" => y = x
  PROVE  Part(w, y, b \o c)
<1>1. /\ w.out \in Seq(Byte) /\ x \in BinaryWriters /\ x.out \in Seq(Byte)
      /\ w.out \o b \in Seq(Byte) /\ (w.out \o b) \o c = w.out \o (b \o c)
  <2>1. w.out \in Seq(Byte) /\ x \in BinaryWriters /\ x.out \in Seq(Byte)
    BY DEF Part, BinaryWriters
  <2>2. (w.out \o b) \o c = w.out \o (b \o c)
    <3>1. w.out \in Seq(Byte)
      BY <2>1
    <3> QED
      BY <3>1, Regroup, Zenon
  <2>3. w.out \o b \in Seq(Byte)
    BY <2>1, JoinedIsBytes
  <2> QED
    BY <2>1, <2>2, <2>3
<1>2. CASE x.err = "none"
  <2>1. x.out = w.out \o b /\ Len(w.out) <= Len(x.out)
    BY <1>2 DEF Part
  <2>2. x.out \o c = w.out \o (b \o c)
    BY <1>1, <2>1
  <2>3. /\ y \in BinaryWriters /\ Len(x.out) <= Len(y.out)
        /\ Begins(y.out, w.out \o (b \o c))
        /\ y.err = "none" => y.out = w.out \o (b \o c)
    BY <1>2, <2>2 DEF Part
  <2>4. Len(w.out) \in Nat /\ Len(x.out) \in Nat /\ Len(y.out) \in Nat
    BY <1>1, <2>3 DEF BinaryWriters
  <2>5. Len(w.out) <= Len(y.out)
    BY <2>1, <2>3, <2>4
  <2> QED
    BY <2>3, <2>5 DEF Part
<1>3. CASE x.err # "none"
  <2>1. Begins(x.out, w.out \o b) /\ Len(w.out) <= Len(x.out)
    BY DEF Part
  <2>2. Begins(x.out, (w.out \o b) \o c)
    BY <1>1, <2>1, BeginsLater
  <2> QED
    BY <1>1, <1>3, <2>1, <2>2 DEF Part
<1> QED
  BY <1>2, <1>3

LEMMA PartThen ==
  ASSUME NEW w \in BinaryWriters, NEW b \in Seq(Byte), NEW c \in Seq(Byte), NEW writers,
         \A x \in writers : Part(w, x, b), NEW y \in AndThenFixed(writers, c)
  PROVE  Part(w, y, b \o c)
<1>1. PICK x \in writers : y \in IF x.err = "none" THEN WriteFixed(x, c) ELSE {x}
  BY DEF AndThenFixed
<1>2. Part(w, x, b)
  OBVIOUS
<1>3. x \in BinaryWriters
  BY <1>2 DEF Part
<1>4. x.err = "none" => Part(x, y, c)
  BY <1>1, <1>3, PartFixed
<1>5. x.err # "none" => y = x
  BY <1>1
<1> QED
  BY <1>2, <1>4, <1>5, PartOn

\* An operation that gives up on its own account.
LEMMA PartRefused ==
  ASSUME NEW w, NEW x \in BinaryWriters, NEW b, Begins(x.out, w.out \o b),
         Len(w.out) <= Len(x.out)
  PROVE  Part(w, [x EXCEPT !.err = "item"], b)
<1> DEFINE y == [x EXCEPT !.err = "item"]
<1>1. y \in BinaryWriters /\ y.out = x.out /\ y.err = "item"
  BY DEF BinaryWriters
<1> HIDE DEF y
<1>2. Part(w, y, b)
  BY <1>1 DEF Part
<1> QED
  BY <1>2 DEF y

LEMMA ItemEncodes ==
  ASSUME NEW v \in Items, Len(v) \in Long, NEW nl
  PROVE  /\ Encoding(nl, v) \in Seq(Byte)
         /\ v \in Seq(Byte) /\ PutVarint(Len(v)) \in Seq(Byte) /\ Len(v) \in Long
<1>1. v \in Seq(Byte) /\ PutVarint(Len(v)) \in Seq(Byte)
  BY ItemsAssumption, PutVarintIsBytes
<1> QED
  BY <1>1 DEF Encoding

LEMMA MarshalWrites ==
  ASSUME NEW w \in BinaryWriters, w.err = "none", NEW v \in Items, Len(v) \in Long,
         NEW y \in Marshal(w, v)
  PROVE  Part(w, y, Encoding(nulls, v))
<1> DEFINE length == PutVarint(Len(v))
           begun == Wrote(w, length)
           refuse(x) == [x EXCEPT !.err = "item"]
<1>1. v \in Seq(Byte) /\ length \in Seq(Byte) /\ Len(v) \in Long /\ w.out \in Seq(Byte)
  BY ItemEncodes DEF BinaryWriters
<1>2. CASE nulls
  <2>1. y = w \/ y = refuse(w)
    BY <1>2 DEF Marshal
  <2>2. Encoding(nulls, v) = << >> /\ Begins(w.out, w.out \o << >>) /\ w.out \o << >> = w.out
    BY <1>1, <1>2, BeginsAll DEF Encoding
  <2>3. Part(w, w, << >>) /\ Part(w, refuse(w), << >>)
    <3>1. Len(w.out) <= Len(w.out)
      BY <1>1
    <3> QED
      BY <2>2, <3>1, PartRefused DEF Part
  <2> QED
    BY <2>1, <2>2, <2>3
<1>3. CASE ~nulls
  <2>1. Encoding(nulls, v) = length \o v /\ length \o v \in Seq(Byte)
    BY <1>1, <1>3 DEF Encoding
  <2>2. /\ begun \in BinaryWriters /\ begun.err = "none" /\ begun.out = w.out \o length
    BY <1>1, WroteGrows DEF Grown, Wrote, BinaryWriters
  <2>3. /\ Wrote(begun, v) \in BinaryWriters /\ Wrote(begun, v).out = begun.out \o v
    BY <1>1, <2>2, WroteGrows DEF Grown, Wrote, BinaryWriters
  <2>4. \/ y \in WriteBytes(w, v) \/ y = refuse(w)
        \/ y = refuse(begun) \/ y = refuse(Wrote(begun, v))
    BY <1>3 DEF Marshal
  <2>5. CASE y \in WriteBytes(w, v)
    <3>1. \A x \in WriteLong(w, Len(v)) : Part(w, x, length)
      BY <1>1, PartFixed DEF WriteLong
    <3>2. y \in AndThenFixed(WriteLong(w, Len(v)), v)
      BY <2>5 DEF WriteBytes
    <3> HIDE DEF begun, length
    <3>3. Part(w, y, length \o v)
      BY <1>1, <3>1, <3>2, PartThen
    <3> QED
      BY <2>1, <3>3
  <2> HIDE DEF begun, length
  <2>6. (w.out \o length) \o v = w.out \o (length \o v) /\ w.out \o length \in Seq(Byte)
        /\ w.out \o (length \o v) \in Seq(Byte)
    <3>1. (w.out \o length) \o v = w.out \o (length \o v)
      BY <1>1, Regroup, Zenon
    <3>2. w.out \o length \in Seq(Byte) /\ w.out \o (length \o v) \in Seq(Byte)
      BY <1>1, <2>1, JoinedIsBytes, Zenon
    <3> QED
      BY <3>1, <3>2
  <2>0. /\ Len(w.out) <= Len(w.out) /\ Len(w.out) <= Len(w.out \o length)
        /\ Len(w.out) <= Len(w.out \o (length \o v))
    <3>1. \A a, t \in Seq(Byte) : Len(a) <= Len(a) /\ Len(a) <= Len(a \o t)
      OBVIOUS
    <3> QED
      BY <1>1, <2>1, <3>1, Zenon
  <2>7. /\ Begins(w.out, w.out \o (length \o v))
        /\ Begins(w.out \o length, (w.out \o length) \o v)
        /\ Begins(w.out \o (length \o v), w.out \o (length \o v))
    BY <1>1, <2>1, <2>6, BeginsAll, BeginsLater
  <2>8. Part(w, refuse(w), length \o v)
    BY <2>0, <2>7, PartRefused
  <2>9. Part(w, refuse(begun), length \o v)
    BY <2>0, <2>2, <2>6, <2>7, PartRefused
  <2>10. Part(w, refuse(Wrote(begun, v)), length \o v)
    BY <2>0, <2>2, <2>3, <2>6, <2>7, PartRefused
  <2> QED
    BY <2>1, <2>4, <2>5, <2>8, <2>9, <2>10
<1> QED
  BY <1>2, <1>3

-----------------------------------------------------------------------------
(***************************************************************************)
(* What the reads of BinaryReader give.                                    *)
(***************************************************************************)

\* Where a read may leave the reader, and with which error.
Consumed(res, off) == res.off \in off .. Len(wire)

LEMMA ReadFixedResult ==
  ASSUME StreamTypeOK, NEW off \in 0 .. Len(wire), NEW n \in Nat
  PROVE  LET r == ReadFixed(wire, end, off, n)
         IN  /\ Consumed(r, off)
             /\ r.val \in Seq(Byte)
             /\ r.err \in {"none", "eof", "unexpectedEOF", "source"}
<1>1. wire \in Seq(Byte) /\ Len(wire) \in Nat /\ off \in Nat
  BY DEF StreamTypeOK
<1>2. CASE off + n <= Len(wire)
  <2>1. SubSeq(wire, off + 1, off + n) \in Seq(Byte)
    BY <1>1, <1>2, SubSeqProperties
  <2> QED
    BY <1>1, <1>2, <2>1 DEF ReadFixed, Result, Consumed
<1>3. CASE ~(off + n <= Len(wire))
  BY <1>1, <1>3 DEF ReadFixed, Result, Consumed, ReadFullError
<1> QED
  BY <1>2, <1>3

LEMMA ReadLongResult ==
  ASSUME StreamTypeOK, NEW off \in 0 .. Len(wire)
  PROVE  LET r == ReadLong(wire, end, off)
         IN  /\ Consumed(r, off)
             /\ r.val \in Long
             /\ r.err \in {"none", "eof", "source", "overflow"}
<1> DEFINE ends == LastGroups(wire, off)
           n == Min(ends)
<1>1. wire \in Seq(Byte) /\ Len(wire) \in Nat /\ off \in Nat
  BY DEF StreamTypeOK
<1>2. MaxLen \in Nat /\ 0 \in Long
  BY VarintAssumption, HalfIsPositive DEF Long
<1>3. CASE ends # {}
  <2>1. ends \in SUBSET Nat
    BY <1>2 DEF LastGroups
  <2>2. n \in ends
    BY <1>3, <2>1, MinOfNats
  <2>3. n \in 1 .. MaxLen /\ off + n <= Len(wire)
    BY <2>2 DEF LastGroups
  <2> DEFINE bytes == SubSeq(wire, off + 1, off + n)
  <2>4. bytes \in Seq(Byte) /\ Len(bytes) = n
    BY <1>1, <1>2, <2>3, SubSeqProperties
  <2>5. VarintValue(bytes) \in Long
    <3> HIDE DEF bytes, n, ends
    <3>1. Len(bytes) <= MaxLen
      BY <1>2, <2>3, <2>4
    <3> QED
      BY <2>4, <3>1, VarintValueIsLong
  <2>6. ReadLong(wire, end, off) = Result(off + n, "none", VarintValue(bytes))
    BY <1>3 DEF ReadLong
  <2> HIDE DEF bytes, n, ends
  <2> QED
    BY <1>1, <1>2, <2>3, <2>5, <2>6 DEF Result, Consumed
<1>4. CASE ends = {}
  <2>1. CASE off + MaxLen <= Len(wire)
    <3>1. ReadLong(wire, end, off) = Result(off + MaxLen, "overflow", 0)
      BY <1>4, <2>1 DEF ReadLong
    <3> QED
      BY <1>1, <1>2, <2>1, <3>1 DEF Result, Consumed
  <2>2. CASE ~(off + MaxLen <= Len(wire))
    <3>1. ReadLong(wire, end, off) = Result(Len(wire), ReadFullError(end, 0), 0)
      BY <1>4, <2>2 DEF ReadLong
    <3> QED
      BY <1>1, <1>2, <3>1 DEF Result, Consumed, ReadFullError
  <2> QED
    BY <2>1, <2>2
<1> QED
  BY <1>3, <1>4

LEMMA UnmarshalResult ==
  ASSUME StreamTypeOK, NEW off \in 0 .. Len(wire)
  PROVE  /\ Consumed(Unmarshal(off), off)
         /\ Unmarshal(off).val \in Seq(Byte)
         /\ Unmarshal(off).err \in ReaderErrors
<1> DEFINE n == ReadLong(wire, end, off)
<1>1. Len(wire) \in Nat /\ << >> \in Seq(Byte)
  BY DEF StreamTypeOK
<1>2. CASE nulls
  BY <1>1, <1>2 DEF Unmarshal, Result, Consumed, ReaderErrors
<1>3. CASE ~nulls
  <2>1. /\ n.off \in off .. Len(wire)
        /\ n.val \in Long
        /\ n.err \in {"none", "eof", "source", "overflow"}
    BY ReadLongResult DEF Consumed
  <2>2. Unmarshal(off) = ReadBytes(wire, end, off)
    BY <1>3 DEF Unmarshal
  <2> DEFINE b == ReadFixed(wire, end, n.off, n.val)
  <2>3. CASE n.err = "none" /\ ~(n.val < 0) /\ ~(n.val >= IntHalf)
    <3>1. Unmarshal(off) = b
      BY <2>2, <2>3 DEF ReadBytes
    <3>2. n.off \in 0 .. Len(wire) /\ n.val \in Nat
      BY <1>1, <2>1, <2>3, HalfIsPositive DEF Long
    <3>3. /\ Consumed(b, n.off)
          /\ b.val \in Seq(Byte)
          /\ b.err \in {"none", "eof", "unexpectedEOF", "source"}
      BY <3>2, ReadFixedResult
    <3> HIDE DEF b, n
    <3> QED
      BY <1>1, <2>1, <3>1, <3>3 DEF Consumed, ReaderErrors, EndOfInput
  <2>4. CASE ~(n.err = "none" /\ ~(n.val < 0) /\ ~(n.val >= IntHalf))
    <3>1. \E e \in {n.err, "negativeLength", "overflow"} :
            e # "none" /\ Unmarshal(off) = Result(n.off, e, << >>)
      BY <2>2, <2>4 DEF ReadBytes
    <3> HIDE DEF n
    <3> QED
      BY <1>1, <2>1, <3>1 DEF Result, Consumed, ReaderErrors, EndOfInput
  <2> QED
    BY <2>3, <2>4
<1> QED
  BY <1>2, <1>3

-----------------------------------------------------------------------------
(***************************************************************************)
(* What the steps of ArrayReader leave.                                    *)
(***************************************************************************)

\* A reader of the right type, somewhere on the stream.
Standing(r) == r \in Readers /\ r.off \in 0 .. Len(wire)

\* Failing somewhere on the stream leaves a reader that is in no block.
LEMMA FailStands ==
  ASSUME StreamTypeOK, NEW r \in Readers,
         NEW off \in 0 .. Len(wire), NEW e \in ReaderErrors \ {"none"}
  PROVE  Standing(Fail(r, off, e)) /\ ~InBlock(Fail(r, off, e))
<1>1. Len(wire) \in Nat
  BY DEF StreamTypeOK
<1>2. off \in Nat /\ e \in ReaderErrors /\ e # "none"
  BY <1>1
<1>3. /\ Fail(r, off, e) \in Readers
      /\ Fail(r, off, e).off = off
      /\ Fail(r, off, e).err = e
  BY <1>2 DEF Fail, Readers
<1> QED
  BY <1>2, <1>3 DEF Standing, InBlock

\* The header of a sized block leaves a failed reader or one with items.
LEMMA SizedHeaderStands ==
  ASSUME StreamTypeOK, NEW r \in Readers, r.err = "none",
         NEW off \in 0 .. Len(wire), NEW count \in Long, count < 0
  PROVE  LET q == SizedHeader(r, off, count)
         IN  Standing(q) /\ (InBlock(q) => q.remaining > 0)
<1> DEFINE size == ReadLong(wire, end, off)
           sized == [r EXCEPT !.sized = TRUE]
           placed == [sized EXCEPT !.blockEnd = BlockEnd(size)]
           q == SizedHeader(r, off, count)
<1>1. Len(wire) \in Nat /\ Half \in Nat \ {0}
  BY HalfIsPositive DEF StreamTypeOK
<1>2. /\ size.off \in off .. Len(wire)
      /\ size.val \in Long
      /\ size.err \in {"none", "eof", "source", "overflow"}
  BY ReadLongResult DEF Consumed
<1>3. size.off \in 0 .. Len(wire)
  BY <1>1, <1>2
<1>4. BlockEnd(size) \in Long
  <2>1. size.off + size.val \in Int
    BY <1>1, <1>2, <1>3 DEF Long
  <2> QED
    BY <2>1, WrapIsLong DEF BlockEnd
<1>5. sized \in Readers /\ sized.err = "none"
  BY DEF Readers
<1>6. placed \in Readers /\ placed.err = "none"
  BY <1>4, <1>5 DEF Readers
<1> HIDE DEF size, sized, placed
<1>7. CASE NoMagnitude(count)
  <2>1. q = Fail(sized, off, "overflow")
    BY <1>7 DEF SizedHeader, sized, size
  <2> QED
    BY <1>5, <2>1, FailStands DEF ReaderErrors
<1>8. CASE ~NoMagnitude(count) /\ size.err # "none"
  <2>1. q = Fail(sized, size.off, UnexpectedEOF(size.err))
    BY <1>8 DEF SizedHeader, sized, size
  <2>2. UnexpectedEOF(size.err) \in ReaderErrors \ {"none"}
    BY <1>2, <1>8 DEF UnexpectedEOF, ReaderErrors, EndOfInput
  <2> QED
    BY <1>3, <1>5, <2>1, <2>2, FailStands
<1>9. CASE ~NoMagnitude(count) /\ size.err = "none" /\ size.val < 0
  <2>1. q = Fail(sized, size.off, "negativeLength")
    BY <1>9 DEF SizedHeader, sized, size
  <2> QED
    BY <1>3, <1>5, <2>1, FailStands DEF ReaderErrors
<1>10. CASE /\ ~NoMagnitude(count) /\ size.err = "none" /\ ~(size.val < 0)
            /\ BlockEnd(size) < 0
  <2>1. q = Fail(placed, size.off, "overflow")
    BY <1>10 DEF SizedHeader, placed, sized, size
  <2> QED
    BY <1>3, <1>6, <2>1, FailStands DEF ReaderErrors
<1>11. CASE /\ ~NoMagnitude(count) /\ size.err = "none" /\ ~(size.val < 0)
            /\ ~(BlockEnd(size) < 0)
  <2>1. q = [placed EXCEPT !.off = size.off, !.remaining = Wrap(-count)]
    BY <1>11 DEF SizedHeader, placed, sized, size
  <2>2. -count \in Long /\ -count > 0
    BY <1>1, <1>11 DEF NoMagnitude, Long
  <2>3. Wrap(-count) \in Nat /\ Wrap(-count) > 0
    BY <1>1, <2>2, WrapOfLong DEF Long
  <2>4. /\ q \in Readers
        /\ q.off = size.off
        /\ q.remaining = Wrap(-count)
    <3>1. size.off \in Nat
      BY <1>1, <1>3
    <3> HIDE DEF q
    <3> QED
      BY <1>6, <2>1, <2>3, <3>1 DEF Readers
  <2> QED
    BY <1>3, <2>3, <2>4 DEF Standing
<1> QED
  BY <1>7, <1>8, <1>9, <1>10, <1>11

\* So do nextBlock and the callers that enter a block if they are in none.
LEMMA PositionedStands ==
  ASSUME StreamTypeOK, NEW r, Standing(r), r.err = "none"
  PROVE  /\ Standing(Positioned(r))
         /\ InBlock(Positioned(r)) => Positioned(r).remaining > 0
<1> DEFINE c == ReadLong(wire, end, r.off)
           q == NextBlock(r)
<1>1. Len(wire) \in Nat /\ Half \in Nat \ {0}
  BY HalfIsPositive DEF StreamTypeOK
<1>2. r \in Readers /\ r.off \in 0 .. Len(wire)
  BY DEF Standing
<1>3. /\ c.off \in r.off .. Len(wire)
      /\ c.val \in Long
      /\ c.err \in {"none", "eof", "source", "overflow"}
  BY <1>2, ReadLongResult DEF Consumed
<1>4. c.off \in 0 .. Len(wire)
  BY <1>1, <1>2, <1>3
<1> HIDE DEF c
<1>5. CASE r.remaining # 0
  BY <1>2, <1>5 DEF Positioned, Standing, Readers
<1>6. CASE r.remaining = 0
  <2>1. Positioned(r) = q
    BY <1>6 DEF Positioned
  <2>2. CASE c.err # "none"
    <3>1. q = Fail(r, c.off, CountError(r.off, c))
      BY <2>2 DEF NextBlock, c
    <3>2. CountError(r.off, c) \in ReaderErrors \ {"none"}
      BY <1>3, <2>2 DEF CountError, UnexpectedEOF, ReaderErrors, EndOfInput
    <3> QED
      BY <1>2, <1>4, <2>1, <3>1, <3>2, FailStands
  <2>3. CASE c.err = "none" /\ c.val = 0
    <3>1. q = [r EXCEPT !.off = c.off, !.done = TRUE]
      BY <2>3 DEF NextBlock, c
    <3>2. c.off \in Nat
      BY <1>1, <1>4
    <3>3. q \in Readers /\ q.off = c.off /\ q.done
      BY <1>2, <3>1, <3>2 DEF Readers
    <3> QED
      BY <1>4, <2>1, <3>3 DEF Standing, InBlock
  <2>4. CASE c.err = "none" /\ c.val < 0
    <3>1. c.val # 0
      BY <1>1, <1>3, <2>4 DEF Long
    <3>2. q = SizedHeader(r, c.off, c.val)
      BY <2>4, <3>1 DEF NextBlock, c
    <3> QED
      BY <1>2, <1>3, <1>4, <2>1, <2>4, <3>2, SizedHeaderStands
  <2>5. CASE c.err = "none" /\ c.val # 0 /\ ~(c.val < 0)
    <3>1. q = [r EXCEPT !.off = c.off, !.sized = FALSE, !.remaining = c.val]
      BY <2>5 DEF NextBlock, c
    <3>2. c.val \in Nat /\ c.val > 0
      BY <1>1, <1>3, <2>5 DEF Long
    <3>3. c.off \in Nat
      BY <1>1, <1>4
    <3>4. q \in Readers /\ q.off = c.off /\ q.remaining = c.val
      BY <1>2, <3>1, <3>2, <3>3 DEF Readers
    <3> QED
      BY <1>4, <2>1, <3>2, <3>4 DEF Standing
  <2> QED
    BY <2>2, <2>3, <2>4, <2>5
<1> QED
  BY <1>5, <1>6

(***************************************************************************)
(* A call of Next that starts aligned ends on the stream, and aligned.     *)
(***************************************************************************)
Aligned(r) == (InBlock(r) /\ r.sized /\ r.remaining = 0) => r.off = r.blockEnd

LEMMA DecodeNextStands ==
  ASSUME StreamTypeOK, NEW r, Standing(r), r.err = "none"
  PROVE  LET res == DecodeNext(r)
         IN  /\ Standing(res.rd) /\ Aligned(res.rd)
             /\ res.ok \in BOOLEAN /\ res.val \in Seq(Byte)
<1> DEFINE p == Positioned(r)
           item == Unmarshal(p.off)
           after == [p EXCEPT !.off = item.off, !.remaining = @ - 1]
           res == DecodeNext(r)
<1>1. Len(wire) \in Nat /\ << >> \in Seq(Byte)
  BY DEF StreamTypeOK
<1>2. Standing(p) /\ (InBlock(p) => p.remaining > 0)
  BY PositionedStands
<1>3. p \in Readers /\ p.off \in 0 .. Len(wire)
  BY <1>2 DEF Standing
<1>4. /\ item.off \in 0 .. Len(wire)
      /\ item.val \in Seq(Byte)
      /\ item.err \in ReaderErrors
  BY <1>1, <1>3, UnmarshalResult DEF Consumed
<1> HIDE DEF p, item
<1>5. CASE ~InBlock(p)
  <2>1. res = NoItem(p)
    BY <1>5 DEF DecodeNext, p
  <2> QED
    BY <1>1, <1>2, <1>5, <2>1 DEF NoItem, Aligned
<1>6. CASE InBlock(p) /\ item.err # "none"
  <2>1. res = NoItem(Fail(p, item.off, item.err))
    BY <1>6 DEF DecodeNext, p, item
  <2>2. /\ Standing(Fail(p, item.off, item.err))
        /\ ~InBlock(Fail(p, item.off, item.err))
    BY <1>3, <1>4, <1>6, FailStands
  <2> QED
    BY <1>1, <2>1, <2>2 DEF NoItem, Aligned
<1>7. CASE InBlock(p) /\ item.err = "none"
  <2>1. after \in Readers /\ after.off = item.off /\ after.off \in 0 .. Len(wire)
    <3>1. p.remaining - 1 \in Nat /\ item.off \in Nat
      BY <1>1, <1>2, <1>3, <1>4, <1>7 DEF Readers
    <3> QED
      BY <1>3, <1>4, <3>1 DEF Readers
  <2> HIDE DEF after
  <2>2. CASE SizeWrong(after)
    <3>1. res = NoItem(Fail(after, after.off, "blockSizeMismatch"))
      BY <1>7, <2>2 DEF DecodeNext, p, item, after
    <3>2. /\ Standing(Fail(after, after.off, "blockSizeMismatch"))
          /\ ~InBlock(Fail(after, after.off, "blockSizeMismatch"))
      BY <2>1, FailStands DEF ReaderErrors
    <3> QED
      BY <1>1, <3>1, <3>2 DEF NoItem, Aligned
  <2>3. CASE ~SizeWrong(after)
    <3>1. res = [rd |-> after, ok |-> TRUE, val |-> item.val, skipped |-> 0]
      BY <1>7, <2>3 DEF DecodeNext, p, item, after
    <3>2. Aligned(after)
      BY <2>3 DEF SizeWrong, Aligned
    <3> QED
      BY <1>4, <2>1, <3>1, <3>2 DEF Standing
  <2> QED
    BY <2>2, <2>3
<1> QED
  BY <1>5, <1>6, <1>7

(***************************************************************************)
(* So does a call of SkipBlock.                                            *)
(***************************************************************************)
LEMMA DiscardBlockStands ==
  ASSUME StreamTypeOK, NEW r, Standing(r), r.err = "none"
  PROVE  LET res == DiscardBlock(r)
         IN  Standing(res.rd) /\ Aligned(res.rd) /\ res.skipped \in Nat
<1> DEFINE p == Positioned(r)
           n == Unread(p)
           rest == Discard(wire, end, p.off, n)
           res == DiscardBlock(r)
<1>1. Len(wire) \in Nat /\ Half \in Nat \ {0}
  BY HalfIsPositive DEF StreamTypeOK
<1>2. Standing(p) /\ (InBlock(p) => p.remaining > 0)
  BY PositionedStands
<1>3. /\ p \in Readers /\ p.off \in 0 .. Len(wire) /\ p.off \in Int
      /\ p.blockEnd \in Int /\ p.remaining \in Nat
  BY <1>1, <1>2 DEF Standing, Readers, Long
<1> HIDE DEF p
<1>4. n \in Int /\ p.off + n = p.blockEnd
  BY <1>3 DEF Unread
<1> HIDE DEF n, rest
<1>5. CASE ~InBlock(p) \/ ~p.sized
  <2>1. res = NoItem(p)
    BY <1>5 DEF DiscardBlock, p
  <2> QED
    BY <1>2, <1>5, <2>1 DEF NoItem, Aligned
<1>6. CASE ~(~InBlock(p) \/ ~p.sized) /\ n < 0
  <2>1. res = NoItem(Fail(p, p.off, "blockSizeMismatch"))
    BY <1>6 DEF DiscardBlock, p, n
  <2>2. /\ Standing(Fail(p, p.off, "blockSizeMismatch"))
        /\ ~InBlock(Fail(p, p.off, "blockSizeMismatch"))
    BY <1>3, FailStands DEF ReaderErrors
  <2> QED
    BY <2>1, <2>2 DEF NoItem, Aligned
<1>7. CASE ~(~InBlock(p) \/ ~p.sized) /\ ~(n < 0)
  <2>1. /\ rest.off \in 0 .. Len(wire)
        /\ rest.err \in {"none", "source", "unexpectedEOF"}
        /\ rest.err = "none" => rest.off = p.blockEnd
    BY <1>1, <1>3, <1>4, <1>7 DEF rest, Discard, Result
  <2>2. CASE rest.err # "none"
    <3>1. res = NoItem(Fail(p, rest.off, rest.err))
      BY <1>7, <2>2 DEF DiscardBlock, p, n, rest
    <3>2. rest.err \in ReaderErrors \ {"none"}
      BY <2>1, <2>2 DEF ReaderErrors, EndOfInput
    <3>3. /\ Standing(Fail(p, rest.off, rest.err))
          /\ ~InBlock(Fail(p, rest.off, rest.err))
      BY <1>3, <2>1, <3>2, FailStands
    <3> QED
      BY <3>1, <3>3 DEF NoItem, Aligned
  <2>3. CASE rest.err = "none"
    <3>1. res = [NoItem(Skipped(p, rest.off)) EXCEPT !.skipped = p.remaining]
      BY <1>7, <2>3 DEF DiscardBlock, p, n, rest
    <3>2. /\ Standing(Skipped(p, rest.off))
          /\ Skipped(p, rest.off).off = Skipped(p, rest.off).blockEnd
      <4>1. rest.off \in Nat /\ 0 \in Nat
        BY <1>1, <2>1
      <4> DEFINE s == Skipped(p, rest.off)
      <4>2. s = [p EXCEPT !.off = rest.off, !.remaining = 0]
        BY DEF Skipped
      <4> HIDE DEF s
      <4>3. s \in Readers /\ s.off = rest.off /\ s.blockEnd = p.blockEnd
        BY <1>3, <4>1, <4>2 DEF Readers
      <4> QED
        BY <2>1, <2>3, <4>3 DEF s, Standing
    <3> HIDE DEF res
    <3>3. res.rd = Skipped(p, rest.off) /\ res.skipped = p.remaining
      BY <3>1 DEF NoItem
    <3> QED
      BY <1>3, <3>2, <3>3 DEF Aligned, res
  <2> QED
    BY <2>2, <2>3
<1> QED
  BY <1>5, <1>6, <1>7

-----------------------------------------------------------------------------
(***************************************************************************)
(* The steps of the reader keep the type and the alignment.                *)
(***************************************************************************)
ReaderInv == StreamTypeOK /\ ReaderTypeOK /\ Standing(rd) /\ Aligned(rd)

LEMMA ReadItemKeeps ==
  ASSUME ReaderInv, ReadItem, UNCHANGED streamVars
  PROVE  ReaderInv'
<1> DEFINE res == DecodeNext(rd)
<1>1. Standing(rd) /\ rd.err = "none" /\ StreamTypeOK /\ StreamTypeOK'
  BY DEF ReaderInv, ReadItem, Answered, StreamTypeOK, streamVars
<1>2. /\ Standing(res.rd) /\ Aligned(res.rd)
      /\ res.ok \in BOOLEAN /\ res.val \in Seq(Byte)
  BY <1>1, DecodeNextStands
<1> HIDE DEF res
<1>3. /\ rd' = res.rd
      /\ passed' = IF res.ok THEN passed + 1 ELSE passed
      /\ yielded' = IF res.ok THEN Append(yielded, <<passed + 1, res.val>>) ELSE yielded
  BY DEF ReadItem, res
<1>4. passed \in Nat /\ yielded \in Seq(Nat \X Seq(Byte))
  BY DEF ReaderInv, ReaderTypeOK
<1>5. passed' \in Nat /\ yielded' \in Seq(Nat \X Seq(Byte))
  <2>1. <<passed + 1, res.val>> \in Nat \X Seq(Byte)
    BY <1>2, <1>4
  <2> HIDE DEF res
  <2>2. \A T : \A s \in Seq(T), x \in T : Append(s, x) \in Seq(T)
    OBVIOUS
  <2> QED
    BY <1>3, <1>4, <2>1, <2>2
<1>6. Standing(rd)' /\ Aligned(rd)'
  BY <1>2, <1>3 DEF Standing, Aligned, InBlock, streamVars
<1> QED
  BY <1>1, <1>5, <1>6 DEF ReaderInv, ReaderTypeOK, Standing

LEMMA SkipBlockKeeps ==
  ASSUME ReaderInv, SkipBlock, UNCHANGED streamVars
  PROVE  ReaderInv'
<1> DEFINE res == DiscardBlock(rd)
<1>1. Standing(rd) /\ rd.err = "none" /\ StreamTypeOK /\ StreamTypeOK'
  BY DEF ReaderInv, SkipBlock, Answered, StreamTypeOK, streamVars
<1>2. Standing(res.rd) /\ Aligned(res.rd) /\ res.skipped \in Nat
  BY <1>1, DiscardBlockStands
<1> HIDE DEF res
<1>3. rd' = res.rd /\ passed' = passed + res.skipped /\ yielded' = yielded
  BY DEF SkipBlock, res
<1>4. Standing(rd)' /\ Aligned(rd)'
  BY <1>2, <1>3 DEF Standing, Aligned, InBlock, streamVars
<1> QED
  BY <1>1, <1>2, <1>3, <1>4 DEF ReaderInv, ReaderTypeOK, Standing
=============================================================================

--------------------------- MODULE DickOpsProofs ---------------------------
(***************************************************************************)
(* What each operator of DickOps does to a well-formed sub-dictionary, for *)
(* every set of keys, hash function and size.  Part 1 is about the sizes   *)
(* of tables, part 2 about one table, part 3 about the two of a SubDICK.   *)
(***************************************************************************)
EXTENDS DickOps, FiniteSetTheorems, TLAPS

TableOK(h, t) == /\ TableTypeOK(t)
                 /\ AtHome(h, t)
                 /\ OneEntryPerKey(t)
                 /\ UsedExact(t)

Hash == [Key -> Nat]

----------------------------------------------------------------------------
(* Part 1: the sizes of tables *)

\* A non-empty set of naturals has a least element.
LEMMA SmallestExists ==
    ASSUME NEW S \in SUBSET Nat, S # {}
    PROVE  \E x \in S : \A y \in S : x <= y
<1>1. PICK x \in S : \A y \in S : ~(<<y, x>> \in OpToRel(<, Nat))
  BY NatLessThanWellFounded, WFMin, Zenon
<1>2. \A y \in Nat : y < x => <<y, x>> \in OpToRel(<, Nat)
  BY DEF OpToRel
<1>3. \A y \in S : ~(y < x)
  BY <1>1, <1>2
<1> QED
  BY <1>3

\* Induction, for a set of numbers.
LEMMA AllNaturals ==
    ASSUME NEW T, 0 \in T, \A n \in Nat : n \in T => n + 1 \in T
    PROVE  Nat \subseteq T
<1> SUFFICES ASSUME Nat \ T # {} PROVE FALSE
  OBVIOUS
<1>1. PICK n \in Nat \ T : \A m \in Nat \ T : n <= m
  BY SmallestExists
<1>2. n # 0 /\ n - 1 \in Nat /\ n - 1 \notin T
  BY <1>1
<1> QED
  BY <1>1, <1>2

LEMMA Exponents == MaxExponent \in Nat /\ MaxExponent <= 62
BY WordAssumption

\* Each power of two is twice the one before: the recursion defines what it says.
LEMMA Pow2Is ==
    /\ Pow2[0] = 1
    /\ \A e \in 1..MaxExponent : Pow2[e] = 2 * Pow2[e-1]
<1> DEFINE Is(w, n) == w = [e \in 0..n |-> IF e = 0 THEN 1 ELSE 2 * w[e-1]]
           T == {n \in Nat : \E w : Is(w, n)}
<1>1. 0 \in T
  <2>1. Is([e \in 0..0 |-> 1], 0)
    OBVIOUS
  <2> QED
    BY <2>1
<1>2. ASSUME NEW n \in Nat, n \in T PROVE n + 1 \in T
  <2>1. PICK w : Is(w, n)
    BY <1>2
  <2> DEFINE v == [e \in 0..n+1 |-> IF e = n + 1 THEN 2 * w[n] ELSE w[e]]
  <2>2. Is(v, n + 1)
    <3>1. \A e \in 0..n : v[e] = w[e]
      OBVIOUS
    <3>2. ASSUME NEW e \in 0..n+1
          PROVE  v[e] = IF e = 0 THEN 1 ELSE 2 * v[e-1]
      <4>1. CASE e = n + 1
        BY <3>1, <4>1
      <4>2. CASE e \in 0..n
        <5>1. v[e] = w[e] /\ (e # 0 => v[e-1] = w[e-1])
          BY <3>1, <4>2
        <5>2. w[e] = IF e = 0 THEN 1 ELSE 2 * w[e-1]
          BY <2>1, <4>2
        <5> QED
          BY <5>1, <5>2
      <4> QED
        BY <4>1, <4>2
    <3> QED
      BY <3>2
  <2> HIDE DEF v, Is
  <2> QED
    BY <2>2
<1>3. \E w : Is(w, MaxExponent)
  <2> HIDE DEF Is
  <2>1. Nat \subseteq T
    BY <1>1, <1>2, AllNaturals
  <2> QED
    BY <2>1, Exponents
<1>4. Is(Pow2, MaxExponent)
  BY <1>3 DEF Pow2
<1> QED
  BY <1>4, Exponents

LEMMA Pow2OK == \A e \in 0..MaxExponent : Pow2[e] \in Nat \ {0}
<1> DEFINE T == {e \in Nat : e <= MaxExponent => Pow2[e] \in Nat \ {0}}
<1>1. 0 \in T
  BY Pow2Is
<1>2. ASSUME NEW e \in Nat, e \in T PROVE e + 1 \in T
  <2>1. ASSUME e + 1 <= MaxExponent PROVE Pow2[e + 1] \in Nat \ {0}
    <3>1. Pow2[e + 1] = 2 * Pow2[e] /\ Pow2[e] \in Nat \ {0}
      BY <1>2, <2>1, Pow2Is, Exponents
    <3> QED
      BY <3>1
  <2> QED
    BY <2>1
<1>3. Nat \subseteq T
  BY <1>1, <1>2, AllNaturals
<1> QED
  BY <1>3, Exponents

LEMMA Pow2Grows == \A e, f \in 0..MaxExponent : e <= f => Pow2[e] <= Pow2[f]
<1> SUFFICES ASSUME NEW e \in 0..MaxExponent
             PROVE  \A f \in 0..MaxExponent : e <= f => Pow2[e] <= Pow2[f]
  OBVIOUS
<1> DEFINE T == {f \in Nat : e <= f /\ f <= MaxExponent => Pow2[e] <= Pow2[f]}
<1>1. 0 \in T
  BY Pow2OK
<1>2. ASSUME NEW f \in Nat, f \in T PROVE f + 1 \in T
  <2>1. ASSUME e <= f + 1, f + 1 <= MaxExponent PROVE Pow2[e] <= Pow2[f + 1]
    <3>1. Pow2[f + 1] = 2 * Pow2[f]
      BY <2>1, Pow2Is, Exponents
    <3>2. Pow2[f] \in Nat /\ Pow2[e] \in Nat
      BY <2>1, Pow2OK, Exponents
    <3>3. CASE e = f + 1
      BY <3>2, <3>3
    <3>4. CASE e <= f
      <4>1. Pow2[e] <= Pow2[f]
        BY <1>2, <2>1, <3>4, Exponents
      <4> QED
        BY <3>1, <3>2, <4>1
    <3> QED
      BY <2>1, <3>3, <3>4
  <2> QED
    BY <2>1
<1>3. Nat \subseteq T
  BY <1>1, <1>2, AllNaturals
<1> QED
  BY <1>3, Exponents

\* Sizes are numbers.
LEMMA SizesAreNaturals ==
    /\ PowersOfTwo \subseteq Nat \ {0}
    /\ INITIAL_SIZE \in PowersOfTwo /\ INITIAL_SIZE \in Nat \ {0}
    /\ EMPTY_VISITS \in Nat \ {0}
BY SizesAssumption, WordAssumption, Pow2OK DEF PowersOfTwo

\* The highest bit of a number that is not 0.
LEMMA HighestBit ==
    ASSUME NEW n \in Nat \ {0}, n < Pow2[MaxExponent]
    PROVE  \E m \in Bit : Pow2[m] <= n /\ n < Pow2[m + 1]
<1> DEFINE T == {e \in Nat : e <= MaxExponent /\ n < Pow2[e]}
<1>1. PICK e \in T : \A f \in T : e <= f
  <2>1. MaxExponent \in T /\ T \in SUBSET Nat
    BY Exponents
  <2> HIDE DEF T
  <2> QED
    BY <2>1, SmallestExists
<1>2. e # 0
  BY Pow2Is
<1>3. e - 1 \in Bit /\ e - 1 \in Nat /\ e - 1 <= MaxExponent /\ e - 1 \notin T
  BY <1>1, <1>2, Exponents DEF Bit
<1>4. Pow2[e - 1] <= n
  BY <1>3, Pow2OK
<1> QED
  BY <1>1, <1>3, <1>4

\* It is set, and no bit above it is.
LEMMA BitsUpTo ==
    ASSUME NEW n \in Nat, NEW m \in Bit, Pow2[m] <= n, n < Pow2[m + 1]
    PROVE  m \in BitsOf[n] /\ \A b \in BitsOf[n] : b \in Bit /\ b <= m
<1>1. BitsOf[n] = {b \in Bit : (n \div Pow2[b]) % 2 = 1}
  BY DEF BitsOf
<1>2. m \in 0..MaxExponent /\ m + 1 \in 0..MaxExponent /\ m \in Nat
  BY Exponents DEF Bit
<1>3. Pow2[m + 1] = 2 * Pow2[m] /\ Pow2[m] \in Nat \ {0}
  BY <1>2, Pow2Is, Pow2OK
<1>4. ASSUME NEW p \in Nat \ {0}, p <= n, n < 2 * p PROVE (n \div p) % 2 = 1
  <2>1. n = p * 1 + (n - p) /\ n - p \in 0..p-1
    BY <1>4
  <2>2. n \div p = 1
    BY <2>1
  <2> QED
    BY <2>2
<1>5. m \in BitsOf[n]
  BY <1>1, <1>3, <1>4
<1>6. ASSUME NEW b \in Bit, b > m PROVE (n \div Pow2[b]) % 2 # 1
  <2>1. b \in 0..MaxExponent /\ m + 1 <= b
    BY <1>2, <1>6, Exponents DEF Bit
  <2>2. Pow2[b] \in Nat \ {0} /\ n < Pow2[b]
    BY <1>2, <2>1, Pow2Grows, Pow2OK
  <2>3. n \div Pow2[b] = 0
    BY <2>2
  <2> QED
    BY <2>3
<1>7. ASSUME NEW b \in BitsOf[n] PROVE b \in Bit /\ b <= m
  <2>1. b \in Bit /\ (n \div Pow2[b]) % 2 = 1
    BY <1>1
  <2>2. b \in Nat /\ ~(b > m)
    BY <1>6, <2>1, Exponents DEF Bit
  <2> QED
    BY <1>2, <2>1, <2>2
<1> QED
  BY <1>5, <1>7

\* In B the bits of m down to m - k are set, and none above m.
SetFrom(B, m, k) == /\ \A b \in Bit : m - k <= b /\ b <= m => b \in B
                    /\ \A b \in B : b \in Bit /\ b <= m

\* A shift by no more than the bits that are set below one another doubles them.
LEMMA ShiftOK ==
    ASSUME NEW B, NEW m \in Bit, NEW k \in Nat, NEW s \in 1..k+1, SetFrom(B, m, k)
    PROVE  SetFrom(orShifted(B, s), m, k + s)
<1>1. \A b \in orShifted(B, s) : b \in Bit /\ \E c \in B : b = c \/ b = c - s
  BY DEF orShifted
<1>2. \A c \in B : c \in Bit /\ c <= m
  BY DEF SetFrom
<1>3. \A c \in B, b \in Bit : b = c \/ b = c - s => b \in orShifted(B, s)
  BY DEF orShifted
<1>4. \A b \in Bit : b \in 0..MaxExponent-1
  BY DEF Bit
<1>5. ASSUME NEW b \in Bit, m - (k + s) <= b, b <= m PROVE b \in orShifted(B, s)
  <2>1. CASE m - k <= b
    BY <1>3, <1>5, <2>1 DEF SetFrom
  <2>2. CASE b < m - k
    <3>1. b + s \in Bit /\ m - k <= b + s /\ b + s <= m
      BY <1>4, <1>5, <2>2, Exponents DEF Bit
    <3>2. b + s \in B /\ b = (b + s) - s
      BY <1>4, <3>1, Exponents DEF SetFrom
    <3> QED
      BY <1>3, <3>2
  <2> QED
    BY <1>4, <2>1, <2>2, Exponents
<1>6. ASSUME NEW b \in orShifted(B, s) PROVE b \in Bit /\ b <= m
  <2>1. PICK c \in B : b = c \/ b = c - s
    BY <1>1
  <2> QED
    BY <1>1, <1>2, <1>4, <2>1, Exponents
<1> QED
  BY <1>5, <1>6 DEF SetFrom

\* The six shifts set every bit below the highest.
LEMMA SmearedOK ==
    ASSUME NEW B, NEW m \in Bit, m \in B, \A b \in B : b \in Bit /\ b <= m
    PROVE  Smeared(B) = 0..m
<1>0. m \in Nat /\ m <= 61 /\ \A b \in Bit : b \in Nat
  BY Exponents DEF Bit
<1> DEFINE b1  == orShifted(B, 1)     b2  == orShifted(b1, 2)
           b4  == orShifted(b2, 4)    b8  == orShifted(b4, 8)
           b16 == orShifted(b8, 16)   b32 == orShifted(b16, 32)
<1>1. ASSUME NEW C, NEW s \in Nat \ {0}, SetFrom(C, m, s - 1)
      PROVE  SetFrom(orShifted(C, s), m, 2 * s - 1)
  <2>1. s - 1 \in Nat /\ s \in 1..(s - 1) + 1 /\ (s - 1) + s = 2 * s - 1
    OBVIOUS
  <2>2. SetFrom(orShifted(C, s), m, (s - 1) + s)
    BY <1>1, <2>1, ShiftOK
  <2> QED
    BY <2>1, <2>2
<1>2. SetFrom(B, m, 0)
  BY <1>0 DEF SetFrom
<1>3. SetFrom(b1, m, 1)
  BY <1>1, <1>2
<1> HIDE DEF b1
<1>4. SetFrom(b2, m, 3)
  BY <1>1, <1>3
<1> HIDE DEF b2
<1>5. SetFrom(b4, m, 7)
  BY <1>1, <1>4
<1> HIDE DEF b4
<1>6. SetFrom(b8, m, 15)
  BY <1>1, <1>5
<1> HIDE DEF b8
<1>7. SetFrom(b16, m, 31)
  BY <1>1, <1>6
<1> HIDE DEF b16
<1>8. SetFrom(b32, m, 63)
  BY <1>1, <1>7
<1>9. Smeared(B) = b32
  BY DEF Smeared, b1, b2, b4, b8, b16
<1> HIDE DEF b32
<1>10. ASSUME NEW b \in 0..m PROVE b \in b32
  <2>1. b \in Bit /\ m - 63 <= b /\ b <= m
    BY <1>0, Exponents DEF Bit
  <2> QED
    BY <1>8, <2>1 DEF SetFrom
<1>11. ASSUME NEW b \in b32 PROVE b \in 0..m
  <2>1. b \in Bit /\ b <= m
    BY <1>8 DEF SetFrom
  <2>2. b \in Int /\ 0 <= b
    BY <2>1, Exponents DEF Bit
  <2> QED
    BY <1>0, <2>1, <2>2
<1> QED
  BY <1>9, <1>10, <1>11

\* The number of which the bits 0..m are set.
LEMMA NumberOfOnes ==
    ASSUME NEW m \in Bit
    PROVE  NumberOf[0..m] = Pow2[m + 1] - 1
<1> DEFINE Is(w, n) == w = [e \in 0..n |->
               IF e = 0 THEN 0
               ELSE w[e-1] + (IF e - 1 \in 0..m THEN Pow2[e-1] ELSE 0)]
           Sum(e) == IF e <= m + 1 THEN Pow2[e] - 1 ELSE Pow2[m + 1] - 1
           low == CHOOSE w : Is(w, MaxExponent)
<1>1. m \in Nat /\ m + 1 <= MaxExponent
  BY Exponents DEF Bit
<1>2. Is([e \in 0..MaxExponent |-> Sum(e)], MaxExponent)
  <2> DEFINE w == [e \in 0..MaxExponent |-> Sum(e)]
  <2>1. ASSUME NEW e \in 0..MaxExponent
        PROVE  Sum(e) = IF e = 0 THEN 0
                        ELSE w[e-1] + (IF e - 1 \in 0..m THEN Pow2[e-1] ELSE 0)
    <3>1. CASE e = 0
      BY <1>1, <3>1, Pow2Is
    <3>2. CASE e # 0
      <4>1. e - 1 \in 0..MaxExponent /\ w[e-1] = Sum(e-1)
        BY <3>2, Exponents
      <4>2. Pow2[e] = 2 * Pow2[e-1] /\ Pow2[e-1] \in Nat /\ Pow2[m+1] \in Nat
        BY <1>1, <3>2, <4>1, Pow2Is, Pow2OK, Exponents
      <4>3. CASE e <= m + 1
        BY <1>1, <3>2, <4>1, <4>2, <4>3
      <4>4. CASE ~(e <= m + 1)
        BY <1>1, <3>2, <4>1, <4>2, <4>4
      <4> QED
        BY <4>3, <4>4
    <3> QED
      BY <3>1, <3>2
  <2> HIDE DEF Sum
  <2> QED
    BY <2>1
<1>3. Is(low, MaxExponent)
  BY <1>2
<1>4. low = [e \in 0..MaxExponent |-> Sum(e)]
  <2> DEFINE T == {e \in Nat : e <= MaxExponent => low[e] = Sum(e)}
  <2>0. /\ low[0] = 0
        /\ \A e \in 1..MaxExponent :
              low[e] = low[e-1] + (IF e - 1 \in 0..m THEN Pow2[e-1] ELSE 0)
    <3> HIDE DEF low
    <3> QED
      BY <1>3, Exponents
  <2>1. 0 \in T
    <3>1. Sum(0) = 0
      BY <1>1, Pow2Is
    <3> HIDE DEF low, Sum
    <3> QED
      BY <2>0, <3>1
  <2>2. ASSUME NEW e \in Nat, e \in T PROVE e + 1 \in T
    <3>1. ASSUME e + 1 <= MaxExponent PROVE low[e + 1] = Sum(e + 1)
      <4>1. low[e + 1] = low[e] + (IF e \in 0..m THEN Pow2[e] ELSE 0)
        <5>1. e + 1 \in 1..MaxExponent /\ (e + 1) - 1 = e
          BY <3>1, Exponents
        <5> HIDE DEF low
        <5> QED
          BY <2>0, <5>1
      <4>2. low[e] = Sum(e)
        BY <2>2, <3>1, Exponents
      <4>3. Sum(e + 1) = Sum(e) + (IF e \in 0..m THEN Pow2[e] ELSE 0)
        <5>1. Pow2[e + 1] = 2 * Pow2[e] /\ Pow2[e] \in Nat /\ Pow2[m+1] \in Nat
          BY <1>1, <3>1, Pow2Is, Pow2OK, Exponents
        <5>2. CASE e <= m
          BY <1>1, <5>1, <5>2
        <5>3. CASE ~(e <= m)
          BY <1>1, <5>1, <5>3
        <5> QED
          BY <5>2, <5>3
      <4> QED
        BY <4>1, <4>2, <4>3
    <3> HIDE DEF low, Sum
    <3> QED
      BY <3>1
  <2> HIDE DEF low, Sum
  <2>3. Nat \subseteq T
    BY <2>1, <2>2, AllNaturals
  <2>4. DOMAIN low = 0..MaxExponent /\ low = [e \in 0..MaxExponent |-> low[e]]
    BY <1>3
  <2> QED
    BY <2>3, <2>4, Exponents
<1>5. NumberOf[0..m] = low[MaxExponent]
  <2>1. 0..m \in SUBSET Bit
    BY <1>1, Exponents DEF Bit
  <2> QED
    BY <2>1 DEF NumberOf
<1>6. low[MaxExponent] = Sum(MaxExponent)
  <2> HIDE DEF low, Sum
  <2> QED
    BY <1>4, Exponents
<1>7. Sum(MaxExponent) = Pow2[m + 1] - 1
  BY <1>1, Exponents
<1> HIDE DEF low, Sum
<1> QED
  BY <1>5, <1>6, <1>7

\* nextPower gives the least power of two that holds the size it is asked for,
\* and is no less than INITIAL_SIZE, for every size up to the largest: of a size
\* less one the shifts set every bit below the highest, and no other.
THEOREM NextPowerIsLeast ==
    ASSUME NEW n \in 1..Pow2[MaxExponent]
    PROVE  LeastPower(n, nextPower(n))
<1>1. Pow2[MaxExponent] \in Nat /\ n \in Nat
  BY Pow2OK, Exponents
<1>2. CASE n <= INITIAL_SIZE
  BY <1>2, WordAssumption DEF nextPower, LeastPower
<1>3. CASE ~(n <= INITIAL_SIZE)
  <2>1. n - 1 \in Nat \ {0} /\ n - 1 < Pow2[MaxExponent]
    BY <1>1, <1>3, SizesAreNaturals
  <2>2. PICK m \in Bit : Pow2[m] <= n - 1 /\ n - 1 < Pow2[m + 1]
    BY <2>1, HighestBit
  <2>3. Smeared(BitsOf[n - 1]) = 0..m
    BY <2>1, <2>2, BitsUpTo, SmearedOK
  <2>4. m + 1 \in 0..MaxExponent /\ m \in 0..MaxExponent
    BY Exponents DEF Bit
  <2>5. /\ Pow2[m + 1] = 2 * Pow2[m]
        /\ Pow2[m] \in Nat /\ Pow2[m + 1] \in Nat
    BY <2>4, Pow2Is, Pow2OK
  <2>6. nextPower(n) = (Pow2[m + 1] - 1) + 1
    BY <1>3, <2>3, NumberOfOnes DEF nextPower
  <2>7. nextPower(n) = Pow2[m + 1]
    BY <2>5, <2>6
  <2>8. nextPower(n) \in PowersOfTwo
    BY <2>4, <2>7 DEF PowersOfTwo
  <2> QED
    BY <1>1, <1>3, <2>2, <2>5, <2>7, <2>8 DEF LeastPower
<1> QED
  BY <1>2, <1>3

----------------------------------------------------------------------------
(* Part 2: one table *)

\* An index computed with a table's mask is a bucket of that table, unless the
\* table has none.
LEMMA IndexInTable ==
    ASSUME NEW h \in Hash, NEW k \in Key, NEW t, TableTypeOK(t), t.size # 0
    PROVE  /\ Index(h, k, t) \in 0..t.size-1
           /\ DOMAIN t.table = 0..t.size-1
<1>1. t.size \in Nat \ {0} /\ h[k] \in Nat
  BY SizesAreNaturals DEF TableTypeOK, Hash
<1>2. Index(h, k, t) = h[k] % t.size
  BY <1>1 DEF Index
<1>3. h[k] % t.size \in 0..t.size-1
  BY <1>1
<1> QED
  BY <1>2, <1>3 DEF TableTypeOK

\* A table has finitely many keys, all of them keys of the store.
LEMMA KeysFinite ==
    ASSUME NEW t, TableTypeOK(t)
    PROVE  /\ KeysIn(t) \subseteq Key
           /\ IsFiniteSet(KeysIn(t))
           /\ Cardinality(KeysIn(t)) \in Nat
           /\ Cardinality(KeysIn(t)) <= Cardinality(Key)
           /\ Cardinality(KeysIn(t)) = 0 <=> KeysIn(t) = {}
<1>1. \A b \in DOMAIN t.table : t.table[b] \subseteq Entry
  BY DEF TableTypeOK
<1>2. \A e \in Entries(t) : e \in Entry
  BY <1>1 DEF Entries
<1>3. KeysIn(t) \subseteq Key
  BY <1>2 DEF KeysIn, Entry
<1> QED
  BY <1>3, FS_Subset, FS_EmptySet, FS_CardinalityType, SizesAssumption

\* A key is in a table exactly when the bucket of its index holds it.
LEMMA KeyAtHome ==
    ASSUME NEW h \in Hash, NEW k \in Key, NEW t, TableTypeOK(t), AtHome(h, t)
    PROVE  k \in KeysIn(t) <=> t.size # 0 /\ Holds(t, Index(h, k, t), k)
<1>1. ASSUME k \in KeysIn(t)
      PROVE  t.size # 0 /\ Holds(t, Index(h, k, t), k)
  <2>1. PICK b \in DOMAIN t.table : \E e \in t.table[b] : e.key = k
    BY <1>1 DEF KeysIn, Entries
  <2>2. b = Index(h, k, t)
    BY <2>1 DEF AtHome
  <2>3. t.size # 0
    BY <2>1 DEF TableTypeOK
  <2> QED
    BY <2>1, <2>2, <2>3 DEF Holds
<1>2. ASSUME t.size # 0, Holds(t, Index(h, k, t), k)
      PROVE  k \in KeysIn(t)
  <2>1. Index(h, k, t) \in DOMAIN t.table
    BY <1>2, IndexInTable
  <2> QED
    BY <1>2, <2>1 DEF Holds, KeysIn, Entries
<1> QED
  BY <1>1, <1>2

\* NewDickTable makes a well-formed table without entries.
LEMMA NewTableOK ==
    ASSUME NEW h \in Hash, NEW n \in {0} \cup PowersOfTwo
    PROVE  /\ TableOK(h, NewDickTable(n))
           /\ KeysIn(NewDickTable(n)) = {}
           /\ NewDickTable(n).size = n
           /\ NewDickTable(n).used = 0
<1> DEFINE t == NewDickTable(n)
<1>1. t.size = n /\ t.used = 0 /\ t.table = [b \in 0..n-1 |-> {}]
  BY DEF NewDickTable
<1>2. Entries(t) = {}
  BY <1>1 DEF Entries
<1>3. KeysIn(t) = {}
  BY <1>2 DEF KeysIn
<1>4. TableTypeOK(t)
  BY <1>1 DEF TableTypeOK, NewDickTable
<1>5. AtHome(h, t)
  BY <1>1 DEF AtHome
<1>6. OneEntryPerKey(t)
  BY <1>2 DEF OneEntryPerKey
<1>7. UsedExact(t)
  BY <1>1, <1>3, FS_EmptySet DEF UsedExact
<1> QED
  BY <1>1, <1>3, <1>4, <1>5, <1>6, <1>7 DEF TableOK

\* What an update of one bucket and the counter makes of a table.
LEMMA UpdateTable ==
    ASSUME NEW t, TableTypeOK(t), NEW b \in DOMAIN t.table, NEW n \in Nat,
           NEW S \in SUBSET Entry, NEW u,
           u = [size |-> t.size, used |-> n, table |-> [t.table EXCEPT ![b] = S]]
    PROVE  /\ TableTypeOK(u)
           /\ u.size = t.size /\ u.used = n
           /\ DOMAIN u.table = DOMAIN t.table
           /\ \A c \in DOMAIN t.table :
                 u.table[c] = IF c = b THEN S ELSE t.table[c]
BY DEF TableTypeOK

\* Insert at the key's index, when the table does not have the key.
LEMMA InsertOK ==
    ASSUME NEW h \in Hash, NEW t, TableOK(h, t), t.size # 0,
           NEW k \in Key, NEW v \in Value, k \notin KeysIn(t)
    PROVE  LET u == Insert(t, Index(h, k, t), k, v) IN
           /\ TableOK(h, u)
           /\ KeysIn(u) = KeysIn(t) \cup {k}
           /\ u.size = t.size
           /\ u.used = t.used + 1
           /\ Entries(u) = Entries(t) \cup {[key |-> k, value |-> v]}
<1> DEFINE b == Index(h, k, t)
           new == [key |-> k, value |-> v]
           u == Insert(t, b, k, v)
<1>0. TableTypeOK(t) /\ AtHome(h, t) /\ OneEntryPerKey(t) /\ UsedExact(t)
  BY DEF TableOK
<1>1. b \in 0..t.size-1 /\ DOMAIN t.table = 0..t.size-1
  BY <1>0, IndexInTable
<1>2. ~Holds(t, b, k)
  BY <1>0, KeyAtHome
<1>3. u = [size |-> t.size, used |-> t.used + 1,
           table |-> [t.table EXCEPT ![b] = @ \cup {new}]]
  BY <1>0, <1>2 DEF Insert, TableTypeOK
<1> HIDE DEF u, new
<1>4. /\ u.size = t.size /\ u.used = t.used + 1
      /\ DOMAIN u.table = DOMAIN t.table
      /\ \A c \in DOMAIN t.table :
            u.table[c] = IF c = b THEN t.table[c] \cup {new} ELSE t.table[c]
  BY <1>0, <1>1, <1>3 DEF TableTypeOK
<1>5. new \in Entry /\ new.key = k
  BY DEF Entry, new
<1>6. Entries(u) = Entries(t) \cup {new}
  BY <1>1, <1>4 DEF Entries
<1>7. KeysIn(u) = KeysIn(t) \cup {k}
  BY <1>5, <1>6 DEF KeysIn
<1>8. TableTypeOK(u)
  <2>1. t.table[b] \cup {new} \in SUBSET Entry
    BY <1>0, <1>1, <1>5 DEF TableTypeOK
  <2>2. [t.table EXCEPT ![b] = @ \cup {new}] \in [0..t.size-1 -> SUBSET Entry]
    BY <1>0, <2>1 DEF TableTypeOK
  <2> QED
    BY <1>0, <1>3, <2>2 DEF TableTypeOK
<1>9. AtHome(h, u)
  <2> SUFFICES ASSUME NEW c \in DOMAIN t.table, NEW e \in u.table[c]
               PROVE  c = Index(h, e.key, u)
    BY <1>4 DEF AtHome
  <2>1. Index(h, e.key, u) = Index(h, e.key, t)
    BY <1>4 DEF Index
  <2>2. CASE e = new
    BY <2>1, <2>2, <1>4, <1>5, <1>0 DEF AtHome, OneEntryPerKey, KeysIn, Entries
  <2>3. CASE e # new
    BY <2>1, <2>3, <1>0, <1>4 DEF AtHome
  <2> QED
    BY <2>2, <2>3
<1>10. OneEntryPerKey(u)
  BY <1>0, <1>5, <1>6 DEF OneEntryPerKey, KeysIn
<1>11. UsedExact(u)
  BY <1>0, <1>4, <1>7, KeysFinite, FS_AddElement DEF UsedExact
<1> QED
  BY <1>4, <1>6, <1>7, <1>8, <1>9, <1>10, <1>11 DEF TableOK, u, new

\* Overwriting the value of a key that is in the table.
LEMMA ReplaceOK ==
    ASSUME NEW h \in Hash, NEW t, TableOK(h, t),
           NEW k \in Key, NEW v \in Value, k \in KeysIn(t)
    PROVE  LET u == Replace(t, Index(h, k, t), k, v) IN
           /\ TableOK(h, u)
           /\ KeysIn(u) = KeysIn(t)
           /\ u.size = t.size
           /\ u.used = t.used
           /\ Entries(u) = {e \in Entries(t) : e.key # k}
                           \cup {[key |-> k, value |-> v]}
<1> DEFINE b == Index(h, k, t)
           new == [key |-> k, value |-> v]
           u == Replace(t, b, k, v)
<1>0. TableTypeOK(t) /\ AtHome(h, t) /\ OneEntryPerKey(t) /\ UsedExact(t)
  BY DEF TableOK
<1>1. t.size # 0 /\ b \in 0..t.size-1 /\ DOMAIN t.table = 0..t.size-1
  BY <1>0, IndexInTable, KeyAtHome
<1>2. new \in Entry /\ new.key = k
  BY DEF Entry
<1> DEFINE S == {e \in t.table[b] : e.key # k} \cup {new}
<1>a. S \in SUBSET Entry
  BY <1>0, <1>1, <1>2 DEF TableTypeOK
<1>b. u = [t EXCEPT !.table[b] = S]
  BY DEF Replace
<1>c. \A e : e \in S <=> e = new \/ (e \in t.table[b] /\ e.key # k)
  OBVIOUS
<1> HIDE DEF u, new, S
<1>3. u = [size |-> t.size, used |-> t.used, table |-> [t.table EXCEPT ![b] = S]]
  BY <1>0, <1>b DEF TableTypeOK
<1>4. /\ TableTypeOK(u)
      /\ u.size = t.size /\ u.used = t.used
      /\ DOMAIN u.table = DOMAIN t.table
      /\ \A c \in DOMAIN t.table : u.table[c] = IF c = b THEN S ELSE t.table[c]
  BY <1>0, <1>1, <1>3, <1>a, UpdateTable DEF TableTypeOK
<1>5. \A c \in DOMAIN t.table : \A e \in t.table[c] : e.key = k => c = b
  BY <1>0 DEF AtHome
<1>6. Entries(u) = {e \in Entries(t) : e.key # k} \cup {new}
  <2>1. \A e : e \in Entries(u) <=> \E c \in DOMAIN t.table : e \in u.table[c]
    BY <1>4 DEF Entries
  <2>2. \A e : e \in Entries(t) <=> \E c \in DOMAIN t.table : e \in t.table[c]
    BY DEF Entries
  <2>3. \A e : e \in Entries(u) <=> e = new \/ (e \in Entries(t) /\ e.key # k)
    BY <1>1, <1>4, <1>5, <1>c, <2>1, <2>2
  <2> QED
    BY <2>3
<1>7. KeysIn(u) = KeysIn(t)
  BY <1>2, <1>6 DEF KeysIn
<1>9. AtHome(h, u)
  <2> SUFFICES ASSUME NEW c \in DOMAIN t.table, NEW e \in u.table[c]
               PROVE  c = Index(h, e.key, u)
    BY <1>4 DEF AtHome
  <2>1. Index(h, e.key, u) = Index(h, e.key, t)
    BY <1>4 DEF Index
  <2>2. CASE e \in t.table[c]
    BY <2>1, <2>2, <1>0 DEF AtHome
  <2>3. CASE e \notin t.table[c]
    BY <2>1, <2>3, <1>2, <1>4, <1>c
  <2> QED
    BY <2>2, <2>3
<1>10. OneEntryPerKey(u)
  BY <1>0, <1>2, <1>6 DEF OneEntryPerKey
<1>11. UsedExact(u)
  BY <1>0, <1>4, <1>7 DEF UsedExact
<1> QED
  BY <1>4, <1>6, <1>7, <1>9, <1>10, <1>11 DEF TableOK, u, new

\* Unlinking the entry of a key that is in the table.
LEMMA RemoveOK ==
    ASSUME NEW h \in Hash, NEW t, TableOK(h, t),
           NEW k \in Key, k \in KeysIn(t)
    PROVE  LET u == Remove(t, Index(h, k, t), k) IN
           /\ TableOK(h, u)
           /\ KeysIn(u) = KeysIn(t) \ {k}
           /\ u.size = t.size
           /\ u.used = t.used - 1
           /\ Entries(u) = {e \in Entries(t) : e.key # k}
           /\ \A c \in DOMAIN t.table : t.table[c] = {} => u.table[c] = {}
<1> DEFINE b == Index(h, k, t)
           u == Remove(t, b, k)
<1>0. TableTypeOK(t) /\ AtHome(h, t) /\ OneEntryPerKey(t) /\ UsedExact(t)
  BY DEF TableOK
<1>1. t.size # 0 /\ b \in 0..t.size-1 /\ DOMAIN t.table = 0..t.size-1
  BY <1>0, IndexInTable, KeyAtHome
<1>2. t.used > 0 /\ t.used - 1 \in Nat
  BY <1>0, KeysFinite DEF UsedExact, TableTypeOK
<1> DEFINE S == {e \in t.table[b] : e.key # k}
<1>a. S \in SUBSET Entry
  BY <1>0, <1>1 DEF TableTypeOK
<1>b. u = [t EXCEPT !.table[b] = S, !.used = t.used - 1]
  BY DEF Remove
<1>c. \A e : e \in S <=> e \in t.table[b] /\ e.key # k
  OBVIOUS
<1> HIDE DEF u, S
<1>3. u = [size |-> t.size, used |-> t.used - 1,
           table |-> [t.table EXCEPT ![b] = S]]
  BY <1>0, <1>b DEF TableTypeOK
<1>4. /\ TableTypeOK(u)
      /\ u.size = t.size /\ u.used = t.used - 1
      /\ DOMAIN u.table = DOMAIN t.table
      /\ \A c \in DOMAIN t.table : u.table[c] = IF c = b THEN S ELSE t.table[c]
  BY <1>0, <1>1, <1>2, <1>3, <1>a DEF TableTypeOK
<1>5. \A c \in DOMAIN t.table : \A e \in t.table[c] : e.key = k => c = b
  BY <1>0 DEF AtHome
<1>6. Entries(u) = {e \in Entries(t) : e.key # k}
  <2>1. \A e : e \in Entries(u) <=> \E c \in DOMAIN t.table : e \in u.table[c]
    BY <1>4 DEF Entries
  <2>2. \A e : e \in Entries(t) <=> \E c \in DOMAIN t.table : e \in t.table[c]
    BY DEF Entries
  <2>3. \A e : e \in Entries(u) <=> e \in Entries(t) /\ e.key # k
    BY <1>1, <1>4, <1>5, <1>c, <2>1, <2>2
  <2> QED
    BY <2>3
<1>7. KeysIn(u) = KeysIn(t) \ {k}
  BY <1>6 DEF KeysIn
<1>9. AtHome(h, u)
  <2> SUFFICES ASSUME NEW c \in DOMAIN t.table, NEW e \in u.table[c]
               PROVE  c = Index(h, e.key, u)
    BY <1>4 DEF AtHome
  <2>1. Index(h, e.key, u) = Index(h, e.key, t)
    BY <1>4 DEF Index
  <2>2. e \in t.table[c]
    BY <1>4, <1>c
  <2> QED
    BY <2>1, <2>2, <1>0 DEF AtHome
<1>10. OneEntryPerKey(u)
  BY <1>0, <1>6 DEF OneEntryPerKey
<1>11. UsedExact(u)
  BY <1>0, <1>4, <1>7, KeysFinite, FS_RemoveElement DEF UsedExact
<1>12. \A c \in DOMAIN t.table : t.table[c] = {} => u.table[c] = {}
  BY <1>4, <1>c
<1> QED
  BY <1>4, <1>6, <1>7, <1>9, <1>10, <1>11, <1>12 DEF TableOK, u


\* A chain has as many entries as keys.
LEMMA ChainSize ==
    ASSUME NEW S \in SUBSET Entry, \A e, f \in S : e.key = f.key => e = f
    PROVE  LET M == {e.key : e \in S} IN
           /\ M \subseteq Key /\ IsFiniteSet(M) /\ IsFiniteSet(S)
           /\ Cardinality(S) = Cardinality(M)
           /\ Cardinality(S) \in Nat
<1> DEFINE M == {e.key : e \in S}
           f == [x \in M |-> CHOOSE e \in S : e.key = x]
<1>1. M \subseteq Key
  BY DEF Entry
<1>2. IsFiniteSet(M)
  BY <1>1, FS_Subset, SizesAssumption
<1>3. \A x \in M : f[x] \in S /\ f[x].key = x
  OBVIOUS
<1>4. \A e \in S : e.key \in M /\ f[e.key] = e
  BY <1>3
<1>5. f \in [M -> S]
  BY <1>3
<1> HIDE DEF f, M
<1>6. f \in Bijection(M, S)
  BY <1>3, <1>4, <1>5 DEF Bijection, Injection, Surjection, IsInjective
<1>7. ExistsBijection(M, S)
  BY <1>6 DEF ExistsBijection
<1>8. IsFiniteSet(S) /\ Cardinality(S) = Cardinality(M)
  BY <1>2, <1>7, FS_Bijection
<1> QED
  BY <1>1, <1>2, <1>8, FS_CardinalityType DEF M

\* The table a chain leaves: bucket b is emptied, the counter goes down by the
\* length of its chain.
LEMMA EmptyBucketOK ==
    ASSUME NEW h \in Hash, NEW t, TableOK(h, t), NEW b \in DOMAIN t.table, NEW u,
           u = [size  |-> t.size,
                used  |-> t.used - Cardinality(t.table[b]),
                table |-> [t.table EXCEPT ![b] = {}]]
    PROVE  /\ TableOK(h, u)
           /\ KeysIn(u) = KeysIn(t) \ {e.key : e \in t.table[b]}
           /\ Entries(u) = Entries(t) \ t.table[b]
           /\ u.size = t.size
           /\ u.used = t.used - Cardinality(t.table[b])
           /\ u.table[b] = {}
           /\ \A c \in DOMAIN t.table : c # b => u.table[c] = t.table[c]
<1> DEFINE S == t.table[b]
           M == {e.key : e \in S}
<1>0. TableTypeOK(t) /\ AtHome(h, t) /\ OneEntryPerKey(t) /\ UsedExact(t)
  BY DEF TableOK
<1>1. S \in SUBSET Entry /\ S \subseteq Entries(t)
  BY <1>0 DEF TableTypeOK, Entries
<1>2. \A e, f \in S : e.key = f.key => e = f
  BY <1>0, <1>1 DEF OneEntryPerKey
<1>3. /\ Cardinality(S) = Cardinality(M) /\ Cardinality(S) \in Nat
      /\ IsFiniteSet(M)
  BY <1>1, <1>2, ChainSize
<1>4. M \subseteq KeysIn(t)
  BY <1>1 DEF KeysIn
<1>5. /\ Cardinality(KeysIn(t) \ M) = Cardinality(KeysIn(t)) - Cardinality(M)
      /\ Cardinality(KeysIn(t) \ M) \in Nat
  <2>1. KeysIn(t) \cap M = M
    BY <1>4
  <2>2. IsFiniteSet(KeysIn(t))
    BY <1>0, KeysFinite
  <2>3. /\ IsFiniteSet(KeysIn(t) \ M)
        /\ Cardinality(KeysIn(t) \ M)
              = Cardinality(KeysIn(t)) - Cardinality(KeysIn(t) \cap M)
    BY <2>2, FS_Difference
  <2> QED
    BY <2>1, <2>3, FS_CardinalityType
<1>6. t.used - Cardinality(S) \in Nat
  BY <1>0, <1>3, <1>5 DEF UsedExact
<1> HIDE DEF S, M
<1>7. /\ TableTypeOK(u)
      /\ u.size = t.size /\ u.used = t.used - Cardinality(S)
      /\ DOMAIN u.table = DOMAIN t.table
      /\ \A c \in DOMAIN t.table : u.table[c] = IF c = b THEN {} ELSE t.table[c]
  BY <1>0, <1>6 DEF TableTypeOK, S
<1>8. \A e : e \in Entries(u) <=> e \in Entries(t) /\ e \notin S
  <2>1. \A e : e \in Entries(u) <=> \E c \in DOMAIN t.table : e \in u.table[c]
    BY <1>7 DEF Entries
  <2>2. \A e : e \in Entries(t) <=> \E c \in DOMAIN t.table : e \in t.table[c]
    BY DEF Entries
  <2>3. \A c \in DOMAIN t.table, e \in S : e \in t.table[c] => c = b
    BY <1>0 DEF AtHome, S
  <2> QED
    BY <1>7, <2>1, <2>2, <2>3 DEF S
<1>9. KeysIn(u) = KeysIn(t) \ M
  <2>1. \A e \in Entries(t) : e.key \in M => e \in S
    BY <1>0, <1>1, <1>2 DEF OneEntryPerKey, M
  <2>2. \A e \in Entries(t) : e \in S => e.key \in M
    BY DEF M
  <2> QED
    BY <1>8, <2>1, <2>2 DEF KeysIn
<1>10. AtHome(h, u)
  BY <1>0, <1>7 DEF AtHome, Index
<1>11. OneEntryPerKey(u)
  BY <1>0, <1>8 DEF OneEntryPerKey
<1>12. UsedExact(u)
  BY <1>0, <1>3, <1>5, <1>7, <1>9 DEF UsedExact
<1>13. Entries(u) = Entries(t) \ S
  BY <1>8
<1> QED
  BY <1>7, <1>9, <1>10, <1>11, <1>12, <1>13 DEF TableOK, S, M

\* The table a chain goes to: each entry lands at its own index there.
LEMMA AbsorbOK ==
    ASSUME NEW h \in Hash, NEW t, TableOK(h, t), t.size # 0,
           NEW S \in SUBSET Entry, \A e, f \in S : e.key = f.key => e = f,
           KeysIn(t) \cap {e.key : e \in S} = {}, NEW u,
           u = [size  |-> t.size,
                used  |-> t.used + Cardinality(S),
                table |-> [c \in DOMAIN t.table |->
                              t.table[c] \cup {e \in S : Index(h, e.key, t) = c}]]
    PROVE  /\ TableOK(h, u)
           /\ KeysIn(u) = KeysIn(t) \cup {e.key : e \in S}
           /\ Entries(u) = Entries(t) \cup S
           /\ u.size = t.size
           /\ u.used = t.used + Cardinality(S)
<1> DEFINE M == {e.key : e \in S}
<1>0. TableTypeOK(t) /\ AtHome(h, t) /\ OneEntryPerKey(t) /\ UsedExact(t)
  BY DEF TableOK
<1>1. /\ Cardinality(S) = Cardinality(M) /\ Cardinality(S) \in Nat
      /\ IsFiniteSet(M)
  BY ChainSize
<1>2. \A e \in S : e.key \in Key
  BY DEF Entry
<1>3. \A e \in S : Index(h, e.key, t) \in DOMAIN t.table
  BY <1>0, <1>2, IndexInTable
<1>4. /\ u.size = t.size /\ u.used = t.used + Cardinality(S)
      /\ DOMAIN u.table = DOMAIN t.table
      /\ \A c \in DOMAIN t.table :
            u.table[c] = t.table[c] \cup {e \in S : Index(h, e.key, t) = c}
  OBVIOUS
<1>5. TableTypeOK(u)
  <2>1. \A c \in DOMAIN t.table :
          t.table[c] \cup {e \in S : Index(h, e.key, t) = c} \in SUBSET Entry
    BY <1>0 DEF TableTypeOK
  <2>2. DOMAIN t.table = 0..t.size-1
    BY <1>0 DEF TableTypeOK
  <2>3. u.table \in [0..t.size-1 -> SUBSET Entry]
    BY <2>1, <2>2
  <2>4. u = [size |-> u.size, used |-> u.used, table |-> u.table]
    OBVIOUS
  <2> QED
    BY <1>0, <1>1, <1>4, <2>3, <2>4 DEF TableTypeOK
<1> HIDE DEF M
<1>6. Entries(u) = Entries(t) \cup S
  <2>1. \A e : e \in Entries(u) <=> \E c \in DOMAIN t.table : e \in u.table[c]
    BY <1>4 DEF Entries
  <2>2. \A e : e \in Entries(t) <=> \E c \in DOMAIN t.table : e \in t.table[c]
    BY DEF Entries
  <2> QED
    BY <1>3, <1>4, <2>1, <2>2
<1>7. KeysIn(u) = KeysIn(t) \cup M
  BY <1>6 DEF KeysIn, M
<1>8. AtHome(h, u)
  <2> SUFFICES ASSUME NEW c \in DOMAIN t.table, NEW e \in u.table[c]
               PROVE  c = Index(h, e.key, u)
    BY <1>4 DEF AtHome
  <2>1. Index(h, e.key, u) = Index(h, e.key, t)
    BY <1>4 DEF Index
  <2>2. e \in t.table[c] \/ Index(h, e.key, t) = c
    BY <1>4
  <2> QED
    BY <2>1, <2>2, <1>0 DEF AtHome
<1>9. OneEntryPerKey(u)
  <2>1. \A e \in Entries(t), f \in S : e.key # f.key
    BY DEF KeysIn
  <2> QED
    BY <1>0, <1>6, <2>1 DEF OneEntryPerKey
<1>10. UsedExact(u)
  <2>1. KeysIn(t) \cap M = {}
    BY DEF M
  <2>2. Cardinality(KeysIn(t) \cup M) = Cardinality(KeysIn(t)) + Cardinality(M)
    <3>1. IsFiniteSet(KeysIn(t)) /\ Cardinality(KeysIn(t)) \in Nat
      BY <1>0, KeysFinite
    <3>2. Cardinality(KeysIn(t) \cup M) = Cardinality(KeysIn(t))
              + Cardinality(M) - Cardinality(KeysIn(t) \cap M)
      BY <1>1, <3>1, FS_Union
    <3>3. Cardinality(KeysIn(t) \cap M) = 0
      BY <2>1, FS_EmptySet
    <3>4. Cardinality(M) \in Nat
      BY <1>1
    <3> QED
      BY <3>1, <3>2, <3>3, <3>4
  <2> QED
    BY <1>0, <1>1, <1>4, <1>7, <2>2 DEF UsedExact
<1> QED
  BY <1>4, <1>5, <1>6, <1>7, <1>8, <1>9, <1>10 DEF TableOK, M


----------------------------------------------------------------------------
(* Part 3: the two tables of a sub-dictionary *)

AllEntries(d) == Entries(d.main) \cup Entries(d.rehashing)
AllKeys(d)    == KeysIn(d.main) \cup KeysIn(d.rehashing)

\* The inductive invariant of a sub-dictionary.
DickOK(h, d) == /\ d = [main |-> d.main, rehashing |-> d.rehashing,
                        rehashidx |-> d.rehashidx]
                /\ TableOK(h, d.main)
                /\ TableOK(h, d.rehashing)
                /\ d.rehashidx \in Nat \cup {-1}
                /\ KeysIn(d.main) \cap KeysIn(d.rehashing) = {}
                /\ CursorOK(d)
                /\ LoadOK(d)

\* There is room for one more entry.
Room(d) == IF isRehashing(d)
           THEN d.main.used + d.rehashing.used < d.main.size + d.rehashidx
           ELSE d.main.used < d.main.size

\* What a rehash step does to the cursor and the sizes: it moves on within the
\* table it empties, or the new table takes the main place.
Moved(d, r) ==
    IF isRehashing(r)
    THEN /\ isRehashing(d)
         /\ r.rehashidx \in d.rehashidx + 1 .. d.rehashidx + EMPTY_VISITS
         /\ r.main.size = d.main.size
         /\ r.rehashing.size = d.rehashing.size
    ELSE isRehashing(d) => r.main.size = d.rehashing.size

\* A sub-dictionary starts well-formed and empty.
LEMMA NewDickOK ==
    ASSUME NEW h \in Hash
    PROVE  DickOK(h, NewSubDICK) /\ AllKeys(NewSubDICK) = {}
<1> DEFINE z == NewDickTable(0)
           d == NewSubDICK
<1>1. TableOK(h, z) /\ KeysIn(z) = {} /\ z.size = 0 /\ z.used = 0
  BY NewTableOK
<1>2. d = [main |-> z, rehashing |-> z, rehashidx |-> -1]
  BY DEF NewSubDICK
<1>3. d.rehashing = NewDickTable(0)
  BY <1>2
<1> HIDE DEF z, d
<1>4. CursorOK(d) /\ LoadOK(d)
  BY <1>1, <1>2, <1>3 DEF CursorOK, LoadOK, isRehashing
<1>5. DickOK(h, d) /\ AllKeys(d) = {}
  BY <1>1, <1>2, <1>4 DEF DickOK, AllKeys
<1> QED
  BY <1>5 DEF d

\* nextPower rounds up, for every size a table can ask for.
LEMMA NextPowerOK ==
    ASSUME NEW n \in Nat, n <= 2 * Cardinality(Key)
    PROVE  /\ nextPower(n) \in PowersOfTwo
           /\ nextPower(n) \in Nat \ {0}
           /\ n <= nextPower(n)
<1>1. Cardinality(Key) \in Nat /\ 2 * Cardinality(Key) <= Pow2[MaxExponent]
  BY SizesAssumption, FS_CardinalityType
<1>2. CASE n <= INITIAL_SIZE
  BY <1>2, SizesAreNaturals DEF nextPower
<1>3. CASE ~(n <= INITIAL_SIZE)
  <2>1. n \in 1..Pow2[MaxExponent]
    BY <1>1, <1>3, SizesAreNaturals, Pow2OK, Exponents
  <2>2. LeastPower(n, nextPower(n))
    BY <2>1, NextPowerIsLeast
  <2> QED
    BY <2>2, SizesAreNaturals DEF LeastPower
<1> QED
  BY <1>2, <1>3

\* The counters of a well-formed sub-dictionary.
LEMMA Counters ==
    ASSUME NEW h \in Hash, NEW d, DickOK(h, d)
    PROVE  /\ d.main.used \in Nat /\ d.rehashing.used \in Nat
           /\ d.main.size \in Nat /\ d.rehashing.size \in Nat
           /\ d.main.used <= Cardinality(Key)
           /\ Cardinality(Key) \in Nat
           /\ d.main.used = 0 <=> KeysIn(d.main) = {}
           /\ d.rehashing.used = 0 <=> KeysIn(d.rehashing) = {}
<1>1. TableTypeOK(d.main) /\ TableTypeOK(d.rehashing)
  BY DEF DickOK, TableOK
<1>2. UsedExact(d.main) /\ UsedExact(d.rehashing)
  BY DEF DickOK, TableOK
<1>3. d.main.size \in Nat /\ d.rehashing.size \in Nat
  <2>1. \A n \in {0} \cup PowersOfTwo : n \in Nat
    BY SizesAreNaturals
  <2>2. /\ d.main.size \in {0} \cup PowersOfTwo
        /\ d.rehashing.size \in {0} \cup PowersOfTwo
    BY <1>1 DEF TableTypeOK
  <2> QED
    BY <2>1, <2>2
<1> QED
  BY <1>1, <1>2, <1>3, KeysFinite, SizesAssumption, FS_CardinalityType
     DEF UsedExact, TableTypeOK

\* expandIfNeeded keeps every entry, and leaves a table with room or a rehash
\* under way.
LEMMA ExpandOK ==
    ASSUME NEW h \in Hash, NEW d, DickOK(h, d)
    PROVE  LET e == expandIfNeeded(d) IN
           /\ DickOK(h, e)
           /\ AllEntries(e) = AllEntries(d) /\ AllKeys(e) = AllKeys(d)
           /\ e.main.size # 0
           /\ isRehashing(d) => e = d
           /\ ~isRehashing(e) => Room(e)
<1> DEFINE e == expandIfNeeded(d)
<1>1. /\ d.main.used \in Nat /\ d.main.size \in Nat
      /\ d.main.used <= Cardinality(Key) /\ Cardinality(Key) \in Nat
      /\ d.main.used = 0 <=> KeysIn(d.main) = {}
  BY Counters
<1>2. CASE isRehashing(d)
  <2>1. e = d
    BY <1>2 DEF expandIfNeeded
  <2>2. d.main.size # 0
    <3>1. d.rehashidx \in Nat /\ d.rehashidx < d.main.size
      BY <1>2 DEF DickOK, CursorOK, isRehashing
    <3> QED
      BY <1>1, <3>1
  <2> QED
    BY <1>2, <2>1, <2>2
<1>3. CASE ~isRehashing(d) /\ d.main.size = 0
  <2>1. INITIAL_SIZE \in PowersOfTwo /\ INITIAL_SIZE \in Nat \ {0}
    BY SizesAreNaturals
  <2>2. nextPower(INITIAL_SIZE) = INITIAL_SIZE
    BY <2>1 DEF nextPower
  <2>3. d.main.used = 0
    BY <1>1, <1>3 DEF DickOK, LoadOK
  <2> DEFINE t == NewDickTable(INITIAL_SIZE)
  <2>4. e = [main |-> t, rehashing |-> d.rehashing, rehashidx |-> d.rehashidx]
    BY <1>3, <2>1, <2>2, <2>3 DEF expandIfNeeded, expand, DickOK
  <2>5. /\ TableOK(h, t) /\ KeysIn(t) = {}
        /\ t.size = INITIAL_SIZE /\ t.used = 0
    BY <2>1, NewTableOK
  <2>6. KeysIn(d.main) = {}
    BY <1>1, <2>3
  <2>7. Entries(t) = {} /\ Entries(d.main) = {}
    BY <2>5, <2>6 DEF KeysIn
  <2> HIDE DEF t, e
  <2>8. DickOK(h, e)
    BY <1>3, <2>1, <2>4, <2>5 DEF DickOK, CursorOK, LoadOK, isRehashing
  <2>9. Room(e)
    BY <1>3, <2>1, <2>4, <2>5 DEF Room, isRehashing
  <2> QED
    BY <1>3, <2>1, <2>4, <2>5, <2>6, <2>7, <2>8, <2>9
       DEF AllEntries, AllKeys, e
<1>4. CASE ~isRehashing(d) /\ d.main.size # 0 /\ d.main.used >= d.main.size
  <2> DEFINE n == 2 * d.main.used
             p == nextPower(n)
             t == NewDickTable(p)
  <2>1. d.main.used = d.main.size /\ d.main.used > 0
    BY <1>1, <1>4 DEF DickOK, LoadOK
  <2>2. n \in Nat /\ n <= 2 * Cardinality(Key)
    BY <1>1
  <2>3. p \in PowersOfTwo /\ p \in Nat \ {0} /\ n <= p
    BY <2>2, NextPowerOK
  <2>4. ~(d.main.used > n) /\ ~(d.main.used >= p)
    BY <1>1, <2>1, <2>3
  <2>5. e = [main |-> d.main, rehashing |-> t, rehashidx |-> 0]
    BY <1>4, <2>4 DEF expandIfNeeded, expand, DickOK
  <2>6. TableOK(h, t) /\ KeysIn(t) = {} /\ t.size = p /\ t.used = 0
    BY <2>3, NewTableOK
  <2>7. Entries(t) = {} /\ KeysIn(d.rehashing) = {}
    <3>1. d.rehashing = NewDickTable(0)
      BY <1>4 DEF DickOK, CursorOK
    <3> QED
      BY <2>6, <3>1, NewTableOK DEF KeysIn
  <2>8. Entries(d.rehashing) = {}
    BY <2>7 DEF KeysIn
  <2>9. 2 * d.main.size <= p
    BY <2>1, <2>3
  <2> HIDE DEF t, e, p, n
  <2>10. CursorOK(e)
    BY <1>1, <2>1, <2>3, <2>5, <2>6 DEF CursorOK, isRehashing
  <2>11. LoadOK(e)
    BY <1>1, <2>1, <2>5, <2>6, <2>9 DEF LoadOK, isRehashing
  <2>12. DickOK(h, e)
    BY <2>5, <2>6, <2>10, <2>11 DEF DickOK
  <2> QED
    BY <1>4, <2>5, <2>6, <2>7, <2>8, <2>12
       DEF AllEntries, AllKeys, isRehashing, e
<1>5. CASE ~isRehashing(d) /\ d.main.size # 0 /\ ~(d.main.used >= d.main.size)
  <2>1. e = d
    BY <1>5 DEF expandIfNeeded
  <2> QED
    BY <1>1, <1>5, <2>1 DEF Room
<1> QED
  BY <1>2, <1>3, <1>4, <1>5


\* Moving one chain changes neither the keys nor the entries, and leaves every
\* bucket up to it empty.
LEMMA MoveBucketOK ==
    ASSUME NEW h \in Hash, NEW d, DickOK(h, d), isRehashing(d),
           NEW b \in Nat, b < d.main.size, d.rehashidx <= b,
           \A c \in Nat : c < b => d.main.table[c] = {}
    PROVE  LET m == MoveBucket(h, d, b) IN
           /\ m = [main |-> m.main, rehashing |-> m.rehashing, rehashidx |-> b + 1]
           /\ TableOK(h, m.main) /\ TableOK(h, m.rehashing)
           /\ KeysIn(m.main) \cap KeysIn(m.rehashing) = {}
           /\ AllEntries(m) = AllEntries(d) /\ AllKeys(m) = AllKeys(d)
           /\ m.main.size = d.main.size /\ m.rehashing.size = d.rehashing.size
           /\ m.main.used + m.rehashing.used = d.main.used + d.rehashing.used
           /\ \A c \in 0..b : m.main.table[c] = {}
<1> DEFINE m == MoveBucket(h, d, b)
           S == d.main.table[b]
           M == {e.key : e \in S}
<1>0. /\ TableOK(h, d.main) /\ TableOK(h, d.rehashing)
      /\ TableTypeOK(d.main) /\ TableTypeOK(d.rehashing)
      /\ OneEntryPerKey(d.main)
      /\ KeysIn(d.main) \cap KeysIn(d.rehashing) = {}
  BY DEF DickOK, TableOK
<1>1. /\ d.main.used \in Nat /\ d.rehashing.used \in Nat
      /\ d.main.size \in Nat /\ d.rehashing.size \in Nat
  BY Counters
<1>2. d.rehashing.size # 0
  BY <1>1 DEF DickOK, CursorOK
<1>3. DOMAIN d.main.table = 0..d.main.size-1 /\ b \in DOMAIN d.main.table
  BY <1>0, <1>1 DEF TableTypeOK
<1>4. S \in SUBSET Entry /\ S \subseteq Entries(d.main)
  BY <1>0, <1>3 DEF TableTypeOK, Entries
<1>5. \A e, f \in S : e.key = f.key => e = f
  BY <1>0, <1>4 DEF OneEntryPerKey
<1>6. M \subseteq KeysIn(d.main)
  BY <1>4 DEF KeysIn
<1>7. Cardinality(S) \in Nat
  BY <1>4, <1>5, ChainSize
<1>8. /\ m = [main |-> m.main, rehashing |-> m.rehashing, rehashidx |-> b + 1]
      /\ m.main = [size  |-> d.main.size,
                   used  |-> d.main.used - Cardinality(S),
                   table |-> [d.main.table EXCEPT ![b] = {}]]
      /\ m.rehashing = [size  |-> d.rehashing.size,
                        used  |-> d.rehashing.used + Cardinality(S),
                        table |-> [c \in DOMAIN d.rehashing.table |->
                                     d.rehashing.table[c] \cup
                                     {e \in S : Index(h, e.key, d.rehashing) = c}]]
  BY DEF MoveBucket
<1> HIDE DEF m
<1>9. /\ TableOK(h, m.main) /\ KeysIn(m.main) = KeysIn(d.main) \ M
      /\ Entries(m.main) = Entries(d.main) \ S
      /\ m.main.size = d.main.size
      /\ m.main.used = d.main.used - Cardinality(S)
      /\ m.main.table[b] = {}
      /\ \A c \in DOMAIN d.main.table : c # b => m.main.table[c] = d.main.table[c]
  <2> DEFINE t == d.main
             u == m.main
  <2>1. TableOK(h, t) /\ b \in DOMAIN t.table
    BY <1>0, <1>3
  <2>2. u = [size  |-> t.size,
             used  |-> t.used - Cardinality(t.table[b]),
             table |-> [t.table EXCEPT ![b] = {}]]
    BY <1>8
  <2> HIDE DEF t, u
  <2>3. /\ TableOK(h, u)
        /\ KeysIn(u) = KeysIn(t) \ {e.key : e \in t.table[b]}
        /\ Entries(u) = Entries(t) \ t.table[b]
        /\ u.size = t.size
        /\ u.used = t.used - Cardinality(t.table[b])
        /\ u.table[b] = {}
        /\ \A c \in DOMAIN t.table : c # b => u.table[c] = t.table[c]
    BY <2>1, <2>2, EmptyBucketOK
  <2> QED
    BY <2>3 DEF t, u
<1>10. KeysIn(d.rehashing) \cap M = {}
  BY <1>0, <1>6
<1>11. /\ TableOK(h, m.rehashing) /\ KeysIn(m.rehashing) = KeysIn(d.rehashing) \cup M
       /\ Entries(m.rehashing) = Entries(d.rehashing) \cup S
       /\ m.rehashing.size = d.rehashing.size
       /\ m.rehashing.used = d.rehashing.used + Cardinality(S)
  <2> DEFINE t == d.rehashing
             u == m.rehashing
  <2>1. TableOK(h, t) /\ t.size # 0 /\ KeysIn(t) \cap {e.key : e \in S} = {}
    BY <1>0, <1>2, <1>10
  <2>2. u = [size  |-> t.size,
             used  |-> t.used + Cardinality(S),
             table |-> [c \in DOMAIN t.table |->
                           t.table[c] \cup {e \in S : Index(h, e.key, t) = c}]]
    BY <1>8
  <2> HIDE DEF t, u, S
  <2>3. /\ TableOK(h, u)
        /\ KeysIn(u) = KeysIn(t) \cup {e.key : e \in S}
        /\ Entries(u) = Entries(t) \cup S
        /\ u.size = t.size
        /\ u.used = t.used + Cardinality(S)
    BY <1>4, <1>5, <2>1, <2>2, AbsorbOK
  <2> QED
    BY <2>3 DEF t, u, S
<1>12. KeysIn(m.main) \cap KeysIn(m.rehashing) = {}
  BY <1>0, <1>9, <1>11
<1>13. AllEntries(m) = AllEntries(d) /\ AllKeys(m) = AllKeys(d)
  BY <1>4, <1>6, <1>9, <1>11 DEF AllEntries, AllKeys
<1>14. m.main.used + m.rehashing.used = d.main.used + d.rehashing.used
  BY <1>1, <1>7, <1>9, <1>11
<1>15. \A c \in 0..b : m.main.table[c] = {}
  BY <1>1, <1>3, <1>9
<1> QED
  BY <1>8, <1>9, <1>11, <1>12, <1>13, <1>14, <1>15 DEF m

\* A rehash step keeps every entry, and after it there is room for one more:
\* either the cursor moved on or the new table took the main place.
LEMMA RehashStepOK ==
    ASSUME NEW h \in Hash, NEW d, DickOK(h, d)
    PROVE  LET r == rehashStep(h, d) IN
           /\ DickOK(h, r)
           /\ AllEntries(r) = AllEntries(d) /\ AllKeys(r) = AllKeys(d)
           /\ isRehashing(d) => Room(r)
           /\ Moved(d, r)
           /\ ~isRehashing(d) => r = d
<1> DEFINE r == rehashStep(h, d)
<1>0. /\ d.main.used \in Nat /\ d.rehashing.used \in Nat
      /\ d.main.size \in Nat /\ d.rehashing.size \in Nat
      /\ d.main.used = 0 <=> KeysIn(d.main) = {}
      /\ TableOK(h, d.main) /\ TableOK(h, d.rehashing)
      /\ TableTypeOK(d.main)
  BY Counters DEF DickOK, TableOK
<1>1. CASE ~isRehashing(d)
  <2>1. r = d
    BY <1>1 DEF rehashStep
  <2> QED
    BY <1>1, <2>1 DEF Moved
<1>2. CASE isRehashing(d)
  <2>1. /\ d.rehashidx \in Nat /\ d.rehashidx < d.main.size
        /\ d.rehashing.size > 0
        /\ \A b \in 0..d.rehashidx-1 : d.main.table[b] = {}
        /\ d.main.used + d.rehashing.used <= d.main.size + d.rehashidx
        /\ 2 * d.main.size <= d.rehashing.size
    BY <1>2 DEF DickOK, CursorOK, LoadOK, isRehashing
  \* Replacing an emptied main table.
  <2>2. ASSUME NEW x, KeysIn(x.main) = {}, x.main.used = 0,
               TableOK(h, x.rehashing), x.rehashing.size = d.rehashing.size,
               x.main.used + x.rehashing.used = d.main.used + d.rehashing.used,
               AllEntries(x) = AllEntries(d), AllKeys(x) = AllKeys(d),
               r = Finish(x)
        PROVE  /\ DickOK(h, r) /\ Room(r)
               /\ AllEntries(r) = AllEntries(d) /\ AllKeys(r) = AllKeys(d)
               /\ Moved(d, r)
    <3> DEFINE z == NewDickTable(0)
    <3>1. r = [main |-> x.rehashing, rehashing |-> z, rehashidx |-> -1]
      BY <2>2 DEF Finish
    <3>2. TableOK(h, z) /\ KeysIn(z) = {} /\ Entries(z) = {}
      <4>1. TableOK(h, z) /\ KeysIn(z) = {}
        BY NewTableOK
      <4> QED
        BY <4>1 DEF KeysIn
    <3>3. Entries(x.main) = {}
      BY <2>2 DEF KeysIn
    <3>4. x.rehashing.used \in Nat /\ x.rehashing.used < x.rehashing.size
      <4>1. x.rehashing.used \in Nat
        BY <2>2 DEF TableOK, TableTypeOK
      <4> QED
        BY <4>1, <2>1, <2>2, <1>0
    <3> HIDE DEF r
    <3>5. AllEntries(r) = AllEntries(d) /\ AllKeys(r) = AllKeys(d)
      BY <2>2, <3>1, <3>2, <3>3 DEF AllEntries, AllKeys
    <3>6. ~isRehashing(r) /\ r.main.size = d.rehashing.size
      BY <2>2, <3>1 DEF isRehashing
    <3>7. Room(r) /\ CursorOK(r) /\ LoadOK(r)
      <4>1. r.main.used < r.main.size /\ r.main.used <= r.main.size
        BY <1>0, <2>2, <3>1, <3>4
      <4>2. r.rehashing = NewDickTable(0)
        BY <3>1
      <4> QED
        BY <3>6, <4>1, <4>2 DEF Room, CursorOK, LoadOK
    <3>8. DickOK(h, r)
      BY <2>2, <3>1, <3>2, <3>7 DEF DickOK
    <3> QED
      BY <3>5, <3>6, <3>7, <3>8 DEF Moved
  <2>3. CASE d.main.used = 0
    <3>1. r = Finish(d)
      BY <1>2, <2>3 DEF rehashStep
    <3> QED
      BY <1>0, <1>2, <2>2, <2>3, <3>1
  <2>4. CASE d.main.used # 0 /\ Reachable(d) = {}
    <3>1. PICK c \in 0..d.main.size-1 : d.main.table[c] # {}
      BY <1>0, <2>4 DEF KeysIn, Entries, TableTypeOK
    <3>2. EMPTY_VISITS \in Nat \ {0}
      BY SizesAreNaturals
    <3>3. \A b \in d.rehashidx .. d.rehashidx + EMPTY_VISITS - 1 :
             b \in 0..d.main.size-1 => d.main.table[b] = {}
      BY <1>0, <2>4 DEF Reachable, TableTypeOK
    <3>4. c >= d.rehashidx + EMPTY_VISITS
      BY <1>0, <2>1, <3>1, <3>2, <3>3
    <3>5. r = [main |-> d.main, rehashing |-> d.rehashing,
               rehashidx |-> d.rehashidx + EMPTY_VISITS]
      BY <1>2, <2>4 DEF rehashStep, DickOK
    <3> HIDE DEF r
    <3>6. \A b \in 0..r.rehashidx-1 : r.main.table[b] = {}
      BY <1>0, <2>1, <3>1, <3>2, <3>3, <3>4, <3>5
    <3>7. r.rehashidx \in Nat /\ r.rehashidx > d.rehashidx /\ isRehashing(r)
      BY <2>1, <3>2, <3>5 DEF isRehashing
    <3>8. CursorOK(r)
      BY <1>0, <2>1, <3>1, <3>4, <3>5, <3>6, <3>7 DEF CursorOK
    <3>9. LoadOK(r) /\ Room(r)
      BY <1>0, <2>1, <3>5, <3>7 DEF LoadOK, Room
    <3>10. DickOK(h, r)
      BY <3>5, <3>7, <3>8, <3>9 DEF DickOK
    <3>11. Moved(d, r)
      BY <1>2, <2>1, <3>2, <3>5, <3>7 DEF Moved
    <3> QED
      BY <1>2, <3>5, <3>7, <3>9, <3>10, <3>11 DEF AllEntries, AllKeys, r
  <2>5. CASE d.main.used # 0 /\ Reachable(d) # {}
    <3> DEFINE b == FirstReachable(d)
               m == MoveBucket(h, d, b)
    <3>1. Reachable(d) \subseteq Nat
      BY <2>1, SizesAreNaturals DEF Reachable
    <3>2. b \in Reachable(d) /\ \A y \in Reachable(d) : b <= y
      <4>1. \E x \in Reachable(d) : \A y \in Reachable(d) : x <= y
        BY <2>5, <3>1, SmallestExists
      <4> QED
        BY <4>1 DEF FirstReachable
    <3>3. r = Finish(m)
      BY <1>2, <2>5 DEF rehashStep
    <3> HIDE DEF b
    <3>4. /\ b \in Nat /\ b < d.main.size /\ d.rehashidx <= b
          /\ b <= d.rehashidx + EMPTY_VISITS - 1
      BY <1>0, <2>1, <3>1, <3>2, SizesAreNaturals DEF Reachable, TableTypeOK
    <3>5. \A c \in Nat : c < b => d.main.table[c] = {}
      <4> SUFFICES ASSUME NEW c \in Nat, c < b
                   PROVE  d.main.table[c] = {}
        OBVIOUS
      <4>1. CASE c < d.rehashidx
        BY <2>1, <4>1
      <4>2. CASE c >= d.rehashidx
        <5>1. c \notin Reachable(d)
          BY <3>2, <3>4
        <5>2. c \in d.rehashidx .. d.rehashidx + EMPTY_VISITS - 1
          BY <2>1, <3>4, <4>2, SizesAreNaturals
        <5>3. c \in DOMAIN d.main.table
          BY <1>0, <3>4 DEF TableTypeOK
        <5> QED
          BY <5>1, <5>2, <5>3 DEF Reachable
      <4> QED
        BY <2>1, <4>1, <4>2
    <3> HIDE DEF m, r
    <3>6. /\ m = [main |-> m.main, rehashing |-> m.rehashing, rehashidx |-> b + 1]
          /\ TableOK(h, m.main) /\ TableOK(h, m.rehashing)
          /\ KeysIn(m.main) \cap KeysIn(m.rehashing) = {}
          /\ AllEntries(m) = AllEntries(d) /\ AllKeys(m) = AllKeys(d)
          /\ m.main.size = d.main.size /\ m.rehashing.size = d.rehashing.size
          /\ m.main.used + m.rehashing.used = d.main.used + d.rehashing.used
          /\ \A c \in 0..b : m.main.table[c] = {}
      BY <1>2, <3>4, <3>5, MoveBucketOK DEF m
    <3>7. TableTypeOK(m.main) /\ UsedExact(m.main)
      BY <3>6 DEF TableOK
    <3>8. m.main.used \in Nat /\ m.rehashing.used \in Nat
      BY <3>6 DEF TableOK, TableTypeOK
    <3>9. m.main.used = 0 <=> KeysIn(m.main) = {}
      BY <3>7, KeysFinite DEF UsedExact
    <3>10. CASE m.main.used = 0
      <4>1. /\ DickOK(h, r) /\ Room(r)
            /\ AllEntries(r) = AllEntries(d) /\ AllKeys(r) = AllKeys(d)
            /\ Moved(d, r)
        BY <2>2, <3>3, <3>6, <3>9, <3>10
      <4> QED
        BY <1>2, <4>1 DEF r
    <3>11. CASE m.main.used # 0
      <4>1. r = m
        BY <3>3, <3>11 DEF Finish
      <4>2. PICK c \in 0..d.main.size-1 : m.main.table[c] # {}
        <5>1. PICK e \in Entries(m.main) : TRUE
          BY <3>9, <3>11 DEF KeysIn
        <5>2. DOMAIN m.main.table = 0..d.main.size-1
          BY <3>6, <3>7 DEF TableTypeOK
        <5> QED
          BY <5>1, <5>2 DEF Entries
      <4>3. b + 1 < d.main.size
        BY <1>0, <3>4, <3>6, <4>2
      <4>4. r.rehashidx = b + 1 /\ isRehashing(r)
        BY <3>4, <3>6, <4>1 DEF isRehashing
      <4>5. CursorOK(r)
        BY <2>1, <3>4, <3>6, <4>1, <4>3, <4>4 DEF CursorOK
      <4>6. LoadOK(r) /\ Room(r)
        BY <1>0, <2>1, <3>4, <3>6, <3>8, <4>1, <4>4 DEF LoadOK, Room
      <4>7. DickOK(h, r)
        BY <3>4, <3>6, <4>1, <4>4, <4>5, <4>6 DEF DickOK
      <4>8. Moved(d, r)
        BY <1>2, <2>1, <3>4, <3>6, <4>1, <4>4, SizesAreNaturals DEF Moved
      <4> QED
        BY <1>2, <3>6, <4>1, <4>4, <4>6, <4>7, <4>8 DEF r
    <3> QED
      BY <3>10, <3>11
  <2> QED
    BY <1>2, <2>3, <2>4, <2>5
<1> QED
  BY <1>1, <1>2


\* The keys of a sub-dictionary are those of its entries.
LEMMA KeysOfEntries ==
    ASSUME NEW d
    PROVE  AllKeys(d) = {e.key : e \in AllEntries(d)}
BY DEF AllKeys, AllEntries, KeysIn

\* The searches of get, keyIndex and del, each in one bucket of a table, miss
\* no entry.
LEMMA SearchOK ==
    ASSUME NEW h \in Hash, NEW d, DickOK(h, d), NEW k \in Key
    PROVE  /\ InMain(h, k, d) <=> k \in KeysIn(d.main)
           /\ InRehashing(h, k, d) <=> k \in KeysIn(d.rehashing)
           /\ Finds(h, k, d) <=> k \in AllKeys(d)
           /\ BothEmpty(d) => AllKeys(d) = {}
<1>1. /\ TableTypeOK(d.main) /\ AtHome(h, d.main)
      /\ TableTypeOK(d.rehashing) /\ AtHome(h, d.rehashing)
  BY DEF DickOK, TableOK
<1>2. InMain(h, k, d) <=> k \in KeysIn(d.main)
  BY <1>1, KeyAtHome DEF InMain
<1>3. InRehashing(h, k, d) <=> k \in KeysIn(d.rehashing)
  <2>1. ~isRehashing(d) => KeysIn(d.rehashing) = {}
    BY NewTableOK DEF DickOK, CursorOK
  <2> QED
    BY <1>1, <2>1, KeyAtHome DEF InRehashing
<1>4. BothEmpty(d) => AllKeys(d) = {}
  BY Counters DEF BothEmpty, AllKeys
<1> QED
  BY <1>2, <1>3, <1>4 DEF Finds, AllKeys

\* get returns the value of the entry of the key.
LEMMA GetOK ==
    ASSUME NEW h \in Hash, NEW d, DickOK(h, d), NEW k \in Key, Finds(h, k, d)
    PROVE  \E e \in AllEntries(d) : e.key = k /\ e.value = get(h, k, d)
<1>0. /\ TableTypeOK(d.main) /\ TableTypeOK(d.rehashing)
  BY DEF DickOK, TableOK
<1>1. CASE InMain(h, k, d)
  <2> DEFINE b == Index(h, k, d.main)
  <2>1. Holds(d.main, b, k) /\ b \in DOMAIN d.main.table
    BY <1>0, <1>1, IndexInTable DEF InMain
  <2>2. PICK e \in d.main.table[b] : e.key = k /\ e.value = ValueIn(d.main, b, k)
    BY <2>1 DEF Holds, ValueIn
  <2>3. e \in AllEntries(d)
    BY <2>1 DEF AllEntries, Entries
  <2> QED
    BY <1>1, <2>2, <2>3 DEF get
<1>2. CASE ~InMain(h, k, d)
  <2> DEFINE b == Index(h, k, d.rehashing)
  <2>0. InRehashing(h, k, d)
    BY <1>2 DEF Finds
  <2>1. Holds(d.rehashing, b, k) /\ b \in DOMAIN d.rehashing.table
    BY <1>0, <2>0, IndexInTable DEF InRehashing
  <2>2. PICK e \in d.rehashing.table[b] :
          e.key = k /\ e.value = ValueIn(d.rehashing, b, k)
    BY <2>1 DEF Holds, ValueIn
  <2>3. e \in AllEntries(d)
    BY <2>1 DEF AllEntries, Entries
  <2> QED
    BY <1>2, <2>2, <2>3 DEF get
<1> QED
  BY <1>1, <1>2

\* Overwriting replaces the entry of the key and nothing else.
LEMMA OverwriteOK ==
    ASSUME NEW h \in Hash, NEW d, DickOK(h, d), NEW k \in Key, NEW v \in Value,
           Finds(h, k, d)
    PROVE  LET o == overwrite(h, k, v, d) IN
           /\ DickOK(h, o)
           /\ AllEntries(o) = {e \in AllEntries(d) : e.key # k}
                                \cup {[key |-> k, value |-> v]}
           /\ AllKeys(o) = AllKeys(d)
           /\ o.rehashidx = d.rehashidx
           /\ o.main.size = d.main.size /\ o.rehashing.size = d.rehashing.size
<1> DEFINE o == overwrite(h, k, v, d)
<1>0. /\ TableOK(h, d.main) /\ TableOK(h, d.rehashing)
      /\ TableTypeOK(d.main) /\ TableTypeOK(d.rehashing)
  BY DEF DickOK, TableOK
<1>1. CASE InMain(h, k, d)
  <2> DEFINE b == Index(h, k, d.main)
             u == Replace(d.main, b, k, v)
  <2>1. k \in KeysIn(d.main) /\ k \notin KeysIn(d.rehashing)
    BY <1>1, SearchOK DEF DickOK
  <2>2. /\ TableOK(h, u) /\ KeysIn(u) = KeysIn(d.main)
        /\ u.size = d.main.size /\ u.used = d.main.used
        /\ Entries(u) = {e \in Entries(d.main) : e.key # k}
                            \cup {[key |-> k, value |-> v]}
    BY <1>0, <2>1, ReplaceOK
  <2>3. o = [main |-> u, rehashing |-> d.rehashing, rehashidx |-> d.rehashidx]
    BY <1>1 DEF overwrite, DickOK
  <2>4. \A c \in DOMAIN d.main.table : d.main.table[c] = {} => u.table[c] = {}
    <3>1. b \in DOMAIN d.main.table /\ d.main.table[b] # {}
      BY <1>0, <1>1, IndexInTable DEF InMain, Holds
    <3>2. u = [d.main EXCEPT !.table[b] =
                 {e \in d.main.table[b] : e.key # k} \cup {[key |-> k, value |-> v]}]
      BY DEF Replace
    <3>3. \A c \in DOMAIN d.main.table : c # b => u.table[c] = d.main.table[c]
      BY <1>0, <3>2 DEF TableTypeOK
    <3> QED
      BY <3>1, <3>3
  <2>5. DOMAIN d.main.table = 0..d.main.size-1
    BY <1>0 DEF TableTypeOK
  <2> HIDE DEF u, o, b
  <2>6. CursorOK(o)
    <3>1. CASE isRehashing(d)
      <4>1. /\ d.rehashidx \in Nat /\ d.rehashidx < d.main.size
            /\ \A c \in 0..d.rehashidx-1 : d.main.table[c] = {}
            /\ d.rehashing.size > 0 /\ d.main.size \in Nat
        BY <3>1, Counters DEF DickOK, CursorOK, isRehashing
      <4>2. \A c \in 0..d.rehashidx-1 : u.table[c] = {}
        BY <2>4, <2>5, <4>1
      <4> QED
        BY <3>1, <2>2, <2>3, <4>1, <4>2 DEF CursorOK, isRehashing
    <3>2. CASE ~isRehashing(d)
      BY <3>2, <2>3 DEF CursorOK, isRehashing, DickOK
    <3> QED
      BY <3>1, <3>2
  <2>7. LoadOK(o)
    BY <2>2, <2>3 DEF LoadOK, isRehashing, DickOK
  <2>8. DickOK(h, o)
    BY <2>2, <2>3, <2>6, <2>7 DEF DickOK
  <2>9. \A e \in Entries(d.rehashing) : e.key # k
    BY <2>1 DEF KeysIn
  <2>10. AllEntries(o) = {e \in AllEntries(d) : e.key # k}
                            \cup {[key |-> k, value |-> v]}
    BY <2>2, <2>3, <2>9 DEF AllEntries
  <2> QED
    BY <2>2, <2>3, <2>8, <2>10 DEF AllKeys, o
<1>2. CASE ~InMain(h, k, d)
  <2> DEFINE b == Index(h, k, d.rehashing)
             u == Replace(d.rehashing, b, k, v)
  <2>1. k \in KeysIn(d.rehashing) /\ k \notin KeysIn(d.main) /\ isRehashing(d)
    <3>1. InRehashing(h, k, d)
      BY <1>2 DEF Finds
    <3> QED
      BY <3>1, SearchOK DEF DickOK, InRehashing
  <2>2. /\ TableOK(h, u) /\ KeysIn(u) = KeysIn(d.rehashing)
        /\ u.size = d.rehashing.size /\ u.used = d.rehashing.used
        /\ Entries(u) = {e \in Entries(d.rehashing) : e.key # k}
                            \cup {[key |-> k, value |-> v]}
    BY <1>0, <2>1, ReplaceOK
  <2>3. o = [main |-> d.main, rehashing |-> u, rehashidx |-> d.rehashidx]
    BY <1>2 DEF overwrite, DickOK
  <2> HIDE DEF u, o, b
  <2>4. CursorOK(o) /\ LoadOK(o)
    BY <2>1, <2>2, <2>3 DEF CursorOK, LoadOK, isRehashing, DickOK
  <2>5. DickOK(h, o)
    BY <2>2, <2>3, <2>4 DEF DickOK
  <2>6. \A e \in Entries(d.main) : e.key # k
    BY <2>1 DEF KeysIn
  <2>7. AllEntries(o) = {e \in AllEntries(d) : e.key # k}
                           \cup {[key |-> k, value |-> v]}
    BY <2>2, <2>3, <2>6 DEF AllEntries
  <2> QED
    BY <2>2, <2>3, <2>5, <2>7 DEF AllKeys, o
<1> QED
  BY <1>1, <1>2


\* Adding an absent key: it never fails, whatever expansion and rehash step the
\* call does first, and the new entry is where a search will look.
LEMMA AddOK ==
    ASSUME NEW h \in Hash, NEW d, DickOK(h, d), NEW k \in Key, NEW v \in Value,
           ~Finds(h, k, d)
    PROVE  LET a == add(h, k, v, d) IN
           /\ ~addFails(h, k, d)
           /\ DickOK(h, a)
           /\ AllEntries(a) = AllEntries(d) \cup {[key |-> k, value |-> v]}
           /\ isRehashing(d) => Moved(d, a)
<1> DEFINE e == expandIfNeeded(d)
           X == keyIndex(h, k, e)
           r == rehashStep(h, e)
           a == add(h, k, v, d)
           new == [key |-> k, value |-> v]
<1>1. /\ DickOK(h, e) /\ AllEntries(e) = AllEntries(d) /\ AllKeys(e) = AllKeys(d)
      /\ e.main.size # 0 /\ (isRehashing(d) => e = d)
      /\ (~isRehashing(e) => Room(e))
  BY ExpandOK
<1>2. k \notin AllKeys(e)
  BY <1>1, SearchOK
<1> HIDE DEF e
<1>3. /\ DickOK(h, r) /\ AllEntries(r) = AllEntries(e) /\ AllKeys(r) = AllKeys(e)
      /\ (isRehashing(e) => Room(r)) /\ Moved(e, r)
      /\ (~isRehashing(e) => r = e)
  BY <1>1, RehashStepOK
<1>4. Room(r)
  BY <1>1, <1>3
<1>5. k \notin KeysIn(r.main) /\ k \notin KeysIn(r.rehashing)
  BY <1>2, <1>3 DEF AllKeys
<1>6. X = IF isRehashing(e) THEN Index(h, k, e.rehashing) ELSE Index(h, k, e.main)
  <2>1. ~Holds(e.main, Index(h, k, e.main), k)
    BY <1>1, <1>2, SearchOK DEF InMain, AllKeys
  <2>2. isRehashing(e) => ~Holds(e.rehashing, Index(h, k, e.rehashing), k)
    <3>1. isRehashing(e) => e.rehashing.size # 0
      BY <1>1 DEF DickOK, CursorOK
    <3> QED
      BY <1>1, <1>2, <3>1, SearchOK DEF InRehashing, AllKeys
  <2> QED
    BY <2>1, <2>2 DEF keyIndex
<1>7. /\ TableOK(h, r.main) /\ TableOK(h, r.rehashing)
      /\ TableTypeOK(r.main) /\ TableTypeOK(r.rehashing)
      /\ TableTypeOK(e.main) /\ TableTypeOK(e.rehashing)
      /\ r.main.used \in Nat /\ r.rehashing.used \in Nat
      /\ r.main.size \in Nat /\ r.rehashing.size \in Nat
  BY <1>1, <1>3, Counters DEF DickOK, TableOK
<1>8. X # -1
  <2>1. isRehashing(e) => e.rehashing.size # 0
    BY <1>1 DEF DickOK, CursorOK
  <2>2. isRehashing(e) => Index(h, k, e.rehashing) \in Nat
    BY <1>7, <2>1, IndexInTable
  <2>3. Index(h, k, e.main) \in Nat
    BY <1>1, <1>7, IndexInTable
  <2> QED
    BY <1>6, <2>2, <2>3
<1>9. ~addFails(h, k, d)
  BY <1>8 DEF addFails, e
<1>10. new \in Entry /\ new.key = k
  BY DEF Entry
<1> HIDE DEF X, r, new
<1>11. CASE isRehashing(r)
  <2> DEFINE u == Insert(r.rehashing, X, k, v)
  <2>1. isRehashing(e) /\ r.rehashing.size = e.rehashing.size
    BY <1>3, <1>11 DEF Moved
  <2>2. X = Index(h, k, r.rehashing)
    BY <1>6, <2>1 DEF Index
  <2>3. /\ r.rehashidx \in Nat /\ r.rehashidx < r.main.size
        /\ r.rehashing.size # 0
        /\ \A b \in 0..r.rehashidx-1 : r.main.table[b] = {}
        /\ 2 * r.main.size <= r.rehashing.size
    BY <1>3, <1>7, <1>11 DEF DickOK, CursorOK, LoadOK, isRehashing
  <2>4. /\ TableOK(h, u) /\ KeysIn(u) = KeysIn(r.rehashing) \cup {k}
        /\ u.size = r.rehashing.size /\ u.used = r.rehashing.used + 1
        /\ Entries(u) = Entries(r.rehashing) \cup {new}
    BY <1>5, <1>7, <2>2, <2>3, InsertOK DEF new
  <2>5. a = [main |-> r.main, rehashing |-> u, rehashidx |-> r.rehashidx]
    <3>1. r = [main |-> r.main, rehashing |-> r.rehashing, rehashidx |-> r.rehashidx]
      BY <1>3 DEF DickOK
    <3>2. a = [r EXCEPT !.rehashing = u]
      BY <1>8, <1>11 DEF add, e, X, r
    <3> HIDE DEF u, a
    <3> QED
      BY <3>1, <3>2
  <2> HIDE DEF u, a
  <2>6. r.main.used + r.rehashing.used < r.main.size + r.rehashidx
    BY <1>4, <1>11 DEF Room
  <2>7. CursorOK(a) /\ LoadOK(a)
    <3>1. isRehashing(a)
      BY <1>11, <2>5 DEF isRehashing
    <3>2. CursorOK(a)
      BY <1>7, <2>3, <2>4, <2>5, <3>1 DEF CursorOK
    <3>3. a.main.used + a.rehashing.used <= a.main.size + a.rehashidx
      BY <1>7, <2>3, <2>4, <2>5, <2>6
    <3> QED
      BY <2>3, <2>4, <2>5, <3>1, <3>2, <3>3 DEF LoadOK
  <2>8. DickOK(h, a)
    <3>1. KeysIn(a.main) \cap KeysIn(a.rehashing) = {}
      BY <1>3, <1>5, <2>4, <2>5 DEF DickOK
    <3> QED
      BY <1>7, <2>3, <2>4, <2>5, <2>7, <3>1 DEF DickOK
  <2>9. AllEntries(a) = AllEntries(d) \cup {new}
    BY <1>1, <1>3, <2>4, <2>5 DEF AllEntries
  <2>10. Moved(e, a)
    BY <1>3, <1>11, <2>4, <2>5 DEF Moved, isRehashing
  <2> QED
    BY <1>1, <1>9, <2>8, <2>9, <2>10 DEF a, new
<1>12. CASE ~isRehashing(r)
  <2> DEFINE u == Insert(r.main, X, k, v)
  <2>1. X = Index(h, k, r.main)
    <3>1. CASE isRehashing(e)
      BY <1>3, <1>6, <1>12, <3>1 DEF Moved, Index
    <3>2. CASE ~isRehashing(e)
      BY <1>3, <1>6, <3>2
    <3> QED
      BY <3>1, <3>2
  <2>2. r.main.used < r.main.size
    BY <1>4, <1>12 DEF Room
  <2>3. /\ TableOK(h, u) /\ KeysIn(u) = KeysIn(r.main) \cup {k}
        /\ u.size = r.main.size /\ u.used = r.main.used + 1
        /\ Entries(u) = Entries(r.main) \cup {new}
    <3>1. r.main.size # 0
      BY <1>7, <2>2
    <3> QED
      BY <1>5, <1>7, <2>1, <3>1, InsertOK DEF new
  <2>4. a = [main |-> u, rehashing |-> r.rehashing, rehashidx |-> r.rehashidx]
    <3>1. r = [main |-> r.main, rehashing |-> r.rehashing, rehashidx |-> r.rehashidx]
      BY <1>3 DEF DickOK
    <3>2. a = [r EXCEPT !.main = u]
      BY <1>8, <1>12 DEF add, e, X, r
    <3> HIDE DEF u, a
    <3> QED
      BY <3>1, <3>2
  <2> HIDE DEF u, a
  <2>5. ~isRehashing(a) /\ a.rehashing = NewDickTable(0)
    BY <1>3, <1>12, <2>4 DEF isRehashing, DickOK, CursorOK
  <2>6. CursorOK(a)
    BY <2>5 DEF CursorOK
  <2>7. LoadOK(a)
    BY <1>7, <2>2, <2>3, <2>4, <2>5 DEF LoadOK
  <2>8. DickOK(h, a)
    <3>1. KeysIn(a.main) \cap KeysIn(a.rehashing) = {}
      BY <1>3, <1>5, <2>3, <2>4 DEF DickOK
    <3>2. a.rehashidx \in Nat \cup {-1}
      BY <1>3, <2>4 DEF DickOK
    <3> QED
      BY <1>7, <2>3, <2>4, <2>6, <2>7, <3>1, <3>2 DEF DickOK
  <2>9. AllEntries(a) = AllEntries(d) \cup {new}
    BY <1>1, <1>3, <2>3, <2>4 DEF AllEntries
  <2>10. isRehashing(d) => Moved(d, a)
    BY <1>1, <1>3, <1>12, <2>3, <2>4, <2>5 DEF Moved
  <2> QED
    BY <1>9, <2>8, <2>9, <2>10 DEF a, new
<1> QED
  BY <1>11, <1>12

\* A del that searches has a main table to search.
LEMMA MainAfterStep ==
    ASSUME NEW h \in Hash, NEW d, DickOK(h, d), ~BothEmpty(d)
    PROVE  rehashStep(h, d).main.size # 0
<1> DEFINE r == rehashStep(h, d)
<1>1. DickOK(h, r) /\ Moved(d, r) /\ (~isRehashing(d) => r = d)
  BY RehashStepOK
<1> HIDE DEF r
<1>2. CASE isRehashing(r)
  <2>1. r.rehashidx \in Nat /\ r.rehashidx < r.main.size
    BY <1>1, <1>2 DEF DickOK, CursorOK, isRehashing
  <2> QED
    BY <1>1, <2>1, Counters DEF r
<1>3. CASE ~isRehashing(r) /\ isRehashing(d)
  <2>1. d.rehashing.size > 0 /\ d.rehashing.size \in Nat
    BY <1>3, Counters DEF DickOK, CursorOK
  <2> QED
    BY <1>1, <1>3, <2>1 DEF Moved, r
<1>4. CASE ~isRehashing(d)
  <2>1. d.rehashing.used = 0
    BY <1>4, NewTableOK DEF DickOK, CursorOK
  <2>2. d.main.size = 0 => d.main.used = 0
    BY <1>4, Counters DEF DickOK, LoadOK
  <2> QED
    BY <1>1, <1>4, <2>1, <2>2 DEF BothEmpty, r
<1> QED
  BY <1>2, <1>3, <1>4

\* Deleting removes the entry of the key and nothing else, and reports a key
\* that is not there.
LEMMA DelOK ==
    ASSUME NEW h \in Hash, NEW d, DickOK(h, d), NEW k \in Key
    PROVE  LET x == del(h, k, d) IN
           /\ delFinds(h, k, d) <=> k \in AllKeys(d)
           /\ DickOK(h, x)
           /\ AllEntries(x) = {e \in AllEntries(d) : e.key # k}
           /\ isRehashing(d) => x = d \/ Moved(d, x)
           /\ BothEmpty(d) => x = d
           /\ isRehashing(d) /\ ~BothEmpty(d) => Moved(d, x)
<1> DEFINE r == rehashStep(h, d)
           x == del(h, k, d)
<1>1. /\ DickOK(h, r) /\ AllEntries(r) = AllEntries(d) /\ AllKeys(r) = AllKeys(d)
      /\ Moved(d, r) /\ (~isRehashing(d) => r = d)
  BY RehashStepOK
<1>2. CASE BothEmpty(d)
  <2>1. x = d /\ ~delFinds(h, k, d)
    BY <1>2 DEF del, delFinds
  <2>2. AllKeys(d) = {}
    BY <1>2, SearchOK
  <2>3. AllEntries(d) = {}
    BY <2>2, KeysOfEntries
  <2> QED
    BY <1>2, <2>1, <2>2, <2>3
<1>3. CASE ~BothEmpty(d)
  <2>1. r.main.size # 0
    BY <1>3, MainAfterStep
  <2>2. /\ Holds(r.main, Index(h, k, r.main), k) <=> k \in KeysIn(r.main)
        /\ InRehashing(h, k, r) <=> k \in KeysIn(r.rehashing)
    BY <1>1, <2>1, SearchOK DEF InMain
  <2>3. delFinds(h, k, d) <=> k \in AllKeys(d)
    BY <1>1, <1>3, <2>2 DEF delFinds, AllKeys
  <2>4. /\ TableOK(h, r.main) /\ TableOK(h, r.rehashing)
        /\ TableTypeOK(r.main) /\ TableTypeOK(r.rehashing)
        /\ r.main.used \in Nat /\ r.rehashing.used \in Nat
        /\ r.main.size \in Nat /\ r.rehashing.size \in Nat
        /\ KeysIn(r.main) \cap KeysIn(r.rehashing) = {}
        /\ r = [main |-> r.main, rehashing |-> r.rehashing, rehashidx |-> r.rehashidx]
        /\ r.rehashidx \in Nat \cup {-1}
        /\ CursorOK(r) /\ LoadOK(r)
    BY <1>1, Counters DEF DickOK, TableOK
  <2> HIDE DEF r
  <2>5. CASE k \in KeysIn(r.main)
    <3> DEFINE u == Remove(r.main, Index(h, k, r.main), k)
    <3>1. x = [main |-> u, rehashing |-> r.rehashing, rehashidx |-> r.rehashidx]
      <4>1. x = [r EXCEPT !.main = u]
        BY <1>3, <2>2, <2>5 DEF del, r
      <4> HIDE DEF u, x
      <4> QED
        BY <2>4, <4>1
    <3>2. /\ TableOK(h, u) /\ KeysIn(u) = KeysIn(r.main) \ {k}
          /\ u.size = r.main.size /\ u.used = r.main.used - 1
          /\ Entries(u) = {e \in Entries(r.main) : e.key # k}
          /\ \A c \in DOMAIN r.main.table : r.main.table[c] = {} => u.table[c] = {}
      BY <2>4, <2>5, RemoveOK
    <3>3. DOMAIN r.main.table = 0..r.main.size-1
      BY <2>4 DEF TableTypeOK
    <3> HIDE DEF u, x
    <3>4. CursorOK(x)
      <4>1. CASE isRehashing(r)
        <5>1. /\ r.rehashidx \in Nat /\ r.rehashidx < r.main.size
              /\ r.rehashing.size > 0
              /\ \A c \in 0..r.rehashidx-1 : r.main.table[c] = {}
          BY <2>4, <4>1 DEF CursorOK, isRehashing
        <5>2. \A c \in 0..r.rehashidx-1 : u.table[c] = {}
          BY <2>4, <3>2, <3>3, <5>1
        <5> QED
          BY <3>1, <3>2, <4>1, <5>1, <5>2 DEF CursorOK, isRehashing
      <4>2. CASE ~isRehashing(r)
        BY <2>4, <3>1, <4>2 DEF CursorOK, isRehashing
      <4> QED
        BY <4>1, <4>2
    <3>5. LoadOK(x)
      <4>1. u.used <= r.main.used /\ u.used \in Int
        BY <2>4, <3>2
      <4> QED
        BY <2>4, <3>1, <3>2, <4>1 DEF LoadOK, isRehashing
    <3>6. DickOK(h, x)
      BY <2>4, <3>1, <3>2, <3>4, <3>5 DEF DickOK
    <3>7. \A e \in Entries(r.rehashing) : e.key # k
      BY <2>4, <2>5 DEF KeysIn
    <3>8. AllEntries(x) = {e \in AllEntries(d) : e.key # k}
      BY <1>1, <3>1, <3>2, <3>7 DEF AllEntries
    <3>9. isRehashing(d) => Moved(d, x)
      BY <1>1, <3>1, <3>2 DEF Moved, isRehashing
    <3> QED
      BY <1>3, <2>3, <3>6, <3>8, <3>9 DEF x
  <2>6. CASE k \notin KeysIn(r.main) /\ k \in KeysIn(r.rehashing)
    <3> DEFINE u == Remove(r.rehashing, Index(h, k, r.rehashing), k)
    <3>0. isRehashing(r)
      BY <2>2, <2>6 DEF InRehashing
    <3>1. x = [main |-> r.main, rehashing |-> u, rehashidx |-> r.rehashidx]
      <4>1. x = [r EXCEPT !.rehashing = u]
        BY <1>3, <2>2, <2>6 DEF del, r
      <4> HIDE DEF u, x
      <4> QED
        BY <2>4, <4>1
    <3>2. /\ TableOK(h, u) /\ KeysIn(u) = KeysIn(r.rehashing) \ {k}
          /\ u.size = r.rehashing.size /\ u.used = r.rehashing.used - 1
          /\ Entries(u) = {e \in Entries(r.rehashing) : e.key # k}
      BY <2>4, <2>6, RemoveOK
    <3> HIDE DEF u, x
    <3>3. CursorOK(x)
      BY <2>4, <3>0, <3>1, <3>2 DEF CursorOK, isRehashing
    <3>4. LoadOK(x)
      <4>1. r.main.used + u.used <= r.main.used + r.rehashing.used
        BY <2>4, <3>2
      <4>2. r.main.used + u.used \in Int /\ r.rehashidx \in Int
        BY <2>4, <3>2
      <4> QED
        BY <2>4, <3>0, <3>1, <3>2, <4>1, <4>2 DEF LoadOK, isRehashing
    <3>5. DickOK(h, x)
      BY <2>4, <3>1, <3>2, <3>3, <3>4 DEF DickOK
    <3>6. \A e \in Entries(r.main) : e.key # k
      BY <2>6 DEF KeysIn
    <3>7. AllEntries(x) = {e \in AllEntries(d) : e.key # k}
      BY <1>1, <3>1, <3>2, <3>6 DEF AllEntries
    <3>8. isRehashing(d) => Moved(d, x)
      BY <1>1, <3>1, <3>2 DEF Moved, isRehashing
    <3> QED
      BY <1>3, <2>3, <3>5, <3>7, <3>8 DEF x
  <2>7. CASE k \notin KeysIn(r.main) /\ k \notin KeysIn(r.rehashing)
    <3>1. x = r
      BY <1>3, <2>2, <2>7 DEF del, r
    <3>2. \A e \in AllEntries(r) : e.key # k
      BY <2>7 DEF AllEntries, KeysIn
    <3> QED
      BY <1>1, <1>3, <2>3, <3>1, <3>2
  <2> QED
    BY <2>5, <2>6, <2>7
<1> QED
  BY <1>2, <1>3

----------------------------------------------------------------------------
(* Part 3: the map a sub-dictionary stands for *)

\* The value of a key is that of its only entry.
LEMMA ContentsValue ==
    ASSUME NEW h \in Hash, NEW d, DickOK(h, d), Absent \notin Value
    PROVE  /\ \A e \in AllEntries(d) : e \in Entry /\ Contents(d)[e.key] = e.value
           /\ \A k \in Key : k \notin AllKeys(d) => Contents(d)[k] = Absent
           /\ \A k \in Key : k \in AllKeys(d) => Contents(d)[k] # Absent
           /\ DOMAIN Contents(d) = Key
           /\ Contents(d) = [k \in Key |-> Contents(d)[k]]
<1>1. /\ OneEntryPerKey(d.main) /\ OneEntryPerKey(d.rehashing)
      /\ KeysIn(d.main) \cap KeysIn(d.rehashing) = {}
      /\ TableTypeOK(d.main) /\ TableTypeOK(d.rehashing)
  BY DEF DickOK, TableOK
<1>2. \A e, f \in AllEntries(d) : e.key = f.key => e = f
  BY <1>1 DEF AllEntries, OneEntryPerKey, KeysIn
<1>3. \A e \in AllEntries(d) : e \in Entry
  <2>1. \A b \in DOMAIN d.main.table : d.main.table[b] \subseteq Entry
    BY <1>1 DEF TableTypeOK
  <2>2. \A b \in DOMAIN d.rehashing.table : d.rehashing.table[b] \subseteq Entry
    BY <1>1 DEF TableTypeOK
  <2> QED
    BY <2>1, <2>2 DEF AllEntries, Entries
<1>4. \A k : Stored(d, k) = {e \in AllEntries(d) : e.key = k}
  BY DEF Stored, AllEntries
<1>5. \A e \in AllEntries(d) : Contents(d)[e.key] = e.value
  <2> SUFFICES ASSUME NEW e \in AllEntries(d) PROVE Contents(d)[e.key] = e.value
    OBVIOUS
  <2>1. Stored(d, e.key) = {e}
    BY <1>2, <1>4
  <2>2. e.key \in Key
    BY <1>3 DEF Entry
  <2> QED
    BY <2>1, <2>2 DEF Contents
<1>6. \A k \in Key : k \notin AllKeys(d) => Contents(d)[k] = Absent
  <2> SUFFICES ASSUME NEW k \in Key, k \notin AllKeys(d)
               PROVE  Contents(d)[k] = Absent
    OBVIOUS
  <2>1. Stored(d, k) = {}
    BY <1>4, KeysOfEntries
  <2> QED
    BY <2>1 DEF Contents
<1>7. \A k \in Key : k \in AllKeys(d) => Contents(d)[k] # Absent
  <2> SUFFICES ASSUME NEW k \in Key, k \in AllKeys(d)
               PROVE  Contents(d)[k] # Absent
    OBVIOUS
  <2>1. PICK e \in AllEntries(d) : e.key = k
    BY KeysOfEntries
  <2> QED
    BY <2>1, <1>3, <1>5 DEF Entry
<1>8. DOMAIN Contents(d) = Key /\ Contents(d) = [k \in Key |-> Contents(d)[k]]
  BY DEF Contents
<1> QED
  BY <1>3, <1>5, <1>6, <1>7, <1>8

\* Replacing or adding one entry changes the value of one key.
LEMMA ContentsPut ==
    ASSUME NEW h \in Hash, NEW d, DickOK(h, d), NEW x, DickOK(h, x),
           Absent \notin Value,
           NEW k \in Key, NEW v \in Value,
           AllEntries(x) = {e \in AllEntries(d) : e.key # k}
                              \cup {[key |-> k, value |-> v]}
    PROVE  Contents(x) = [Contents(d) EXCEPT ![k] = v]
<1> SUFFICES ASSUME NEW j \in Key
             PROVE  Contents(x)[j] = IF j = k THEN v ELSE Contents(d)[j]
  BY ContentsValue
<1>1. CASE j = k
  <2> DEFINE new == [key |-> k, value |-> v]
  <2>1. new \in AllEntries(x) /\ new.key = k /\ new.value = v
    OBVIOUS
  <2> HIDE DEF new
  <2>2. Contents(x)[new.key] = new.value
    BY <2>1, ContentsValue
  <2> QED
    BY <1>1, <2>1, <2>2
<1>2. CASE j # k /\ j \in AllKeys(d)
  <2>1. PICK e \in AllEntries(d) : e.key = j
    BY <1>2, KeysOfEntries
  <2>2. e \in AllEntries(x)
    BY <1>2, <2>1
  <2>3. Contents(x)[j] = e.value
    BY <2>1, <2>2, ContentsValue
  <2>4. Contents(d)[j] = e.value
    BY <2>1, ContentsValue
  <2> QED
    BY <1>2, <2>3, <2>4
<1>3. CASE j # k /\ j \notin AllKeys(d)
  <2>1. \A e \in AllEntries(x) : e.key # j
    BY <1>3, KeysOfEntries
  <2>2. j \notin AllKeys(x)
    BY <2>1, KeysOfEntries
  <2> QED
    BY <1>3, <2>2, ContentsValue
<1> QED
  BY <1>1, <1>2, <1>3

\* Removing the entry of a key makes the key absent.
LEMMA ContentsRemove ==
    ASSUME NEW h \in Hash, NEW d, DickOK(h, d), NEW x, DickOK(h, x),
           Absent \notin Value,
           NEW k \in Key,
           AllEntries(x) = {e \in AllEntries(d) : e.key # k}
    PROVE  Contents(x) = [Contents(d) EXCEPT ![k] = Absent]
<1> SUFFICES ASSUME NEW j \in Key
             PROVE  Contents(x)[j] = IF j = k THEN Absent ELSE Contents(d)[j]
  BY ContentsValue
<1>1. CASE j # k /\ j \in AllKeys(d)
  <2>1. PICK e \in AllEntries(d) : e.key = j
    BY <1>1, KeysOfEntries
  <2>2. e \in AllEntries(x)
    BY <1>1, <2>1
  <2>3. Contents(x)[j] = e.value
    BY <2>1, <2>2, ContentsValue
  <2>4. Contents(d)[j] = e.value
    BY <2>1, ContentsValue
  <2> QED
    BY <1>1, <2>3, <2>4
<1>2. CASE j = k \/ j \notin AllKeys(d)
  <2>1. \A e \in AllEntries(x) : e.key # j
    BY <1>2, KeysOfEntries
  <2>2. j \notin AllKeys(x)
    BY <2>1, KeysOfEntries
  <2> QED
    BY <1>2, <2>2, ContentsValue
<1> QED
  BY <1>1, <1>2

\* What Get, Set and Del do to the map a sub-dictionary stands for.
LEMMA GetContents ==
    ASSUME NEW h \in Hash, NEW d, DickOK(h, d), Absent \notin Value, NEW k \in Key
    PROVE  IF Finds(h, k, d)
           THEN Contents(d)[k] # Absent /\ Contents(d)[k] = get(h, k, d)
           ELSE Contents(d)[k] = Absent
<1>1. CASE Finds(h, k, d)
  <2>1. PICK e \in AllEntries(d) : e.key = k /\ e.value = get(h, k, d)
    BY <1>1, GetOK
  <2> QED
    BY <1>1, <2>1, SearchOK, ContentsValue
<1>2. CASE ~Finds(h, k, d)
  BY <1>2, SearchOK, ContentsValue
<1> QED
  BY <1>1, <1>2

LEMMA SetContents ==
    ASSUME NEW h \in Hash, NEW d, DickOK(h, d), Absent \notin Value,
           NEW k \in Key, NEW v \in Value
    PROVE  /\ Finds(h, k, d) =>
                 Contents(overwrite(h, k, v, d)) = [Contents(d) EXCEPT ![k] = v]
           /\ ~Finds(h, k, d) =>
                 Contents(add(h, k, v, d)) = [Contents(d) EXCEPT ![k] = v]
<1>1. CASE Finds(h, k, d)
  BY <1>1, OverwriteOK, ContentsPut
<1>2. CASE ~Finds(h, k, d)
  <2> DEFINE a == add(h, k, v, d)
  <2>1. DickOK(h, a) /\ AllEntries(a) = AllEntries(d) \cup {[key |-> k, value |-> v]}
    BY <1>2, AddOK
  <2>2. k \notin AllKeys(d)
    BY <1>2, SearchOK
  <2>3. AllEntries(d) = {e \in AllEntries(d) : e.key # k}
    BY <2>2, KeysOfEntries
  <2> HIDE DEF a
  <2>4. Contents(a) = [Contents(d) EXCEPT ![k] = v]
    BY <2>1, <2>3, ContentsPut
  <2> QED
    BY <1>2, <2>4 DEF a
<1> QED
  BY <1>1, <1>2

LEMMA DelContents ==
    ASSUME NEW h \in Hash, NEW d, DickOK(h, d), Absent \notin Value, NEW k \in Key
    PROVE  /\ Contents(del(h, k, d)) = [Contents(d) EXCEPT ![k] = Absent]
           /\ delFinds(h, k, d) <=> Contents(d)[k] # Absent
<1>1. Contents(del(h, k, d)) = [Contents(d) EXCEPT ![k] = Absent]
  BY DelOK, ContentsRemove
<1>2. delFinds(h, k, d) <=> Contents(d)[k] # Absent
  BY DelOK, ContentsValue
<1> QED
  BY <1>1, <1>2
=============================================================================

--------------------------- MODULE SubDickProofs ---------------------------
(***************************************************************************)
(* Theorems about a sub-dictionary, for every set of keys and values, hash *)
(* function, initial size and skipping limit.                              *)
(*                                                                         *)
(* IInv is the conjunction of SubDick's invariants.  None of them is       *)
(* inductive alone: the index of an add is in range because the cursor is, *)
(* the cursor is because used counts the entries ahead of it exactly, used *)
(* is exact because no key occurs twice, no key occurs twice because every *)
(* entry is at home where the search before the add would have met it.     *)
(*                                                                         *)
(* A rehash ends because each add leaves fewer buckets ahead of the cursor *)
(* and the largest table has 2^62.                                         *)
(***************************************************************************)
EXTENDS SubDick, DickOpsProofs

IInv == hasher \in Hash /\ DickOK(hasher, dick)

LEMMA InitInv == Init => IInv
<1> SUFFICES ASSUME Init PROVE IInv
  OBVIOUS
<1>1. hasher \in Hash /\ dick = NewSubDICK
  BY HashersAssumption DEF Init, Hash
<1> QED
  BY <1>1, NewDickOK DEF IInv

LEMMA StepInv == IInv /\ [Next]_vars => IInv'
<1> SUFFICES ASSUME IInv, [Next]_vars PROVE IInv'
  OBVIOUS
<1> USE DEF IInv
<1>1. ASSUME NEW k \in Key, Get(k) PROVE IInv'
  BY <1>1 DEF Get
<1>2. ASSUME NEW k \in Key, Del(k) PROVE IInv'
  BY <1>2, DelOK DEF Del
<1>3. ASSUME NEW k \in Key, NEW v \in Value, Overwrite(k, v) PROVE IInv'
  BY <1>3, OverwriteOK DEF Overwrite
<1>4. ASSUME NEW k \in Key, NEW v \in Value, Add(k, v) PROVE IInv'
  BY <1>4, AddOK DEF Add
<1>5. CASE UNCHANGED vars
  BY <1>5 DEF vars
<1> QED
  BY <1>1, <1>2, <1>3, <1>4, <1>5 DEF Next, Set

LEMMA InvImplies ==
    IInv => /\ TypeOK /\ EntriesAtHome /\ UniqueKeys
            /\ UsedIsExact /\ CursorInRange /\ LoadFactor
BY DEF IInv, DickOK, TableOK, Hash, TypeOK, DickTypeOK, EntriesAtHome,
       UniqueKeys, UsedIsExact, CursorInRange, LoadFactor

\* IInv holds in every state the calls can reach.
THEOREM Invariance == Spec => []IInv
<1>1. Init => IInv
  BY InitInv
<1>2. IInv /\ [Next]_vars => IInv'
  BY StepInv
<1> QED
  BY <1>1, <1>2, PTL DEF Spec

\* Every table index and size is of its type, in every reachable state.
THEOREM TypeCorrect == Spec => []TypeOK
BY Invariance, InvImplies, PTL

\* The safety invariants of the hash table: every entry can be found, no key
\* has two, the counters are exact, the cursor never leaves the main table and
\* no table holds more entries than buckets.
THEOREM HashTableSafe ==
    Spec => [](HashTableOK /\ LoadFactor)
<1>1. IInv => HashTableOK /\ LoadFactor
  BY InvImplies DEF HashTableOK
<1> QED
  BY <1>1, Invariance, PTL

\* Its parts: a search looks where every entry is (keyIndex, get, del),
THEOREM EntriesReachable == Spec => []EntriesAtHome
<1>1. IInv => EntriesAtHome BY InvImplies
<1> QED BY <1>1, Invariance, PTL

\* no key is stored twice, not even in the two tables of a rehash (rehash, add),
THEOREM KeysUnique == Spec => []UniqueKeys
<1>1. IInv => UniqueKeys BY InvImplies
<1> QED BY <1>1, Invariance, PTL

\* the counter used of a table is the number of its entries (add, del, rehash),
THEOREM UsedCounts == Spec => []UsedIsExact
<1>1. IInv => UsedIsExact BY InvImplies
<1> QED BY <1>1, Invariance, PTL

\* no table overflows before its rehash ends (expandIfNeeded, expand, rehash),
THEOREM TablesHaveRoom == Spec => []LoadFactor
<1>1. IInv => LoadFactor BY InvImplies
<1> QED BY <1>1, Invariance, PTL

\* and the loop of rehash that skips empty buckets stays inside the table.
THEOREM CursorStays == Spec => []CursorInRange
<1>1. IInv => CursorInRange BY InvImplies
<1> QED BY <1>1, Invariance, PTL

----------------------------------------------------------------------------
(* The rehash advances *)

LEMMA MovedAdvances ==
    ASSUME NEW d, NEW r, isRehashing(d), Moved(d, r), d.rehashidx \in Nat
    PROVE  \/ /\ r.rehashidx \in d.rehashidx .. d.rehashidx + EMPTY_VISITS
              /\ r.rehashing.size = d.rehashing.size
              /\ r.main.size = d.main.size
              /\ r.rehashidx > d.rehashidx
           \/ /\ ~isRehashing(r)
              /\ r.main.size = d.rehashing.size
BY SizesAreNaturals DEF Moved

LEMMA StepAdvances == IInv /\ Next => RehashStepAdvances
<1> SUFFICES ASSUME IInv, Next, isRehashing(dick) PROVE RehashStepAdvances
  BY DEF RehashStepAdvances
<1>0. dick.rehashidx \in Nat
  BY DEF IInv, DickOK, isRehashing
<1>a. ASSUME dick'.rehashidx = dick.rehashidx,
             dick'.main.size = dick.main.size,
             dick'.rehashing.size = dick.rehashing.size,
             AllKeys(dick') = AllKeys(dick)
      PROVE  RehashStepAdvances
  BY <1>0, <1>a, SizesAreNaturals DEF RehashStepAdvances, AllKeys
<1>b. ASSUME Moved(dick, dick') PROVE RehashStepAdvances
  BY <1>0, <1>b, MovedAdvances DEF RehashStepAdvances
<1>1. ASSUME NEW k \in Key, Get(k) PROVE RehashStepAdvances
  BY <1>1, <1>a DEF Get
<1>2. ASSUME NEW k \in Key, Del(k) PROVE RehashStepAdvances
  <2>1. dick' = dick \/ Moved(dick, dick')
    BY <1>2, DelOK DEF Del, IInv
  <2> QED
    BY <2>1, <1>a, <1>b
<1>3. ASSUME NEW k \in Key, NEW v \in Value, Overwrite(k, v)
      PROVE  RehashStepAdvances
  <2>1. /\ AllKeys(dick') = AllKeys(dick)
        /\ dick'.rehashidx = dick.rehashidx
        /\ dick'.main.size = dick.main.size
        /\ dick'.rehashing.size = dick.rehashing.size
    BY <1>3, OverwriteOK DEF Overwrite, IInv
  <2> QED
    BY <2>1, <1>a
<1>4. ASSUME NEW k \in Key, NEW v \in Value, Add(k, v)
      PROVE  RehashStepAdvances
  <2>1. Moved(dick, dick')
    BY <1>4, AddOK DEF Add, IInv
  <2> QED
    BY <2>1, <1>b
<1> QED
  BY <1>1, <1>2, <1>3, <1>4 DEF Next, Set

\* Every call that changes the set of keys during a rehash moves the cursor, or
\* ends the rehash.
THEOREM RehashProgress == Spec => RehashAdvances
<1>1. IInv /\ [Next]_vars => [RehashStepAdvances]_vars
  BY StepAdvances
<1> QED
  BY <1>1, Invariance, PTL DEF Spec, RehashAdvances

----------------------------------------------------------------------------
(* A rehash ends if entries keep being added.                              *)
(*                                                                         *)
(* Each add takes the cursor at least one bucket on (AddShrinks), and what *)
(* brings it k buckets on brings it 2 * k (Doubled).  A table has no more  *)
(* than 2^62 buckets (WordAssumption), so 62 doublings bring every rehash  *)
(* to its end: an induction on the number of buckets would need a set of   *)
(* temporal formulas.                                                      *)

AddCalls == \E k \in Key, v \in Value : Add(k, v)

\* No more than n buckets are left to rehash.
ToMove(n) == isRehashing(dick) => dick.main.size - dick.rehashidx <= n

Shrinks(n, m) == Spec /\ []<><<AddCalls>>_vars => [](ToMove(n) => <>ToMove(m))

LEMMA AddShrinks == ASSUME NEW n \in Int PROVE Shrinks(n, n - 1)
<1>1. /\ IInv /\ ToMove(n) /\ ~ToMove(n - 1) /\ [Next]_vars => ToMove(n)'
      /\ IInv /\ ToMove(n) /\ ~ToMove(n - 1) /\ <<AddCalls>>_vars => ToMove(n - 1)'
  <2> SUFFICES ASSUME IInv, [Next]_vars, isRehashing(dick), ToMove(n), isRehashing(dick')
               PROVE  ToMove(n)' /\ (AddCalls => ToMove(n - 1)')
    BY DEF ToMove, Next, Set, AddCalls
  <2>1. hasher \in Hash /\ DickOK(hasher, dick)
    BY DEF IInv
  <2>2. /\ dick.rehashidx \in Nat /\ dick.main.size \in Nat
        /\ dick.main.size - dick.rehashidx <= n
    BY <2>1, Counters DEF DickOK, isRehashing, ToMove
  <2>3. /\ dick'.main.size = dick.main.size
        /\ dick'.rehashidx \in dick.rehashidx .. dick.rehashidx + EMPTY_VISITS
    <3>1. CASE Next
      BY <3>1, StepAdvances DEF RehashStepAdvances
    <3>2. CASE UNCHANGED vars
      BY <2>2, <3>2, SizesAreNaturals DEF vars
    <3> QED
      BY <3>1, <3>2
  <2>4. ASSUME AddCalls PROVE dick'.rehashidx > dick.rehashidx
    <3>1. PICK k \in Key, v \in Value : Add(k, v)
      BY <2>4 DEF AddCalls
    <3>2. Moved(dick, dick')
      BY <2>1, <3>1, AddOK DEF Add
    <3> QED
      BY <2>2, <3>2, SizesAreNaturals DEF Moved
  <2> QED
    BY <2>2, <2>3, <2>4, SizesAreNaturals DEF ToMove
<1> QED
  BY <1>1, Invariance, PTL DEF Spec, Shrinks

LEMMA Doubled ==
    ASSUME NEW k \in Int, \A n \in Int : Shrinks(n, n - k)
    PROVE  \A n \in Int : Shrinks(n, n - 2 * k)
<1> SUFFICES ASSUME NEW n \in Int PROVE Shrinks(n, n - 2 * k)
  OBVIOUS
<1> DEFINE m == n - k
<1>1. Shrinks(n, m)
  OBVIOUS
<1>2. m \in Int /\ m - k = n - 2 * k
  OBVIOUS
<1>3. Shrinks(m, n - 2 * k)
  BY <1>2
<1> HIDE DEF m
<1> QED
  BY <1>1, <1>3, PTL DEF Shrinks

\* 2^e buckets, or as many as a table may have.
Buckets(e) == Pow2[IF e <= MaxExponent THEN e ELSE MaxExponent]

AllShrink(e) == \A n \in Int : Shrinks(n, n - Buckets(e))

LEMMA AllShrinkMore ==
    ASSUME NEW e \in Nat, AllShrink(e)
    PROVE  AllShrink(e + 1) /\ AllShrink(e + 2) /\ AllShrink(e + 3) /\ AllShrink(e + 4)
<1>1. ASSUME NEW f \in Nat, AllShrink(f) PROVE AllShrink(f + 1)
  <2>1. CASE f < MaxExponent
    <3>1. Buckets(f) = Pow2[f] /\ Buckets(f + 1) = Pow2[f + 1]
      BY <2>1, Exponents DEF Buckets
    <3>2. Pow2[f] \in Int /\ Pow2[f + 1] = 2 * Pow2[f]
      BY <2>1, Pow2Is, Pow2OK, Exponents
    <3>3. \A n \in Int : Shrinks(n, n - Pow2[f])
      BY <1>1, <3>1 DEF AllShrink
    <3>4. \A n \in Int : Shrinks(n, n - 2 * Pow2[f])
      BY <3>2, <3>3, Doubled
    <3> QED
      BY <3>1, <3>2, <3>4 DEF AllShrink
  <2>2. CASE f >= MaxExponent
    <3>1. Buckets(f + 1) = Buckets(f)
      BY <2>2, Exponents DEF Buckets
    <3> QED
      BY <1>1, <3>1 DEF AllShrink
  <2> QED
    BY <2>1, <2>2, Exponents
<1>2. AllShrink(e + 1)
  BY <1>1
<1>3. AllShrink(e + 2)
  BY <1>1, <1>2, e + 1 \in Nat, (e + 1) + 1 = e + 2
<1>4. AllShrink(e + 3)
  BY <1>1, <1>3, e + 2 \in Nat, (e + 2) + 1 = e + 3
<1>5. AllShrink(e + 4)
  BY <1>1, <1>4, e + 3 \in Nat, (e + 3) + 1 = e + 4
<1> QED
  BY <1>2, <1>3, <1>4, <1>5

LEMMA WholeTableShrinks == Shrinks(Pow2[MaxExponent], 0)
<1>1. AllShrink(0)
  <2>1. Buckets(0) = 1
    BY Pow2Is, Exponents DEF Buckets
  <2> QED
    BY <2>1, AddShrinks DEF AllShrink
<1>2. ASSUME NEW e \in Nat, AllShrink(e) PROVE AllShrink(e + 16)
  <2>1. AllShrink(e + 4)
    BY <1>2, AllShrinkMore
  <2>2. AllShrink(e + 8)
    BY <2>1, AllShrinkMore, e + 4 \in Nat, (e + 4) + 4 = e + 8
  <2>3. AllShrink(e + 12)
    BY <2>2, AllShrinkMore, e + 8 \in Nat, (e + 8) + 4 = e + 12
  <2> QED
    BY <2>3, AllShrinkMore, e + 12 \in Nat, (e + 12) + 4 = e + 16
<1>3. AllShrink(0 + 16)
  BY <1>1, <1>2
<1>4. AllShrink(16 + 16)
  BY <1>2, <1>3
<1>5. AllShrink(32 + 16)
  BY <1>2, <1>4
<1>6. AllShrink(48 + 16)
  BY <1>2, <1>5
<1>7. Buckets(64) = Pow2[MaxExponent] /\ Pow2[MaxExponent] \in Int
  BY Pow2OK, Exponents DEF Buckets
<1>8. Shrinks(Pow2[MaxExponent], Pow2[MaxExponent] - Pow2[MaxExponent])
  BY <1>6, <1>7 DEF AllShrink
<1> QED
  BY <1>7, <1>8, Pow2[MaxExponent] - Pow2[MaxExponent] = 0

\* A rehash that add goes on with comes to its end, however reads, overwrites,
\* misses and deletions interleave, whatever the tables hold (rehashStep).
THEOREM RehashesEnd == Spec => RehashEnds
<1>1. IInv => ToMove(Pow2[MaxExponent])
  <2> SUFFICES ASSUME IInv, isRehashing(dick)
               PROVE  dick.main.size - dick.rehashidx <= Pow2[MaxExponent]
    BY DEF ToMove
  <2>1. dick.rehashidx \in Nat /\ dick.main.size \in {0} \cup PowersOfTwo
    BY DEF IInv, DickOK, TableOK, TableTypeOK, isRehashing
  <2>2. /\ \A p \in {0} \cup PowersOfTwo : p \in Nat /\ p <= Pow2[MaxExponent]
        /\ Pow2[MaxExponent] \in Nat
    BY Pow2Grows, Pow2OK, Exponents DEF PowersOfTwo
  <2>3. dick.main.size \in Nat /\ dick.main.size <= Pow2[MaxExponent]
    BY <2>1, <2>2
  <2> QED
    BY <2>1, <2>2, <2>3
<1>2. IInv /\ ToMove(0) => ~isRehashing(dick)
  <2> SUFFICES ASSUME IInv, isRehashing(dick)
               PROVE  ~(dick.main.size - dick.rehashidx <= 0)
    BY DEF ToMove
  <2>1. hasher \in Hash /\ DickOK(hasher, dick)
    BY DEF IInv
  <2>2. dick.rehashidx \in Nat /\ dick.main.size \in Nat
    BY <2>1, Counters DEF DickOK, isRehashing
  <2>3. dick.rehashidx < dick.main.size
    BY <2>1 DEF DickOK, CursorOK
  <2> QED
    BY <2>2, <2>3
<1> QED
  BY <1>1, <1>2, Invariance, WholeTableShrinks, PTL DEF Shrinks, RehashEnds, AddCalls

----------------------------------------------------------------------------
(* The sub-dictionary implements the map *)

LEMMA InitRefines == Init => Store!KVInit
<1> SUFFICES ASSUME Init PROVE Store!KVInit
  OBVIOUS
<1>1. hasher \in Hash /\ DickOK(hasher, dick)
  BY InitInv DEF IInv
<1>2. AllKeys(dick) = {}
  BY NewTableOK, <1>1 DEF Init, NewSubDICK, AllKeys
<1>3. Contents(dick) = [k \in Key |-> Absent]
  BY <1>1, <1>2, ContentsValue, AbsentAssumption
<1> QED
  BY <1>3 DEF Store!KVInit, Store!NoReply, Init, NoReply

LEMMA StepRefines == IInv /\ [Next]_vars => [Store!KVNext]_(Store!kvVars)
<1> SUFFICES ASSUME IInv, [Next]_vars PROVE [Store!KVNext]_(Store!kvVars)
  OBVIOUS
<1>0. hasher \in Hash /\ DickOK(hasher, dick)
  BY DEF IInv
<1>1. ASSUME NEW k \in Key, Get(k) PROVE Store!KVGet(k)
  <2>1. UNCHANGED Contents(dick)
    BY <1>1 DEF Get
  <2> QED
    BY <1>0, <1>1, <2>1, GetContents, AbsentAssumption DEF Get, Store!KVGet
<1>2. ASSUME NEW k \in Key, Del(k) PROVE Store!KVDel(k)
  BY <1>0, <1>2, DelContents, AbsentAssumption DEF Del, Store!KVDel
<1>3. ASSUME NEW k \in Key, NEW v \in Value, Overwrite(k, v)
      PROVE  Store!KVSet(k, v)
  BY <1>0, <1>3, SetContents, AbsentAssumption DEF Overwrite, Store!KVSet
<1>4. ASSUME NEW k \in Key, NEW v \in Value, Add(k, v) PROVE Store!KVSet(k, v)
  <2>1. ~addFails(hasher, k, dick)
    BY <1>0, <1>4, AddOK DEF Add
  <2> QED
    BY <1>0, <1>4, <2>1, SetContents, AbsentAssumption DEF Add, Store!KVSet
<1>5. CASE UNCHANGED vars
  BY <1>5 DEF vars, Store!kvVars
<1> QED
  BY <1>1, <1>2, <1>3, <1>4, <1>5 DEF Next, Set, Store!KVNext

\* Get, Set and Del on a sub-dictionary are those of one map, through every
\* expansion and every partial move.
THEOREM Refinement == Spec => ImplementsKVStore
<1>1. Init => Store!KVInit
  BY InitRefines
<1>2. IInv /\ [Next]_vars => [Store!KVNext]_(Store!kvVars)
  BY StepRefines
<1> QED
  BY <1>1, <1>2, Invariance, PTL DEF Spec, ImplementsKVStore, Store!KVSpec
=============================================================================

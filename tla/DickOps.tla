------------------------------ MODULE DickOps ------------------------------
(***************************************************************************)
(* The functions of src/database/dick.go on ONE sub-dictionary, as         *)
(* operators from a sub-dictionary to the next one.  All of them run under *)
(* that sub-dictionary's submux, so SubDick composes them into one action  *)
(* per operation; XDick adds the lock and the goroutines.                  *)
(*                                                                         *)
(* A chain of DickEntry is the set of its entries.  Its order matters to   *)
(* nothing but speed: a chain is searched by key to its end.               *)
(*                                                                         *)
(* h is the hash of each key (hasher): one function for the life of the    *)
(* process, whatever the salt or the algorithm.                            *)
(***************************************************************************)
EXTENDS NextPower, FiniteSets

CONSTANTS Key, Value,
          EMPTY_VISITS,   \* empty buckets one rehash step may skip, 10 in the code
          Absent          \* marks, in Contents, a key without an entry

\* No store holds 2^61 entries: the largest table holds twice as many as there
\* are keys, which is what a doubling can ask for.
ASSUME SizesAssumption ==
    /\ IsFiniteSet(Key) /\ 2 * Cardinality(Key) <= Pow2[MaxExponent]
    /\ EMPTY_VISITS \in Nat \ {0}

Entry == [key : Key, value : Value]

NewDickTable(n) == [size  |-> n,
                    used  |-> 0,
                    table |-> [b \in 0..n-1 |-> {}]]

NewSubDICK == [main      |-> NewDickTable(0),   \* hashTables[0]
               rehashing |-> NewDickTable(0),   \* hashTables[1]
               rehashidx |-> -1]

isRehashing(d) == d.rehashidx # -1

\* hash & sizemask: the remainder, since a size is 0 (mask 0) or a power of two.
Index(h, k, t) == IF t.size = 0 THEN 0 ELSE h[k] % t.size

Holds(t, b, k) == \E e \in t.table[b] : e.key = k

----------------------------------------------------------------------------
(* Growing *)

expand(d, newSize) ==
    LET nextSize == nextPower(newSize) IN
    IF isRehashing(d) \/ d.main.used > newSize \/ d.main.used >= nextSize THEN d
    ELSE IF d.main.size = 0 THEN [d EXCEPT !.main = NewDickTable(nextSize)]
    ELSE [d EXCEPT !.rehashing = NewDickTable(nextSize), !.rehashidx = 0]

expandIfNeeded(d) ==
    IF isRehashing(d) THEN d
    ELSE IF d.main.size = 0 THEN expand(d, INITIAL_SIZE)
    ELSE IF d.main.used >= d.main.size THEN expand(d, 2 * d.main.used)
    ELSE d

----------------------------------------------------------------------------
(* Moving entries from the main table to the rehashing table *)

\* The buckets a step may reach before emptyVisits runs out, and hold entries.
Reachable(d) ==
    {b \in d.rehashidx .. d.rehashidx + EMPTY_VISITS - 1 :
        b \in DOMAIN d.main.table /\ d.main.table[b] # {}}

\* Mutant: the entries are moved to their index in the old table.
MoveBucketOldMask(h, d, b) ==
    LET moved == d.main.table[b] IN
    [main |-> [size |-> d.main.size, used |-> d.main.used - Cardinality(moved),
               table |-> [d.main.table EXCEPT ![b] = {}]],
     rehashing |-> [d.rehashing EXCEPT !.used = @ + Cardinality(moved),
                        !.table[b] = d.rehashing.table[b] \cup moved],
     rehashidx |-> b + 1]

\* The whole chain of bucket b moves, each entry to its index in the new table.
MoveBucket(h, d, b) ==
    LET moved == d.main.table[b]
        new   == d.rehashing
    IN  [main |-> [size  |-> d.main.size,
                   used  |-> d.main.used - Cardinality(moved),
                   table |-> [d.main.table EXCEPT ![b] = {}]],
         rehashing |-> [size  |-> new.size,
                        used  |-> new.used + Cardinality(moved),
                        table |-> [c \in DOMAIN new.table |->
                                      new.table[c] \cup
                                      {e \in moved : Index(h, e.key, new) = c}]],
         rehashidx |-> b + 1]

\* An emptied main table is replaced by the rehashing table.
Finish(d) == IF d.main.used # 0 THEN d
             ELSE [main      |-> d.rehashing,
                   rehashing |-> NewDickTable(0),
                   rehashidx |-> -1]

FirstReachable(d) == CHOOSE b \in Reachable(d) : \A c \in Reachable(d) : b <= c

\* Mutant: a main table that del emptied is not replaced.
rehashStepNeverFinishes(h, d) ==
    IF ~isRehashing(d) \/ d.main.used = 0 THEN d
    ELSE IF Reachable(d) = {} THEN [d EXCEPT !.rehashidx = @ + EMPTY_VISITS]
    ELSE Finish(MoveBucket(h, d, FirstReachable(d)))

rehashStep(h, d) ==
    IF ~isRehashing(d) THEN d
    ELSE IF d.main.used = 0 THEN Finish(d)
    ELSE IF Reachable(d) = {}
         THEN [d EXCEPT !.rehashidx = @ + EMPTY_VISITS]
    ELSE Finish(MoveBucket(h, d, FirstReachable(d)))

----------------------------------------------------------------------------
(* Adding *)

\* -1 when the key is there, else its index in the last table searched.
keyIndex(h, k, d) ==
    IF Holds(d.main, Index(h, k, d.main), k) THEN -1
    ELSE IF ~isRehashing(d) THEN Index(h, k, d.main)
    ELSE IF Holds(d.rehashing, Index(h, k, d.rehashing), k) THEN -1
    ELSE Index(h, k, d.rehashing)

Insert(t, b, k, v) ==
    IF Holds(t, b, k) THEN t
    ELSE [t EXCEPT !.table[b] = @ \cup {[key |-> k, value |-> v]},
                   !.used = @ + 1]

\* Mutant: an add does not take its rehash step.
addWithoutStep(h, k, v, d) ==
    LET e == expandIfNeeded(d)
        X == keyIndex(h, k, e)
    IN  IF X = -1 THEN e
        ELSE IF isRehashing(e) THEN [e EXCEPT !.rehashing = Insert(@, X, k, v)]
        ELSE [e EXCEPT !.main = Insert(@, X, k, v)]

\* keyIndex is taken before the rehash step, which may swap the tables.
add(h, k, v, d) ==
    LET e == expandIfNeeded(d)
        X == keyIndex(h, k, e)
        r == rehashStep(h, e)
    IN  IF X = -1 THEN e
        ELSE IF isRehashing(r) THEN [r EXCEPT !.rehashing = Insert(@, X, k, v)]
        ELSE [r EXCEPT !.main = Insert(@, X, k, v)]

addFails(h, k, d) == keyIndex(h, k, expandIfNeeded(d)) = -1

----------------------------------------------------------------------------
(* Searching, overwriting, deleting *)

\* Mutant: only the main table is asked.
MainEmpty(d) == d.main.used = 0

BothEmpty(d) == d.main.used = 0 /\ d.rehashing.used = 0

InMain(h, k, d) == d.main.size # 0 /\ Holds(d.main, Index(h, k, d.main), k)

InRehashing(h, k, d) ==
    /\ isRehashing(d) /\ d.rehashing.size # 0
    /\ Holds(d.rehashing, Index(h, k, d.rehashing), k)

\* Whether get returns an entry.
Finds(h, k, d) == ~BothEmpty(d) /\ (InMain(h, k, d) \/ InRehashing(h, k, d))

ValueIn(t, b, k) == (CHOOSE e \in t.table[b] : e.key = k).value

\* The value of the entry get returns: the main table is searched first.
get(h, k, d) == IF InMain(h, k, d)
                THEN ValueIn(d.main, Index(h, k, d.main), k)
                ELSE ValueIn(d.rehashing, Index(h, k, d.rehashing), k)

Replace(t, b, k, v) ==
    [t EXCEPT !.table[b] =
        {e \in @ : e.key # k} \cup {[key |-> k, value |-> v]}]

\* entry.value = value, through the pointer get returned.
overwrite(h, k, v, d) ==
    IF InMain(h, k, d)
    THEN [d EXCEPT !.main = Replace(@, Index(h, k, @), k, v)]
    ELSE [d EXCEPT !.rehashing = Replace(@, Index(h, k, @), k, v)]

Remove(t, b, k) ==
    [t EXCEPT !.table[b] = {e \in @ : e.key # k}, !.used = @ - 1]

\* Mutant: a del does not take its rehash step.
delWithoutStep(h, k, d) ==
    IF BothEmpty(d) THEN d
    ELSE IF Holds(d.main, Index(h, k, d.main), k)
         THEN [d EXCEPT !.main = Remove(@, Index(h, k, @), k)]
    ELSE IF InRehashing(h, k, d)
         THEN [d EXCEPT !.rehashing = Remove(@, Index(h, k, @), k)]
    ELSE d

\* The rehash step comes before the search, and happens on a miss too.
del(h, k, d) ==
    LET r == rehashStep(h, d) IN
    IF BothEmpty(d) THEN d
    ELSE IF Holds(r.main, Index(h, k, r.main), k)
         THEN [r EXCEPT !.main = Remove(@, Index(h, k, @), k)]
    ELSE IF InRehashing(h, k, r)
         THEN [r EXCEPT !.rehashing = Remove(@, Index(h, k, @), k)]
    ELSE r

delFinds(h, k, d) ==
    LET r == rehashStep(h, d) IN
    /\ ~BothEmpty(d)
    /\ Holds(r.main, Index(h, k, r.main), k) \/ InRehashing(h, k, r)

----------------------------------------------------------------------------
(* What the invariants of a sub-dictionary say, part by part *)

TableTypeOK(t) == /\ t = [size |-> t.size, used |-> t.used, table |-> t.table]
                  /\ t.size \in {0} \cup PowersOfTwo
                  /\ t.used \in Nat
                  /\ t.table \in [0..t.size-1 -> SUBSET Entry]

DickTypeOK(d) == /\ d = [main |-> d.main, rehashing |-> d.rehashing,
                         rehashidx |-> d.rehashidx]
                 /\ TableTypeOK(d.main)
                 /\ TableTypeOK(d.rehashing)
                 /\ d.rehashidx \in Nat \cup {-1}

Entries(t) == UNION {t.table[b] : b \in DOMAIN t.table}
KeysIn(t)  == {e.key : e \in Entries(t)}

AtHome(h, t) == \A b \in DOMAIN t.table : \A e \in t.table[b] :
                    b = Index(h, e.key, t)

OneEntryPerKey(t) == \A e, f \in Entries(t) : e.key = f.key => e = f

UsedExact(t) == t.used = Cardinality(KeysIn(t))

CursorOK(d) ==
    IF isRehashing(d)
    THEN /\ d.rehashidx < d.main.size
         /\ d.rehashing.size > 0
         /\ \A b \in 0..d.rehashidx-1 : d.main.table[b] = {}
    ELSE d.rehashing = NewDickTable(0)

LoadOK(d) ==
    IF isRehashing(d)
    THEN /\ d.main.used + d.rehashing.used <= d.main.size + d.rehashidx
         /\ 2 * d.main.size <= d.rehashing.size
    ELSE d.main.used <= d.main.size

----------------------------------------------------------------------------
(* The map a sub-dictionary stands for, wherever its entries are *)

Stored(d, k) == {e \in Entries(d.main) \cup Entries(d.rehashing) : e.key = k}

Contents(d) == [k \in Key |-> IF Stored(d, k) = {} THEN Absent
                              ELSE (CHOOSE e \in Stored(d, k) : TRUE).value]
=============================================================================

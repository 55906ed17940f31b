------------------------------ MODULE SubDick ------------------------------
(***************************************************************************)
(* One SubDICK and the operations XDICK.Get, Set and Del on the keys that  *)
(* hash to it (src/database/operations.go, dick.go).  submux is held for   *)
(* the whole of an operation, so here an operation is one action; XDick    *)
(* splits it at the lock.                                                  *)
(*                                                                         *)
(* What is hard: the store moves from one table to another a bucket at a   *)
(* time, inside calls that read and write both tables, and an index or a   *)
(* counter that is off by one loses an entry or indexes past a table (a    *)
(* Go panic that stops the process) only after a long history of calls.    *)
(***************************************************************************)
EXTENDS DickOps

CONSTANTS Hashers,   \* the hash functions a process may have started with
          Nil        \* what Get returns for an absent key

ASSUME HashersAssumption == Hashers \subseteq [Key -> Nat]
ASSUME AbsentAssumption  == Absent \notin Value

VARIABLES dick,     \* the SubDICK
          hasher,   \* hash of each key: fixed by HASHER and the salt at start
          reply     \* the call that returned last, and what it returned

vars == <<dick, hasher, reply>>

NoReply == [op |-> "none"]

Init == /\ dick = NewSubDICK
        /\ hasher \in Hashers
        /\ reply = NoReply

Get(k) ==
    /\ reply' = [op |-> "Get", key |-> k,
                 ret |-> IF Finds(hasher, k, dick) THEN get(hasher, k, dick)
                         ELSE Nil]
    /\ UNCHANGED <<dick, hasher>>

Overwrite(k, v) ==
    /\ Finds(hasher, k, dick)
    /\ dick' = overwrite(hasher, k, v, dick)
    /\ reply' = [op |-> "Set", key |-> k, ret |-> "ok"]
    /\ UNCHANGED hasher

Add(k, v) ==
    /\ ~Finds(hasher, k, dick)
    /\ dick' = add(hasher, k, v, dick)
    /\ reply' = [op |-> "Set", key |-> k,
                 ret |-> IF addFails(hasher, k, dick) THEN "unexpectedly found"
                         ELSE "ok"]
    /\ UNCHANGED hasher

Set(k, v) == Overwrite(k, v) \/ Add(k, v)

Del(k) ==
    /\ dick' = del(hasher, k, dick)
    /\ reply' = [op |-> "Del", key |-> k,
                 ret |-> IF delFinds(hasher, k, dick) THEN "ok"
                         ELSE "entry not found"]
    /\ UNCHANGED hasher

Next == \E k \in Key : Get(k) \/ Del(k) \/ \E v \in Value : Set(k, v)

Spec == Init /\ [][Next]_vars

----------------------------------------------------------------------------
(* Invariants *)

\* Every table is as long as its size says, a size is 0 or a power of two (so
\* that hash & sizemask is an index of the table), and the types are right.
TypeOK == /\ DickTypeOK(dick)
          /\ hasher \in [Key -> Nat]

\* Every entry is in the one bucket of its table where a search for its key
\* looks: an expansion or a move that mixed up the two masks would leave
\* entries in the store that no call can reach.
EntriesAtHome == AtHome(hasher, dick.main) /\ AtHome(hasher, dick.rehashing)

\* A key has at most one entry in both tables together, even while its old
\* and its new bucket both exist: a second one would bring back a deleted or
\* an overwritten value later.
UniqueKeys == /\ OneEntryPerKey(dick.main)
              /\ OneEntryPerKey(dick.rehashing)
              /\ KeysIn(dick.main) \cap KeysIn(dick.rehashing) = {}

\* used counts the entries of its table exactly.  get and del give up when
\* both counters are 0 and rehash drops the main table when its counter is 0.
UsedIsExact == UsedExact(dick.main) /\ UsedExact(dick.rehashing)

\* The cursor points into the main table and only empty buckets are behind it,
\* so that the skipping loop of rehash, which has no bound of its own, meets an
\* entry before the end of the table; out of a rehash no second table exists.
CursorInRange == CursorOK(dick)

\* The tables are well-formed throughout: every search ends at the one entry of
\* its key, if it has one.
HashTableOK == EntriesAtHome /\ UniqueKeys /\ UsedIsExact /\ CursorInRange

\* A table never holds more entries than it has buckets, although no expansion
\* can start during a rehash: each add first moves the cursor, so the rehash
\* ends before the new table is full.
LoadFactor == LoadOK(dick)

----------------------------------------------------------------------------
(* Action properties *)

\* While a rehash runs, a call that adds or removes an entry brings it closer
\* to its end, by at least a bucket and by no more than emptyVisits allows, and
\* nothing replaces the table it fills; a call that ends it puts that table in
\* the main place.
RehashStepAdvances ==
    isRehashing(dick) =>
        \/ /\ dick'.rehashidx \in dick.rehashidx .. dick.rehashidx + EMPTY_VISITS
           /\ dick'.rehashing.size = dick.rehashing.size
           /\ dick'.main.size = dick.main.size
           /\ KeysIn(dick'.main) \cup KeysIn(dick'.rehashing)
                 # KeysIn(dick.main) \cup KeysIn(dick.rehashing)
              => dick'.rehashidx > dick.rehashidx
        \/ /\ ~isRehashing(dick')
           /\ dick'.main.size = dick.rehashing.size

RehashAdvances == [][RehashStepAdvances]_vars

\* A rehash ends, however the calls interleave, if entries keep being added;
\* reads, overwrites and misses alone may leave it unfinished for ever.
RehashEnds ==
    []<><<\E k \in Key, v \in Value : Add(k, v)>>_vars => []<>~isRehashing(dick)

----------------------------------------------------------------------------
(* The sub-dictionary implements the map *)

Store == INSTANCE KVStore WITH kv <- Contents(dick)

\* Whatever the tables go through, Get, Set and Del are those of one map: no
\* expansion or move loses, duplicates or revives a binding, and Set never
\* returns the error of add.
ImplementsKVStore == Store!KVSpec
=============================================================================

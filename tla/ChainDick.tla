----------------------------- MODULE ChainDick -----------------------------
(***************************************************************************)
(* The sub-dictionary as src/database/dick.go stores it: a bucket is the   *)
(* pointer to its first DickEntry, and each entry points to the next.  The *)
(* loops that relink entries are taken one entry at a time.                *)
(*                                                                         *)
(* SubDick and DickOps take a chain for the set of its entries; here that  *)
(* is shown (ImplementsSubDick).  submux is held during a call, so nobody  *)
(* sees what a chain looks like half-way.                                  *)
(***************************************************************************)
EXTENDS DickOps

CONSTANTS Hashers, Nil,
          Ptr       \* addresses of entries: as many as there are keys

nil == 0   \* the nil pointer

ASSUME ChainAssumption == /\ Hashers \subseteq [Key -> Nat] /\ Absent \notin Value
                          /\ Ptr \subseteq Nat \ {nil} /\ IsFiniteSet(Ptr)
                          /\ Cardinality(Ptr) >= Cardinality(Key)


VARIABLES heap,       \* the entries
          main, rehashing,  \* the two DickTables; their buckets are pointers
          rehashidx,
          hasher, reply,
          pc,         \* "idle", or where the call is
          call,       \* the call
          X,          \* the index keyIndex gave add
          entry,      \* the loop variable of rehash
          before      \* the sub-dictionary at the start of the call

tables == <<heap, main, rehashing, rehashidx>>
vars == <<heap, main, rehashing, rehashidx, hasher, reply, pc, call, X, entry, before>>

NoCall == [op |-> "none"]

NewTable(n) == [size |-> n, used |-> 0, table |-> [b \in 0..n-1 |-> nil]]
Rehashing == rehashidx # -1

\* What is reached from p: the least set of entries that holds it and is closed
\* under next.
Closed(h, R)  == \A q \in R : h[q].next \in R \cup {nil}
ChainIn(h, p) == {q \in Ptr : \A R \in SUBSET Ptr :
                     p \in R \cup {nil} /\ Closed(h, R) => q \in R}
Chain(p) == ChainIn(heap, p)

\* All that a table reaches.
NodesIn(h, t) == UNION {ChainIn(h, t.table[b]) : b \in DOMAIN t.table}
Used == NodesIn(heap, main) \cup NodesIn(heap, rehashing)

Bucket(k, t) == IF t.size = 0 THEN nil ELSE t.table[Index(hasher, k, t)]
Has(k, t)  == \E p \in Chain(Bucket(k, t)) : heap[p].key = k
Find(k, t) == CHOOSE p \in Chain(Bucket(k, t)) : heap[p].key = k

\* The sets SubDick has for chains.
EntryAt(h, p) == [key |-> h[p].key, value |-> h[p].value]
AsSets(h, t)  == [size |-> t.size, used |-> t.used,
                  table |-> [b \in 0..t.size-1 |->
                                {EntryAt(h, p) : p \in ChainIn(h, t.table[b])}]]
AsDick == [main |-> AsSets(heap, main), rehashing |-> AsSets(heap, rehashing),
           rehashidx |-> rehashidx]

S == INSTANCE SubDick WITH dick <- IF pc = "idle" THEN AsDick ELSE before

NoEntry == [key |-> Nil, value |-> Nil, next |-> nil]

Init == /\ heap = [p \in Ptr |-> NoEntry]
        /\ main = NewTable(0) /\ rehashing = NewTable(0) /\ rehashidx = -1
        /\ hasher \in Hashers
        /\ reply = S!NoReply
        /\ pc = "idle" /\ call = NoCall /\ X = -1 /\ entry = nil
        /\ before = NewSubDICK
----------------------------------------------------------------------------
(* Get, Set, Del *)

Invoke(c) == /\ pc = "idle" /\ pc' = "search"
             /\ call' = c /\ before' = AsDick
             /\ UNCHANGED <<tables, hasher, reply, X, entry>>

Goto(from, to) == pc = from /\ pc' = to

\* What a call leaves behind is forgotten.
Return(ret) == /\ reply' = [op |-> call.op, key |-> call.key, ret |-> ret]
               /\ pc' = "idle" /\ call' = NoCall /\ X' = -1 /\ entry' = nil
               /\ before' = NewSubDICK /\ UNCHANGED hasher

Same == UNCHANGED <<hasher, reply, call, before>>

bothEmpty == main.used = 0 /\ rehashing.used = 0
found(k)   == ~bothEmpty /\ (Has(k, main) \/ (Rehashing /\ Has(k, rehashing)))
foundAt(k) == IF Has(k, main) THEN Find(k, main) ELSE Find(k, rehashing)

Get == /\ pc = "search" /\ call.op = "Get"
       /\ Return(IF found(call.key) THEN heap[foundAt(call.key)].value ELSE Nil)
       /\ UNCHANGED tables

\* entry.value = value
SetValue == /\ pc = "search" /\ call.op = "Set" /\ found(call.key)
            /\ heap' = [heap EXCEPT ![foundAt(call.key)].value = call.value]
            /\ Return("ok")
            /\ UNCHANGED <<main, rehashing, rehashidx>>

\* expandIfNeeded
Expand == /\ Goto("search", "index") /\ call.op = "Set" /\ ~found(call.key)
          /\ IF Rehashing \/ (main.size # 0 /\ main.used < main.size)
             THEN UNCHANGED <<main, rehashing, rehashidx>>
             ELSE IF main.size = 0
             THEN main' = NewTable(nextPower(INITIAL_SIZE))
                  /\ UNCHANGED <<rehashing, rehashidx>>
             ELSE rehashing' = NewTable(nextPower(2 * main.used))
                  /\ rehashidx' = 0 /\ UNCHANGED main
          /\ Same /\ UNCHANGED <<heap, X, entry>>

KeyIndex == /\ pc = "index"
            /\ IF Has(call.key, main) \/ (Rehashing /\ Has(call.key, rehashing))
               THEN Return("unexpectedly found")
               ELSE /\ X' = Index(hasher, call.key, IF Rehashing THEN rehashing ELSE main)
                    /\ pc' = IF Rehashing THEN "rehash" ELSE "add"
                    /\ Same /\ UNCHANGED entry
            /\ UNCHANGED tables

Del == /\ pc = "search" /\ call.op = "Del"
       /\ IF bothEmpty THEN Return("entry not found")
          ELSE /\ pc' = IF Rehashing THEN "rehash" ELSE "unlink"
               /\ Same /\ UNCHANGED <<X, entry>>
       /\ UNCHANGED tables
----------------------------------------------------------------------------
(* rehash(1) *)

After == IF call.op = "Set" THEN "add" ELSE "unlink"

\* Skips empty buckets, EMPTY_VISITS at most.
Skip == /\ pc = "rehash"
        /\ IF main.used = 0 THEN pc' = "finish" /\ UNCHANGED <<entry, rehashidx>>
           ELSE \E n \in 0..EMPTY_VISITS :
                /\ \A b \in rehashidx..rehashidx + n - 1 : main.table[b] = nil
                /\ rehashidx' = rehashidx + n
                /\ IF n = EMPTY_VISITS THEN pc' = After /\ UNCHANGED entry
                   ELSE /\ main.table[rehashidx'] # nil
                        /\ pc' = "move" /\ entry' = main.table[rehashidx']
        /\ Same /\ UNCHANGED <<heap, main, rehashing, X>>

\* The entry becomes the first of its bucket in the new table.  The old bucket
\* still points to the first entry that was moved.
MoveEntry ==
    LET b == Index(hasher, heap[entry].key, rehashing) IN
    /\ pc = "move" /\ entry # nil
    /\ heap' = [heap EXCEPT ![entry].next = rehashing.table[b]]
    /\ rehashing' = [rehashing EXCEPT !.table[b] = entry, !.used = @ + 1]
    /\ main' = [main EXCEPT !.used = @ - 1]
    /\ entry' = heap[entry].next
    /\ Same /\ UNCHANGED <<pc, rehashidx, X>>

\* Mutant: the old bucket keeps its pointer.
MoveDoneKept == /\ Goto("move", "finish") /\ entry = nil
                /\ rehashidx' = rehashidx + 1
                /\ Same /\ UNCHANGED <<heap, main, rehashing, X, entry>>

MoveDone == /\ Goto("move", "finish") /\ entry = nil
            /\ main' = [main EXCEPT !.table[rehashidx] = nil]
            /\ rehashidx' = rehashidx + 1
            /\ Same /\ UNCHANGED <<heap, rehashing, X, entry>>

FinishRehash == /\ Goto("finish", After)
                /\ IF main.used = 0
                   THEN main' = rehashing /\ rehashing' = NewTable(0) /\ rehashidx' = -1
                   ELSE UNCHANGED <<main, rehashing, rehashidx>>
                /\ Same /\ UNCHANGED <<heap, X, entry>>
----------------------------------------------------------------------------
(* The end of add and of del *)

\* A new entry lives where no reachable one does.
NewDickEntry == CHOOSE p \in Ptr \ Used : TRUE

Linked(t, p) == [t EXCEPT !.table[X] = p, !.used = @ + 1]

Add == LET t == IF Rehashing THEN rehashing ELSE main
           p == NewDickEntry IN
       /\ pc = "add"
       /\ IF \E q \in Chain(t.table[X]) : heap[q].key = call.key
          THEN UNCHANGED tables
          ELSE /\ heap' = [heap EXCEPT ![p] =
                            [key |-> call.key, value |-> call.value, next |-> t.table[X]]]
               /\ IF Rehashing THEN rehashing' = Linked(t, p) /\ UNCHANGED main
                               ELSE main' = Linked(t, p) /\ UNCHANGED rehashing
               /\ UNCHANGED rehashidx
       /\ Return("ok")

\* The entry before p in its chain points past p, or its bucket does; nothing
\* points to p any more.
Unlinked(t, p) == LET b == Index(hasher, call.key, t) IN
    [t EXCEPT !.table[b] = IF @ = p THEN heap[p].next ELSE @, !.used = @ - 1]
Relinked(t, p) == [q \in Ptr |-> IF q = p THEN NoEntry
                                 ELSE IF q \in Chain(Bucket(call.key, t)) /\ heap[q].next = p
                                 THEN [heap[q] EXCEPT !.next = heap[p].next] ELSE heap[q]]

\* Mutant: the bucket is emptied along with the entry.
UnlinkBucket ==
    /\ pc = "unlink"
    /\ IF Has(call.key, main)
       THEN /\ main' = [main EXCEPT !.table[Index(hasher, call.key, main)] = nil, !.used = @ - 1]
            /\ Return("ok") /\ UNCHANGED <<heap, rehashing, rehashidx>>
       ELSE Return("entry not found") /\ UNCHANGED tables

Unlink ==
    /\ pc = "unlink"
    /\ \/ /\ Has(call.key, main)
          /\ LET p == Find(call.key, main) IN
             main' = Unlinked(main, p) /\ heap' = Relinked(main, p)
          /\ Return("ok") /\ UNCHANGED <<rehashing, rehashidx>>
       \/ /\ ~Has(call.key, main) /\ Rehashing /\ Has(call.key, rehashing)
          /\ LET p == Find(call.key, rehashing) IN
             rehashing' = Unlinked(rehashing, p) /\ heap' = Relinked(rehashing, p)
          /\ Return("ok") /\ UNCHANGED <<main, rehashidx>>
       \/ /\ ~Has(call.key, main) /\ ~(Rehashing /\ Has(call.key, rehashing))
          /\ Return("entry not found") /\ UNCHANGED tables

Calls == [op : {"Get", "Del"}, key : Key] \cup [op : {"Set"}, key : Key, value : Value]

Step == \/ Get \/ SetValue \/ Expand \/ KeyIndex \/ Del \/ Skip \/ MoveEntry
        \/ MoveDone \/ FinishRehash \/ Add \/ Unlink

Next == Step \/ \E c \in Calls : Invoke(c)

Spec == Init /\ [][Next]_vars
----------------------------------------------------------------------------
(* Properties *)

\* Between calls no entry is in two chains, or in one chain twice: each is
\* pointed to once.  An update of the one would be an update of the other, and a
\* loop over a chain that comes back to itself would never end, with submux held.
PointedToOnce ==
    pc = "idle" => \A p \in Used :
        Cardinality({b \in DOMAIN main.table : main.table[b] = p})
            + Cardinality({b \in DOMAIN rehashing.table : rehashing.table[b] = p})
            + Cardinality({q \in Used : heap[q].next = p}) = 1

\* An expansion makes a table whose size is the least power of two that holds
\* twice the entries, and would if there were 2^e times as many, up to
\* 2^MaxExponent: hash & sizemask reaches every bucket only of such a table, and
\* the shifts of nextPower must reach every bit.
LeastPowerThatHolds ==
    pc = "index" /\ Rehashing /\ ~isRehashing(before) =>
        /\ LeastPower(2 * main.used, rehashing.size)
        /\ \A e \in 0..MaxExponent, d \in {-1, 0, 1} :
              LET n == 2 * main.used * Pow2[e] + d IN
              n \in 1..Pow2[MaxExponent] => LeastPower(n, nextPower(n))

\* Whatever the order of their entries, the chains do what SubDick does with
\* sets of entries.
ImplementsSubDick == S!Spec
=============================================================================

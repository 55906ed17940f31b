-------------------------- MODULE ChainDickProofs --------------------------
(***************************************************************************)
(* The chains of a sub-dictionary do what SubDick does with sets, for any  *)
(* number of entries in any order, and no entry is in two of them.         *)
(*                                                                         *)
(* Shape is what the relinking keeps: chains end, share no entry and hold  *)
(* a key once.  While rehash moves a bucket, the old table points to an    *)
(* entry the new one has already; Shape is said of Live, in which that     *)
(* bucket starts at the loop variable instead.  Control says, for each     *)
(* point of a call, what the sets behind Live are: what the call found,    *)
(* that with part of one bucket moved (PartMoved), or what DickOps makes   *)
(* of it.                                                                  *)
(*                                                                         *)
(* Parts 1 to 3 are about chains and tables, whoever changes them; 4 has   *)
(* a lemma for each step; 5 to 8 put them together.                        *)
(***************************************************************************)
EXTENDS ChainDick, DickOpsProofs

Node == [key : Key \cup {Nil}, value : Value \cup {Nil}, next : Ptr \cup {nil}]

PtrTable(t) == /\ t = [size |-> t.size, used |-> t.used, table |-> t.table]
               /\ t.size \in Nat
               /\ t.table \in [0..t.size-1 -> Ptr \cup {nil}]

\* No two buckets of a table share an entry.
Apart(h, t) == \A a, b \in DOMAIN t.table :
                   a # b => ChainIn(h, t.table[a]) \cap ChainIn(h, t.table[b]) = {}

Nodes(h, t, o) == NodesIn(h, t) \cup NodesIn(h, o)

\* What two tables over one heap keep: their chains end, share no entry, and
\* hold a key once.
Shape(h, t, o) ==
    /\ h \in [Ptr -> Node] /\ PtrTable(t) /\ PtrTable(o)
    /\ Apart(h, t) /\ Apart(h, o) /\ NodesIn(h, t) \cap NodesIn(h, o) = {}
    /\ \A p \in Nodes(h, t, o) : p \notin ChainIn(h, h[p].next)
    /\ \A p, q \in Nodes(h, t, o) : h[p].key = h[q].key => p = q

\* While a bucket is moved, what is left of it starts at entry.
Live == IF pc = "move" THEN [main EXCEPT !.table[rehashidx] = entry] ELSE main

LiveDick == [main |-> AsSets(heap, Live), rehashing |-> AsSets(heap, rehashing),
             rehashidx |-> rehashidx]

\* The sub-dictionary a rehash step of the call starts from.
base == IF call.op = "Set" THEN expandIfNeeded(before) ELSE before

\* d when only rest is left to move of bucket b.
PartMoved(h, d, b, rest) ==
    LET moved == d.main.table[b] \ rest IN
    [main |-> [size  |-> d.main.size,
               used  |-> d.main.used - Cardinality(moved),
               table |-> [d.main.table EXCEPT ![b] = rest]],
     rehashing |-> [size  |-> d.rehashing.size,
                    used  |-> d.rehashing.used + Cardinality(moved),
                    table |-> [c \in DOMAIN d.rehashing.table |->
                                  d.rehashing.table[c] \cup
                                  {e \in moved : Index(h, e.key, d.rehashing) = c}]],
     rehashidx |-> b]

Searched == call.op = "Set" /\ ~Finds(hasher, call.key, before)
Adding   == Searched /\ X = keyIndex(hasher, call.key, base) /\ X # -1
Deleting == call.op = "Del" /\ ~BothEmpty(before)

Moves == base.main.used # 0 /\ Reachable(base) # {}

\* Where a call is, and what it has made of the sub-dictionary it found.
Control ==
    /\ pc = "idle" => DickOK(hasher, LiveDick)
    /\ pc # "idle" => call \in Calls /\ DickOK(hasher, before)
    /\ pc = "search" => LiveDick = before
    /\ pc = "index"  => Searched /\ LiveDick = base
    /\ pc \in {"rehash", "move", "finish"} => (Adding \/ Deleting) /\ isRehashing(base)
    /\ pc = "rehash" => LiveDick = base
    /\ pc = "move" =>
          LET rest == LiveDick.main.table[rehashidx] IN
          /\ Moves /\ rehashidx = FirstReachable(base)
          /\ rest \subseteq base.main.table[rehashidx]
          /\ LiveDick = PartMoved(hasher, base, rehashidx, rest)
    /\ pc = "finish" =>
          IF base.main.used = 0 THEN LiveDick = base
          ELSE Moves /\ LiveDick = MoveBucket(hasher, base, FirstReachable(base))
    /\ pc = "add"    => Adding /\ LiveDick = rehashStep(hasher, base)
    /\ pc = "unlink" => Deleting /\ LiveDick = rehashStep(hasher, base)

IInv == /\ hasher \in Hash
        /\ pc \in {"idle", "search", "index", "rehash", "move", "finish", "add", "unlink"}
        /\ PtrTable(main)
        /\ Shape(heap, Live, rehashing)
        /\ Control
----------------------------------------------------------------------------
(* Part 1: one chain *)

Linking(h) == \A q \in Ptr : h[q].next \in Ptr \cup {nil}

LEMMA HeapLinks == ASSUME NEW h \in [Ptr -> Node] PROVE Linking(h)
BY DEF Linking, Node

LEMMA NilIsNoEntry == nil \notin Ptr
BY ChainAssumption

\* A chain holds its first entry, is closed under next, and is the least such set.
LEMMA ChainLeast ==
    ASSUME NEW h, NEW p, NEW R \in SUBSET Ptr, p \in R \cup {nil}, Closed(h, R)
    PROVE  ChainIn(h, p) \subseteq R
BY DEF ChainIn

LEMMA ChainClosed ==
    ASSUME NEW h, Linking(h), NEW p \in Ptr \cup {nil}
    PROVE  /\ ChainIn(h, p) \in SUBSET Ptr
           /\ p \in ChainIn(h, p) \cup {nil}
           /\ Closed(h, ChainIn(h, p))
<1> DEFINE C == ChainIn(h, p)
<1>1. C \in SUBSET Ptr /\ p \in C \cup {nil}
  BY DEF ChainIn
<1>2. ASSUME NEW q \in C PROVE h[q].next \in C \cup {nil}
  <2>1. q \in Ptr /\ h[q].next \in Ptr \cup {nil}
    BY <1>1 DEF Linking
  <2>2. ASSUME NEW R \in SUBSET Ptr, p \in R \cup {nil}, Closed(h, R)
        PROVE  h[q].next \in R \cup {nil}
    <3>1. q \in R
      BY <2>2 DEF ChainIn
    <3> QED
      BY <2>2, <3>1 DEF Closed
  <2> QED
    BY <2>1, <2>2 DEF ChainIn
<1> QED
  BY <1>1, <1>2 DEF Closed

LEMMA NilChain == ASSUME NEW h PROVE ChainIn(h, nil) = {}
<1>1. Closed(h, {}) /\ {} \in SUBSET Ptr /\ nil \in {} \cup {nil}
  BY DEF Closed
<1> QED
  BY <1>1, ChainLeast

\* An entry, and the chain after it.
LEMMA ChainStep ==
    ASSUME NEW h, Linking(h), NEW p \in Ptr
    PROVE  ChainIn(h, p) = {p} \cup ChainIn(h, h[p].next)
<1> DEFINE C == ChainIn(h, p)
           D == ChainIn(h, h[p].next)
<1>1. h[p].next \in Ptr \cup {nil}
  BY DEF Linking
<1>2. /\ D \in SUBSET Ptr /\ h[p].next \in D \cup {nil} /\ Closed(h, D)
      /\ C \in SUBSET Ptr /\ p \in C \cup {nil} /\ Closed(h, C)
  BY <1>1, ChainClosed
<1>3. p \in C /\ h[p].next \in C \cup {nil}
  BY <1>2, NilIsNoEntry DEF Closed
<1> HIDE DEF C, D
<1>4. Closed(h, {p} \cup D) /\ {p} \cup D \in SUBSET Ptr
  BY <1>2 DEF Closed
<1>5. C \subseteq {p} \cup D
  BY <1>4, ChainLeast DEF C
<1>6. D \subseteq C
  BY <1>2, <1>3, ChainLeast DEF D
<1> QED
  BY <1>3, <1>5, <1>6 DEF C, D

\* Where a chain leads is part of it.
LEMMA ChainWithin ==
    ASSUME NEW h, Linking(h), NEW p \in Ptr \cup {nil}, NEW q \in ChainIn(h, p)
    PROVE  /\ q \in Ptr /\ q \in ChainIn(h, q)
           /\ ChainIn(h, q) \subseteq ChainIn(h, p)
           /\ ChainIn(h, h[q].next) \subseteq ChainIn(h, q)
           /\ h[q].next \in ChainIn(h, p) \cup {nil}
<1>1. ChainIn(h, p) \in SUBSET Ptr /\ Closed(h, ChainIn(h, p))
  BY ChainClosed
<1>2. q \in Ptr /\ ChainIn(h, q) \subseteq ChainIn(h, p)
  BY <1>1, ChainLeast
<1> QED
  BY <1>1, <1>2, ChainStep DEF Closed

\* What happens elsewhere in the heap does not change a chain.
LinkedAlike(h, h2, R) == \A q \in R : h2[q].next = h[q].next

LEMMA ChainFrame ==
    ASSUME NEW h, NEW h2, Linking(h), Linking(h2), NEW p \in Ptr \cup {nil},
           LinkedAlike(h, h2, ChainIn(h, p))
    PROVE  ChainIn(h2, p) = ChainIn(h, p)
<1> DEFINE C == ChainIn(h, p)
           D == ChainIn(h2, p)
<1>1. /\ C \in SUBSET Ptr /\ p \in C \cup {nil} /\ Closed(h, C)
      /\ D \in SUBSET Ptr /\ p \in D \cup {nil} /\ Closed(h2, D)
  BY ChainClosed
<1>2. \A q \in C : h2[q].next = h[q].next
  BY DEF LinkedAlike
<1> HIDE DEF C, D
<1>3. Closed(h2, C) /\ Closed(h, C \cap D) /\ C \cap D \in SUBSET Ptr
  BY <1>1, <1>2 DEF Closed
<1>4. D \subseteq C
  BY <1>1, <1>3, ChainLeast DEF D
<1>5. C \subseteq C \cap D
  BY <1>1, <1>3, ChainLeast DEF C
<1> QED
  BY <1>4, <1>5 DEF C, D

\* Of two entries of a chain one comes first.
LEMMA ChainTotal ==
    ASSUME NEW h, Linking(h), NEW p \in Ptr \cup {nil},
           NEW q \in ChainIn(h, p), NEW r \in ChainIn(h, p)
    PROVE  q \in ChainIn(h, r) \/ r \in ChainIn(h, q)
<1> DEFINE C == ChainIn(h, p)
           R == {s \in C : q \in ChainIn(h, s) \/ s \in ChainIn(h, q)}
<1>1. C \in SUBSET Ptr /\ p \in C /\ Closed(h, C)
  BY ChainClosed, NilChain
<1>2. p \in R
  BY <1>1
<1>3. ASSUME NEW s \in R PROVE h[s].next \in R \cup {nil}
  <2>1. s \in Ptr /\ h[s].next \in C \cup {nil} /\ h[s].next \in Ptr \cup {nil}
    BY <1>1 DEF Closed, Linking
  <2>2. CASE s \in ChainIn(h, q)
    <3>1. h[s].next \in ChainIn(h, q) \cup {nil}
      BY <1>1, <2>2, ChainClosed DEF Closed
    <3> QED
      BY <2>1, <3>1
  <2>3. CASE s \notin ChainIn(h, q)
    <3>1. q \in {s} \cup ChainIn(h, h[s].next) /\ q \in ChainIn(h, q)
      BY <1>1, <2>1, <2>3, ChainStep
    <3>2. q \in ChainIn(h, h[s].next)
      BY <2>3, <3>1
    <3> QED
      BY <2>1, <3>2
  <2> QED
    BY <2>2, <2>3
<1>4. R \in SUBSET Ptr /\ Closed(h, R)
  BY <1>1, <1>3 DEF Closed
<1> HIDE DEF R
<1>5. C \subseteq R
  BY <1>2, <1>4, ChainLeast
<1> QED
  BY <1>5 DEF R

\* Every entry of a chain but the first has one before it.
LEMMA ChainBefore ==
    ASSUME NEW h, Linking(h), NEW p \in Ptr \cup {nil}, NEW q \in ChainIn(h, p), q # p
    PROVE  \E r \in ChainIn(h, p) : h[r].next = q
<1> SUFFICES ASSUME \A r \in ChainIn(h, p) : h[r].next # q PROVE FALSE
  OBVIOUS
<1> DEFINE R == ChainIn(h, p) \ {q}
<1>1. ChainIn(h, p) \in SUBSET Ptr /\ p \in ChainIn(h, p) \cup {nil} /\ Closed(h, ChainIn(h, p))
  BY ChainClosed
<1>2. R \in SUBSET Ptr /\ p \in R \cup {nil} /\ Closed(h, R)
  BY <1>1 DEF Closed
<1>3. ChainIn(h, p) \subseteq R
  BY <1>2, ChainLeast
<1> QED
  BY <1>3

\* Unlinking x: the entry before it, or the bucket, points past it.
LEMMA ChainUnlink ==
    ASSUME NEW h, NEW h2, Linking(h), Linking(h2), NEW p \in Ptr \cup {nil},
           NEW x \in ChainIn(h, p), x \notin ChainIn(h, h[x].next), h2[x].next = nil,
           \A q \in ChainIn(h, p) \ {x} :
               h2[q].next = IF h[q].next = x THEN h[x].next ELSE h[q].next
    PROVE  /\ ChainIn(h2, IF p = x THEN h[x].next ELSE p) = ChainIn(h, p) \ {x}
           /\ \A q \in ChainIn(h, p) \cup {nil} : ChainIn(h2, q) \subseteq ChainIn(h, q)
<1> DEFINE C  == ChainIn(h, p)
           p2 == IF p = x THEN h[x].next ELSE p
           D  == ChainIn(h2, p2)
           n  == h[x].next
<1>1. C \in SUBSET Ptr /\ p \in C /\ Closed(h, C) /\ x \in Ptr
  BY ChainClosed, NilChain
<1>2. n \in C \cup {nil} /\ n # x /\ x # nil
  <2>1. n \in C \cup {nil}
    BY <1>1 DEF Closed
  <2>2. n # nil => n \in ChainIn(h, n)
    BY <1>1, <2>1, ChainClosed
  <2> QED
    BY <1>1, <2>1, <2>2, NilIsNoEntry
<1>3. p2 \in (C \ {x}) \cup {nil} /\ (p = x => p2 = n) /\ (p # x => p2 = p)
  BY <1>1, <1>2
<1>4. D \in SUBSET Ptr /\ p2 \in D \cup {nil} /\ Closed(h2, D)
  BY <1>1, <1>3, ChainClosed
<1>5. \A q \in C \ {x} : h2[q].next = IF h[q].next = x THEN n ELSE h[q].next
  OBVIOUS
<1>6. \A q \in C \cup {nil} : ChainIn(h2, q) \subseteq ChainIn(h, q)
  <2> SUFFICES ASSUME NEW q \in C \cup {nil} PROVE ChainIn(h2, q) \subseteq ChainIn(h, q)
    OBVIOUS
  <2> DEFINE E == ChainIn(h, q)
  <2>1. E \in SUBSET Ptr /\ q \in E \cup {nil} /\ Closed(h, E)
    BY <1>1, ChainClosed
  <2>2. E \subseteq C
    BY ChainWithin, NilChain
  <2> HIDE DEF E
  <2>3. ASSUME NEW r \in E PROVE h2[r].next \in E \cup {nil}
    <3>1. h[r].next \in E \cup {nil} /\ r \in C
      BY <2>1, <2>2 DEF Closed
    <3>2. x \in E => n \in E \cup {nil}
      BY <2>1 DEF Closed
    <3>3. r # x => h2[r].next = IF h[r].next = x THEN n ELSE h[r].next
      BY <1>5, <3>1
    <3> QED
      BY <1>2, <3>1, <3>2, <3>3
  <2>4. Closed(h2, E)
    BY <2>3 DEF Closed
  <2> QED
    BY <2>1, <2>4, ChainLeast DEF E
<1> HIDE DEF C, D, p2, n
<1>7. Closed(h2, C \ {x}) /\ C \ {x} \in SUBSET Ptr
  BY <1>1, <1>2, <1>5 DEF Closed
<1>8. D \subseteq C \ {x}
  BY <1>3, <1>7, ChainLeast DEF D
<1>9. C \ {x} \subseteq D
  <2>1. CASE n \in D \cup {nil}
    <3>1. Closed(h, D \cup {x}) /\ D \cup {x} \in SUBSET Ptr
      BY <1>1, <1>4, <1>5, <1>8, <2>1 DEF Closed, n
    <3>2. p \in D \cup {x} \cup {nil}
      BY <1>3, <1>4
    <3> QED
      BY <3>1, <3>2, ChainLeast DEF C
  <2>2. CASE n \notin D \cup {nil}
    <3>1. p # x
      BY <1>3, <1>4, <2>2
    <3>2. Closed(h, D)
      BY <1>4, <1>5, <1>8, <2>2 DEF Closed
    <3> QED
      BY <1>3, <1>4, <3>1, <3>2, ChainLeast DEF C
  <2> QED
    BY <2>1, <2>2
<1> QED
  BY <1>6, <1>8, <1>9 DEF C, D, p2, n

----------------------------------------------------------------------------
(* Part 2: the tables *)

LEMMA TableRoots ==
    ASSUME NEW h \in [Ptr -> Node], NEW t, PtrTable(t), NEW b \in DOMAIN t.table
    PROVE  /\ t.table[b] \in Ptr \cup {nil}
           /\ ChainIn(h, t.table[b]) \subseteq Ptr
           /\ ChainIn(h, t.table[b]) \subseteq NodesIn(h, t)
<1>1. t.table[b] \in Ptr \cup {nil}
  BY DEF PtrTable
<1> QED
  BY <1>1, ChainClosed, HeapLinks DEF NodesIn

\* What a table reaches is closed under next.
LEMMA NodesClosed ==
    ASSUME NEW h \in [Ptr -> Node], NEW t, PtrTable(t), NEW p \in NodesIn(h, t)
    PROVE  /\ p \in Ptr /\ h[p].next \in Ptr \cup {nil}
           /\ ChainIn(h, h[p].next) \subseteq NodesIn(h, t)
<1>1. PICK b \in DOMAIN t.table : p \in ChainIn(h, t.table[b])
  BY DEF NodesIn
<1>2. /\ t.table[b] \in Ptr \cup {nil} /\ Linking(h)
      /\ ChainIn(h, t.table[b]) \subseteq NodesIn(h, t)
  BY TableRoots, HeapLinks
<1> QED
  BY <1>1, <1>2, ChainWithin DEF Linking

\* A change of the heap elsewhere leaves a table what it is.
LEMMA TableFrame ==
    ASSUME NEW h \in [Ptr -> Node], NEW h2 \in [Ptr -> Node], NEW t, PtrTable(t),
           \A q \in NodesIn(h, t) : h2[q] = h[q]
    PROVE  /\ \A b \in DOMAIN t.table : ChainIn(h2, t.table[b]) = ChainIn(h, t.table[b])
           /\ NodesIn(h2, t) = NodesIn(h, t)
           /\ Apart(h, t) => Apart(h2, t)
           /\ AsSets(h2, t) = AsSets(h, t)
           /\ \A p \in NodesIn(h, t) : ChainIn(h2, h2[p].next) = ChainIn(h, h[p].next)
<1> Linking(h) /\ Linking(h2)
  BY HeapLinks
<1>1. ASSUME NEW b \in DOMAIN t.table
      PROVE  ChainIn(h2, t.table[b]) = ChainIn(h, t.table[b])
  <2>1. LinkedAlike(h, h2, ChainIn(h, t.table[b]))
    BY TableRoots DEF LinkedAlike
  <2> QED
    BY <2>1, TableRoots, ChainFrame
<1>2. NodesIn(h2, t) = NodesIn(h, t)
  BY <1>1 DEF NodesIn
<1>3. Apart(h, t) => Apart(h2, t)
  BY <1>1 DEF Apart
<1>4. AsSets(h2, t) = AsSets(h, t)
  <2>1. ASSUME NEW b \in 0..t.size-1
        PROVE  {EntryAt(h2, p) : p \in ChainIn(h2, t.table[b])}
                  = {EntryAt(h, p) : p \in ChainIn(h, t.table[b])}
    <3>1. b \in DOMAIN t.table
      BY DEF PtrTable
    <3>2. \A p \in ChainIn(h, t.table[b]) : EntryAt(h2, p) = EntryAt(h, p)
      BY <3>1, TableRoots DEF EntryAt
    <3> QED
      BY <1>1, <3>1, <3>2
  <2> QED
    BY <2>1 DEF AsSets
<1>5. ASSUME NEW p \in NodesIn(h, t)
      PROVE  ChainIn(h2, h2[p].next) = ChainIn(h, h[p].next)
  <2>1. LinkedAlike(h, h2, ChainIn(h, h[p].next))
    BY NodesClosed DEF LinkedAlike
  <2> QED
    BY <2>1, NodesClosed, ChainFrame
<1> QED
  BY <1>1, <1>2, <1>3, <1>4, <1>5

LEMMA ShapeTurns ==
    ASSUME NEW h, NEW t, NEW o, Shape(h, t, o)
    PROVE  Shape(h, o, t) /\ Nodes(h, t, o) = Nodes(h, o, t)
<1>1. Nodes(h, t, o) = Nodes(h, o, t)
  BY DEF Nodes
<1> QED
  BY <1>1 DEF Shape

\* The entries that no bucket but b has.
Others(h, t, o, b) == Nodes(h, t, o) \ ChainIn(h, t.table[b])

\* One bucket, b, gets another chain, D, of entries that no other bucket has, with
\* keys that no other has.
Rewired(h, t, o, b, h2, t2) ==
    LET D == ChainIn(h2, t2.table[b])
        N == Others(h, t, o, b)
    IN  /\ Shape(h, t, o) /\ b \in DOMAIN t.table
        /\ h2 \in [Ptr -> Node] /\ PtrTable(t2) /\ t2.size = t.size
        /\ \A c \in DOMAIN t.table : c # b => t2.table[c] = t.table[c]
        /\ \A q \in N : h2[q] = h[q] /\ q \notin D
        /\ \A p \in D : p \notin ChainIn(h2, h2[p].next)
        /\ \A p, q \in D : h2[p].key = h2[q].key => p = q
        /\ \A p \in D, q \in N : h2[p].key # h[q].key

\* Nothing else changes.
Reshaped(h, t, o, b, h2, t2) ==
    LET D == ChainIn(h2, t2.table[b]) IN
    /\ Shape(h2, t2, o) /\ AsSets(h2, o) = AsSets(h, o)
    /\ Nodes(h2, t2, o) = Others(h, t, o, b) \cup D
    /\ AsSets(h2, t2) = [size |-> t.size, used |-> t2.used,
                         table |-> [AsSets(h, t).table EXCEPT ![b] =
                                       {EntryAt(h2, p) : p \in D}]]

LEMMA Reshape ==
    ASSUME NEW h, NEW t, NEW o, NEW b, NEW h2, NEW t2, Rewired(h, t, o, b, h2, t2)
    PROVE  Reshaped(h, t, o, b, h2, t2)
<1> DEFINE C == ChainIn(h, t.table[b])
           D == ChainIn(h2, t2.table[b])
           N == Others(h, t, o, b)
<1>0. /\ Shape(h, t, o) /\ b \in DOMAIN t.table
      /\ h2 \in [Ptr -> Node] /\ PtrTable(t2) /\ t2.size = t.size
      /\ \A c \in DOMAIN t.table : c # b => t2.table[c] = t.table[c]
      /\ \A q \in N : h2[q] = h[q] /\ q \notin D
      /\ \A p \in D : p \notin ChainIn(h2, h2[p].next)
      /\ \A p, q \in D : h2[p].key = h2[q].key => p = q
      /\ \A p \in D, q \in N : h2[p].key # h[q].key
  BY DEF Rewired
<1>a. N = Nodes(h, t, o) \ C
  BY DEF Others
<1> HIDE DEF N
<1>1. /\ h \in [Ptr -> Node] /\ PtrTable(t) /\ PtrTable(o)
      /\ Apart(h, t) /\ Apart(h, o) /\ NodesIn(h, t) \cap NodesIn(h, o) = {}
  BY <1>0 DEF Shape
<1>2. Linking(h) /\ Linking(h2)
  BY <1>0, <1>a, <1>1, HeapLinks
<1>3. DOMAIN t.table = 0..t.size-1 /\ DOMAIN t2.table = 0..t.size-1
  BY <1>0, <1>a, <1>1 DEF PtrTable
<1>4. C \subseteq NodesIn(h, t)
  BY <1>0, <1>a, <1>1, TableRoots
<1>5. ASSUME NEW c \in DOMAIN t.table, c # b
      PROVE  /\ ChainIn(h, t.table[c]) \subseteq N
             /\ ChainIn(h2, t2.table[c]) = ChainIn(h, t.table[c])
  <2>1. ChainIn(h, t.table[c]) \cap C = {}
    BY <1>0, <1>a, <1>1, <1>5 DEF Apart
  <2>2. ChainIn(h, t.table[c]) \subseteq NodesIn(h, t) /\ t.table[c] \in Ptr \cup {nil}
    BY <1>0, <1>a, <1>1, TableRoots
  <2>3. ChainIn(h, t.table[c]) \subseteq N
    BY <1>0, <1>a, <2>1, <2>2 DEF Nodes
  <2>4. LinkedAlike(h, h2, ChainIn(h, t.table[c]))
    BY <1>0, <2>3 DEF LinkedAlike
  <2>5. ChainIn(h2, t.table[c]) = ChainIn(h, t.table[c])
    BY <1>2, <2>2, <2>4, ChainFrame
  <2> QED
    BY <1>0, <1>5, <2>3, <2>5
<1>6. NodesIn(h, o) \subseteq N
  BY <1>0, <1>a, <1>1, <1>4 DEF Nodes
<1>7. /\ NodesIn(h2, o) = NodesIn(h, o) /\ Apart(h2, o) /\ AsSets(h2, o) = AsSets(h, o)
      /\ \A p \in NodesIn(h, o) : ChainIn(h2, h2[p].next) = ChainIn(h, h[p].next)
  BY <1>0, <1>a, <1>1, <1>6, TableFrame
<1>8. NodesIn(h2, t2) = (NodesIn(h, t) \ C) \cup D
  <2>1. ASSUME NEW p \in NodesIn(h, t) \ C PROVE p \in NodesIn(h2, t2)
    <3>1. PICK c \in DOMAIN t.table : p \in ChainIn(h, t.table[c])
      BY <1>0, <1>a DEF NodesIn
    <3> QED
      BY <1>0, <1>a, <1>3, <1>5, <3>1 DEF NodesIn
  <2>2. ASSUME NEW p \in NodesIn(h2, t2) PROVE p \in (NodesIn(h, t) \ C) \cup D
    <3>1. PICK c \in DOMAIN t.table : p \in ChainIn(h2, t2.table[c])
      BY <1>0, <1>a, <1>3 DEF NodesIn
    <3>2. CASE c # b
      <4>1. p \in N /\ p \in ChainIn(h, t.table[c])
        BY <1>0, <1>a, <1>5, <3>1, <3>2
      <4> QED
        BY <1>0, <1>a, <4>1 DEF NodesIn
    <3> QED
      BY <1>0, <1>a, <3>1, <3>2
  <2>3. D \subseteq NodesIn(h2, t2)
    BY <1>0, <1>a, <1>3 DEF NodesIn
  <2> QED
    BY <1>0, <1>a, <2>1, <2>2, <2>3
<1>9. Nodes(h2, t2, o) = N \cup D /\ NodesIn(h2, t2) \cap NodesIn(h2, o) = {}
  BY <1>0, <1>a, <1>1, <1>4, <1>6, <1>7, <1>8 DEF Nodes
<1>10. Apart(h2, t2)
  <2> SUFFICES ASSUME NEW c \in DOMAIN t.table, NEW d \in DOMAIN t.table, c # d
               PROVE  ChainIn(h2, t2.table[c]) \cap ChainIn(h2, t2.table[d]) = {}
    BY <1>0, <1>a, <1>3 DEF Apart
  <2>1. CASE c = b
    BY <1>0, <1>a, <1>5, <2>1
  <2>2. CASE d = b
    BY <1>0, <1>a, <1>5, <2>2
  <2>3. CASE c # b /\ d # b
    BY <1>0, <1>a, <1>1, <1>5, <2>3 DEF Apart
  <2> QED
    BY <1>0, <1>a, <2>1, <2>2, <2>3
<1>11. \A p \in N \cup D : p \notin ChainIn(h2, h2[p].next)
  <2> SUFFICES ASSUME NEW p \in N PROVE p \notin ChainIn(h2, h2[p].next)
    BY <1>0
  <2>1. p \in Nodes(h, t, o) /\ p \notin ChainIn(h, h[p].next) /\ h2[p] = h[p]
    BY <1>0, <1>a DEF Shape
  <2>2. CASE p \in NodesIn(h, o)
    BY <1>0, <1>a, <1>7, <2>1, <2>2
  <2>3. CASE p \notin NodesIn(h, o)
    <3>1. PICK c \in DOMAIN t.table : p \in ChainIn(h, t.table[c])
      BY <1>0, <1>a, <2>1, <2>3 DEF Nodes, NodesIn
    <3>2. c # b
      BY <1>0, <1>a, <3>1
    <3>3. /\ ChainIn(h, t.table[c]) \subseteq N /\ t.table[c] \in Ptr \cup {nil}
          /\ ChainIn(h, h[p].next) \subseteq ChainIn(h, t.table[c])
          /\ h[p].next \in Ptr \cup {nil}
      <4>1. ChainIn(h, t.table[c]) \subseteq N /\ t.table[c] \in Ptr \cup {nil}
        BY <1>0, <1>a, <1>1, <1>5, <3>2, TableRoots
      <4>2. p \in Ptr /\ ChainIn(h, h[p].next) \subseteq ChainIn(h, p)
            /\ ChainIn(h, p) \subseteq ChainIn(h, t.table[c])
        BY <1>0, <1>a, <1>2, <3>1, <4>1, ChainWithin
      <4> QED
        BY <1>0, <1>a, <1>2, <4>1, <4>2 DEF Linking
    <3>4. LinkedAlike(h, h2, ChainIn(h, h[p].next))
      BY <1>0, <3>3 DEF LinkedAlike
    <3>5. ChainIn(h2, h[p].next) = ChainIn(h, h[p].next)
      BY <1>2, <3>3, <3>4, ChainFrame
    <3> QED
      BY <2>1, <3>5
  <2> QED
    BY <1>0, <1>a, <2>2, <2>3
<1>12. \A p, q \in N \cup D : h2[p].key = h2[q].key => p = q
  <2>1. \A p, q \in N : h[p].key = h[q].key => p = q
    BY <1>0, <1>a DEF Shape
  <2> QED
    BY <1>0, <1>a, <2>1
<1>13. Shape(h2, t2, o)
  BY <1>0, <1>a, <1>1, <1>7, <1>9, <1>10, <1>11, <1>12 DEF Shape
<1>14. AsSets(h2, t2) = [size |-> t.size, used |-> t2.used,
                         table |-> [AsSets(h, t).table EXCEPT ![b] =
                                       {EntryAt(h2, p) : p \in D}]]
  <2>1. ASSUME NEW c \in 0..t.size-1
        PROVE  {EntryAt(h2, p) : p \in ChainIn(h2, t2.table[c])}
                 = IF c = b THEN {EntryAt(h2, p) : p \in D}
                   ELSE {EntryAt(h, p) : p \in ChainIn(h, t.table[c])}
    <3>1. CASE c = b
      BY <1>0, <1>a, <3>1
    <3>2. CASE c # b
      <4>1. /\ ChainIn(h2, t2.table[c]) = ChainIn(h, t.table[c])
            /\ ChainIn(h, t.table[c]) \subseteq N
        BY <1>0, <1>a, <1>3, <1>5, <3>2
      <4>2. \A p \in ChainIn(h, t.table[c]) : EntryAt(h2, p) = EntryAt(h, p)
        BY <1>0, <1>a, <4>1 DEF EntryAt
      <4> QED
        BY <1>0, <1>a, <3>2, <4>1, <4>2
    <3> QED
      BY <1>0, <1>a, <3>1, <3>2
  <2>2. AsSets(h, t).table = [c \in 0..t.size-1 |->
                                 {EntryAt(h, p) : p \in ChainIn(h, t.table[c])}]
    BY DEF AsSets
  <2>3. AsSets(h2, t2) = [size |-> t.size, used |-> t2.used,
                         table |-> [c \in 0..t.size-1 |->
                                 {EntryAt(h2, p) : p \in ChainIn(h2, t2.table[c])}]]
    BY <1>0 DEF AsSets
  <2> QED
    BY <1>0, <1>a, <2>1, <2>2, <2>3
<1> QED
  BY <1>7, <1>9, <1>13, <1>14 DEF N, Reshaped


\* The sets of a bucket and of the table around it.
LEMMA BucketSet ==
    ASSUME NEW h, NEW t, PtrTable(t), NEW b \in DOMAIN t.table
    PROVE  /\ b \in 0..t.size-1 /\ DOMAIN t.table = 0..t.size-1
           /\ AsSets(h, t).table[b] = {EntryAt(h, p) : p \in ChainIn(h, t.table[b])}
           /\ AsSets(h, t).size = t.size /\ AsSets(h, t).used = t.used
           /\ DOMAIN AsSets(h, t).table = 0..t.size-1
BY DEF PtrTable, AsSets

\* A new first entry of a bucket.
Pushed(h, t, b, e, k, v, h2, t2) ==
    /\ h2 = [h EXCEPT ![e] = [key |-> k, value |-> v, next |-> t.table[b]]]
    /\ t2 = [t EXCEPT !.table[b] = e, !.used = @ + 1]

LEMMA PushOK ==
    ASSUME NEW h, NEW t, NEW o, Shape(h, t, o), NEW b \in DOMAIN t.table,
           NEW e \in Ptr, e \notin Nodes(h, t, o),
           NEW k \in Key, NEW v \in Value, \A q \in Nodes(h, t, o) : h[q].key # k,
           NEW h2, NEW t2, Pushed(h, t, b, e, k, v, h2, t2)
    PROVE  /\ Shape(h2, t2, o) /\ AsSets(h2, o) = AsSets(h, o)
           /\ AsSets(h2, t2) = [size |-> t.size, used |-> t.used + 1,
                 table |-> [AsSets(h, t).table EXCEPT
                               ![b] = @ \cup {[key |-> k, value |-> v]}]]
<1> DEFINE C == ChainIn(h, t.table[b])
           D == ChainIn(h2, t2.table[b])
           N == Others(h, t, o, b)
<1>1. h \in [Ptr -> Node] /\ PtrTable(t) /\ Linking(h)
  BY HeapLinks DEF Shape
<1>2. t.table[b] \in Ptr \cup {nil} /\ C \subseteq Ptr /\ C \subseteq Nodes(h, t, o)
  BY <1>1, TableRoots DEF Nodes
<1>3. h2 \in [Ptr -> Node] /\ Linking(h2)
  <2>1. h2 \in [Ptr -> Node]
    BY <1>1, <1>2 DEF Node, Pushed
  <2> QED
    BY <2>1, HeapLinks
<1>4. /\ h2[e] = [key |-> k, value |-> v, next |-> t.table[b]]
      /\ \A q \in Ptr : q # e => h2[q] = h[q]
  BY <1>1 DEF Pushed
<1>5. /\ t2.table[b] = e /\ t2.size = t.size /\ t2.used = t.used + 1 /\ PtrTable(t2)
      /\ \A c \in DOMAIN t.table : c # b => t2.table[c] = t.table[c]
  BY <1>1 DEF PtrTable, Pushed
<1>6. ChainIn(h2, t.table[b]) = C /\ e \notin C
  <2>1. e \notin C /\ LinkedAlike(h, h2, C)
    BY <1>2, <1>4 DEF LinkedAlike
  <2> QED
    BY <1>1, <1>2, <1>3, <2>1, ChainFrame
<1>7. D = {e} \cup C
  <2>1. ChainIn(h2, e) = {e} \cup ChainIn(h2, h2[e].next)
    BY <1>3, ChainStep
  <2>2. h2[e].next = t.table[b] /\ t2.table[b] = e
    BY <1>4, <1>5
  <2> QED
    BY <1>6, <2>1, <2>2
<1>8. \A q \in Nodes(h, t, o) : q \in Ptr /\ h2[q] = h[q]
  BY <1>1, <1>4, NodesClosed DEF Nodes, Shape
<1>n. N = Nodes(h, t, o) \ C
  BY DEF Others
<1>9. \A q \in N : h2[q] = h[q] /\ q \notin D
  BY <1>7, <1>8, <1>n
<1>10. \A p \in D : p \notin ChainIn(h2, h2[p].next)
  <2>1. e \notin ChainIn(h2, h2[e].next)
    BY <1>4, <1>6
  <2>2. ASSUME NEW p \in C PROVE p \notin ChainIn(h2, h2[p].next)
    <3>1. /\ p \notin ChainIn(h, h[p].next) /\ h2[p].next = h[p].next
          /\ h[p].next \in Ptr \cup {nil}
      BY <1>1, <1>2, <1>8 DEF Shape, Linking
    <3>2. ChainIn(h, h[p].next) \subseteq C
      BY <1>1, <1>2, ChainWithin
    <3>3. ChainIn(h2, h[p].next) = ChainIn(h, h[p].next)
      <4>1. LinkedAlike(h, h2, ChainIn(h, h[p].next))
        BY <1>2, <1>8, <3>2 DEF LinkedAlike
      <4> QED
        BY <1>1, <1>3, <3>1, <4>1, ChainFrame
    <3> QED
      BY <3>1, <3>3
  <2> QED
    BY <1>7, <2>1, <2>2
<1>11. \A p, q \in Nodes(h, t, o) : h[p].key = h[q].key => p = q
  BY DEF Shape
<1>12. \A p, q \in D : h2[p].key = h2[q].key => p = q
  BY <1>2, <1>4, <1>7, <1>8, <1>11
<1>13. \A p \in D, q \in N : h2[p].key # h[q].key
  BY <1>2, <1>4, <1>7, <1>8, <1>11, <1>n
<1>r. Rewired(h, t, o, b, h2, t2)
  BY <1>3, <1>5, <1>9, <1>10, <1>12, <1>13 DEF Rewired
<1>s. Reshaped(h, t, o, b, h2, t2)
  BY <1>r, Reshape
<1> HIDE DEF C, N
<1>14. /\ Shape(h2, t2, o) /\ AsSets(h2, o) = AsSets(h, o)
       /\ AsSets(h2, t2) = [size |-> t.size, used |-> t2.used,
                            table |-> [AsSets(h, t).table EXCEPT ![b] =
                                          {EntryAt(h2, p) : p \in D}]]
  BY <1>s DEF Reshaped
<1> HIDE DEF D
<1>15. {EntryAt(h2, p) : p \in D}
          = {EntryAt(h, p) : p \in C} \cup {[key |-> k, value |-> v]}
  BY <1>2, <1>4, <1>7, <1>8 DEF EntryAt
<1>16. AsSets(h, t).table[b] = {EntryAt(h, p) : p \in C} /\ b \in DOMAIN AsSets(h, t).table
  BY <1>1, BucketSet DEF C
<1>17. [AsSets(h, t).table EXCEPT ![b] = {EntryAt(h2, p) : p \in D}]
          = [AsSets(h, t).table EXCEPT ![b] = @ \cup {[key |-> k, value |-> v]}]
  BY <1>15, <1>16
<1> QED
  BY <1>5, <1>14, <1>17

\* The first entry of a bucket taken away.
Popped(h, t, b, t2) == t2 = [t EXCEPT !.table[b] = h[t.table[b]].next, !.used = @ - 1]

LEMMA PopOK ==
    ASSUME NEW h, NEW t, NEW o, Shape(h, t, o), NEW b \in DOMAIN t.table,
           NEW e, e = t.table[b], e # nil,
           NEW t2, Popped(h, t, b, t2)
    PROVE  /\ Shape(h, t2, o) /\ Nodes(h, t2, o) = Nodes(h, t, o) \ {e}
           /\ e \in Ptr /\ e \in Nodes(h, t, o)
           /\ EntryAt(h, e) \in AsSets(h, t).table[b]
           /\ AsSets(h, t2) = [size |-> t.size, used |-> t.used - 1,
                 table |-> [AsSets(h, t).table EXCEPT ![b] = @ \ {EntryAt(h, e)}]]
<1> DEFINE C == ChainIn(h, t.table[b])
           D == ChainIn(h, t2.table[b])
           N == Others(h, t, o, b)
<1>1. h \in [Ptr -> Node] /\ PtrTable(t) /\ Linking(h)
  BY HeapLinks DEF Shape
<1>2. e \in Ptr /\ h[e].next \in Ptr \cup {nil} /\ C \subseteq Nodes(h, t, o)
  BY <1>1, TableRoots DEF Nodes, Linking
<1>3. /\ t2.table[b] = h[e].next /\ t2.size = t.size /\ t2.used = t.used - 1 /\ PtrTable(t2)
      /\ \A c \in DOMAIN t.table : c # b => t2.table[c] = t.table[c]
  BY <1>1, <1>2 DEF PtrTable, Popped
<1>4. C = {e} \cup D
  BY <1>1, <1>2, <1>3, ChainStep
<1>5. e \notin D /\ \A p \in D : p \notin ChainIn(h, h[p].next)
  BY <1>2, <1>3, <1>4 DEF Shape
<1>6. \A p, q \in Nodes(h, t, o) : h[p].key = h[q].key => p = q
  BY DEF Shape
<1>n. N = Nodes(h, t, o) \ C
  BY DEF Others
<1>7. /\ \A q \in N : h[q] = h[q] /\ q \notin D
      /\ \A p, q \in D : h[p].key = h[q].key => p = q
      /\ \A p \in D, q \in N : h[p].key # h[q].key
  BY <1>2, <1>4, <1>6, <1>n
<1>r. Rewired(h, t, o, b, h, t2)
  BY <1>1, <1>3, <1>5, <1>7 DEF Rewired
<1>s. Reshaped(h, t, o, b, h, t2)
  BY <1>r, Reshape
<1> HIDE DEF C, N
<1>8. /\ Shape(h, t2, o) /\ Nodes(h, t2, o) = N \cup D
      /\ AsSets(h, t2) = [size |-> t.size, used |-> t2.used,
                          table |-> [AsSets(h, t).table EXCEPT ![b] =
                                        {EntryAt(h, p) : p \in D}]]
  BY <1>s DEF N, Reshaped
<1> HIDE DEF D
<1>9. {EntryAt(h, p) : p \in D} = {EntryAt(h, p) : p \in C} \ {EntryAt(h, e)}
  BY <1>2, <1>4, <1>5, <1>6 DEF EntryAt
<1>10. AsSets(h, t).table[b] = {EntryAt(h, p) : p \in C} /\ b \in DOMAIN AsSets(h, t).table
  BY <1>1, BucketSet DEF C
<1>11. N \cup D = Nodes(h, t, o) \ {e}
  BY <1>2, <1>4, <1>5, <1>n
<1>12. [AsSets(h, t).table EXCEPT ![b] = {EntryAt(h, p) : p \in D}]
          = [AsSets(h, t).table EXCEPT ![b] = @ \ {EntryAt(h, e)}]
  BY <1>9, <1>10
<1> QED
  BY <1>2, <1>3, <1>4, <1>8, <1>10, <1>11, <1>12


\* The entry with a key, and the pair SubDick has for it.
LEMMA KeyInBucket ==
    ASSUME NEW h, NEW t, NEW o, Shape(h, t, o), NEW b \in DOMAIN t.table,
           NEW x \in ChainIn(h, t.table[b])
    PROVE  /\ EntryAt(h, x) \in AsSets(h, t).table[b]
           /\ \A e \in AsSets(h, t).table[b] : e.key = h[x].key => e = EntryAt(h, x)
           /\ {EntryAt(h, p) : p \in ChainIn(h, t.table[b]) \ {x}}
                 = {e \in AsSets(h, t).table[b] : e.key # h[x].key}
<1> DEFINE C == ChainIn(h, t.table[b])
<1>1. h \in [Ptr -> Node] /\ PtrTable(t)
  BY DEF Shape
<1>2. C \subseteq Nodes(h, t, o)
  BY <1>1, TableRoots DEF Nodes
<1>3. \A p, q \in C : h[p].key = h[q].key => p = q
  BY <1>2 DEF Shape
<1>4. AsSets(h, t).table[b] = {EntryAt(h, p) : p \in C}
  BY <1>1, BucketSet
<1>5. \A p \in C : EntryAt(h, p).key = h[p].key
  BY DEF EntryAt
<1> HIDE DEF C
<1> QED
  BY <1>3, <1>4, <1>5 DEF C

\* Another value in an entry of a bucket.
LEMMA RewriteOK ==
    ASSUME NEW h, NEW t, NEW o, Shape(h, t, o), NEW b \in DOMAIN t.table,
           NEW x \in ChainIn(h, t.table[b]), NEW v \in Value,
           NEW h2 \in [Ptr -> Node],
           h2[x] = [key |-> h[x].key, value |-> v, next |-> h[x].next],
           \A q \in Ptr \ {x} : h2[q] = h[q]
    PROVE  /\ Shape(h2, t, o) /\ AsSets(h2, o) = AsSets(h, o)
           /\ AsSets(h2, t) = Replace(AsSets(h, t), b, h[x].key, v)
<1> DEFINE C == ChainIn(h, t.table[b])
           D == ChainIn(h2, t.table[b])
           N == Others(h, t, o, b)
<1>1. h \in [Ptr -> Node] /\ PtrTable(t) /\ Linking(h)
  BY HeapLinks DEF Shape
<1>2. t.table[b] \in Ptr \cup {nil} /\ C \subseteq Ptr /\ C \subseteq Nodes(h, t, o)
  BY <1>1, TableRoots DEF Nodes
<1>3. /\ h2[x] = [key |-> h[x].key, value |-> v, next |-> h[x].next]
      /\ \A q \in Ptr : q # x => h2[q] = h[q]
      /\ h2 \in [Ptr -> Node]
  OBVIOUS
<1>4. \A q \in Ptr : h2[q].key = h[q].key /\ h2[q].next = h[q].next
  BY <1>3
<1>5. ASSUME NEW p \in Ptr \cup {nil} PROVE ChainIn(h2, p) = ChainIn(h, p)
  <2>1. ChainIn(h, p) \subseteq Ptr /\ Linking(h2)
    BY <1>1, <1>3, ChainClosed, HeapLinks
  <2>2. LinkedAlike(h, h2, ChainIn(h, p))
    BY <1>4, <2>1 DEF LinkedAlike
  <2> QED
    BY <1>1, <2>1, <2>2, ChainFrame
<1>6. D = C
  BY <1>2, <1>5
<1>n. N = Nodes(h, t, o) \ C
  BY DEF Others
<1>7. \A q \in Nodes(h, t, o) : q \in Ptr /\ q \notin ChainIn(h, h[q].next)
  BY <1>1, NodesClosed DEF Nodes, Shape
<1>8. \A p, q \in Nodes(h, t, o) : h[p].key = h[q].key => p = q
  BY DEF Shape
<1>9. \A q \in N : h2[q] = h[q] /\ q \notin D
  BY <1>3, <1>6, <1>7, <1>n
<1>10. \A p \in D : p \notin ChainIn(h2, h2[p].next)
  <2> SUFFICES ASSUME NEW p \in C PROVE p \notin ChainIn(h2, h2[p].next)
    BY <1>6
  <2>1. h[p].next \in Ptr \cup {nil} /\ p \notin ChainIn(h, h[p].next)
    BY <1>1, <1>2, <1>7 DEF Linking
  <2> QED
    BY <1>2, <1>4, <1>5, <2>1
<1>11. /\ \A p, q \in D : h2[p].key = h2[q].key => p = q
       /\ \A p \in D, q \in N : h2[p].key # h[q].key
  BY <1>2, <1>4, <1>6, <1>8, <1>n
<1>r. Rewired(h, t, o, b, h2, t)
  BY <1>1, <1>3, <1>9, <1>10, <1>11 DEF Rewired
<1>s. Reshaped(h, t, o, b, h2, t)
  BY <1>r, Reshape
<1> HIDE DEF C, N
<1>12. /\ Shape(h2, t, o) /\ AsSets(h2, o) = AsSets(h, o)
       /\ AsSets(h2, t) = [size |-> t.size, used |-> t.used,
                           table |-> [AsSets(h, t).table EXCEPT ![b] =
                                         {EntryAt(h2, p) : p \in D}]]
  BY <1>s DEF Reshaped
<1> HIDE DEF D
<1>13. {EntryAt(h2, p) : p \in D} = {EntryAt(h, p) : p \in C \ {x}}
                                       \cup {[key |-> h[x].key, value |-> v]}
  <2>1. EntryAt(h2, x) = [key |-> h[x].key, value |-> v]
    BY <1>3 DEF EntryAt
  <2>2. \A p \in C \ {x} : EntryAt(h2, p) = EntryAt(h, p)
    BY <1>2, <1>3 DEF EntryAt
  <2>3. x \in C
    BY DEF C
  <2> QED
    BY <1>6, <2>1, <2>2, <2>3
<1>14. {EntryAt(h, p) : p \in C \ {x}}
          = {e \in AsSets(h, t).table[b] : e.key # h[x].key}
  BY KeyInBucket DEF C
<1> DEFINE T == AsSets(h, t)
<1>t. T = [size |-> T.size, used |-> T.used, table |-> T.table]
  BY DEF AsSets
<1>15. /\ T.size = t.size /\ T.used = t.used
       /\ {e \in T.table[b] : e.key # h[x].key} = {EntryAt(h, p) : p \in C \ {x}}
  BY <1>14 DEF AsSets
<1> HIDE DEF T
<1>16. Replace(T, b, h[x].key, v) = [size |-> t.size, used |-> t.used,
          table |-> [T.table EXCEPT ![b] = {EntryAt(h2, p) : p \in D}]]
  <2> DEFINE Es == {EntryAt(h2, p) : p \in D}
  <2>1. Es = {e \in T.table[b] : e.key # h[x].key} \cup {[key |-> h[x].key, value |-> v]}
    BY <1>13, <1>15
  <2> HIDE DEF Es
  <2>2. Replace(T, b, h[x].key, v) = [T EXCEPT !.table[b] = Es]
    BY <2>1 DEF Replace
  <2>3. [T EXCEPT !.table[b] = Es]
           = [size |-> T.size, used |-> T.used, table |-> [T.table EXCEPT ![b] = Es]]
    BY <1>t
  <2> QED
    BY <1>15, <2>2, <2>3 DEF Es
<1> QED
  BY <1>12, <1>16 DEF T

\* An entry taken out of its chain, wherever it is.
Passed(h, t, b, x, h2, t2) ==
    /\ h2 \in [Ptr -> Node] /\ h2[x].next = nil
    /\ \A q \in Ptr \ {x} :
          h2[q] = IF q \in ChainIn(h, t.table[b]) /\ h[q].next = x
                  THEN [h[q] EXCEPT !.next = h[x].next] ELSE h[q]
    /\ t2 = [t EXCEPT !.table[b] = IF @ = x THEN h[x].next ELSE @, !.used = @ - 1]

LEMMA UnlinkOK ==
    ASSUME NEW h, NEW t, NEW o, Shape(h, t, o), NEW b \in DOMAIN t.table,
           NEW x \in ChainIn(h, t.table[b]), NEW h2, NEW t2, Passed(h, t, b, x, h2, t2)
    PROVE  /\ Shape(h2, t2, o) /\ AsSets(h2, o) = AsSets(h, o)
           /\ AsSets(h2, t2) = Remove(AsSets(h, t), b, h[x].key)
<1> DEFINE C == ChainIn(h, t.table[b])
           D == ChainIn(h2, t2.table[b])
           N == Others(h, t, o, b)
<1>0. h2 \in [Ptr -> Node] /\ h2[x].next = nil
  BY DEF Passed
<1>1. h \in [Ptr -> Node] /\ PtrTable(t) /\ Linking(h) /\ Linking(h2)
  BY <1>0, HeapLinks DEF Shape
<1>2. t.table[b] \in Ptr \cup {nil} /\ C \subseteq Ptr /\ C \subseteq Nodes(h, t, o) /\ x \in Ptr
  BY <1>1, TableRoots DEF Nodes
<1>3. h[x].next \in Ptr \cup {nil}
  BY <1>1, <1>2 DEF Linking
<1>4. /\ t2.table[b] = IF t.table[b] = x THEN h[x].next ELSE t.table[b]
      /\ t2.size = t.size /\ t2.used = t.used - 1 /\ PtrTable(t2)
      /\ \A c \in DOMAIN t.table : c # b => t2.table[c] = t.table[c]
  BY <1>1, <1>2, <1>3 DEF PtrTable, Passed
<1>5. \A q \in Ptr \ {x} :
         /\ h2[q].key = h[q].key /\ h2[q].value = h[q].value
         /\ q \in C => h2[q].next = IF h[q].next = x THEN h[x].next ELSE h[q].next
         /\ q \notin C => h2[q] = h[q]
  BY <1>1 DEF Node, Passed
<1>6. \A q \in Nodes(h, t, o) : q \in Ptr /\ q \notin ChainIn(h, h[q].next)
  BY <1>1, NodesClosed DEF Nodes, Shape
<1>7. \A p, q \in Nodes(h, t, o) : h[p].key = h[q].key => p = q
  BY DEF Shape
<1>8. /\ D = C \ {x}
      /\ \A q \in C \cup {nil} : ChainIn(h2, q) \subseteq ChainIn(h, q)
  <2>1. x \notin ChainIn(h, h[x].next)
    BY <1>2, <1>6
  <2>2. \A q \in C \ {x} : h2[q].next = IF h[q].next = x THEN h[x].next ELSE h[q].next
    BY <1>2, <1>5
  <2> QED
    BY <1>0, <1>1, <1>2, <1>4, <2>1, <2>2, ChainUnlink
<1>n. N = Nodes(h, t, o) \ C
  BY DEF Others
<1>9. \A q \in N : h2[q] = h[q] /\ q \notin D
  BY <1>5, <1>6, <1>8, <1>n
<1>10. \A p \in D : p \notin ChainIn(h2, h2[p].next)
  <2> SUFFICES ASSUME NEW p \in C, p # x PROVE p \notin ChainIn(h2, h2[p].next)
    BY <1>8
  <2>1. p \in Ptr /\ h[p].next \in C \cup {nil} /\ p \notin ChainIn(h, h[p].next)
    BY <1>1, <1>2, <1>6, ChainWithin
  <2>2. h[x].next \in C \cup {nil} /\ ChainIn(h, h[x].next) \subseteq ChainIn(h, x)
    BY <1>1, <1>2, ChainWithin
  <2>3. h2[p].next \in C \cup {nil} /\ ChainIn(h, h2[p].next) \subseteq ChainIn(h, h[p].next)
    BY <1>5, <2>1, <2>2
  <2> QED
    BY <1>8, <2>1, <2>3
<1>11. /\ \A p, q \in D : h2[p].key = h2[q].key => p = q
       /\ \A p \in D, q \in N : h2[p].key # h[q].key
  BY <1>2, <1>5, <1>6, <1>7, <1>8, <1>n
<1>r. Rewired(h, t, o, b, h2, t2)
  BY <1>0, <1>1, <1>4, <1>9, <1>10, <1>11 DEF Rewired
<1>s. Reshaped(h, t, o, b, h2, t2)
  BY <1>r, Reshape
<1> HIDE DEF C, N
<1>12. /\ Shape(h2, t2, o) /\ AsSets(h2, o) = AsSets(h, o)
       /\ AsSets(h2, t2) = [size |-> t.size, used |-> t2.used,
                            table |-> [AsSets(h, t).table EXCEPT ![b] =
                                          {EntryAt(h2, p) : p \in D}]]
  BY <1>s DEF Reshaped
<1> HIDE DEF D
<1>13. {EntryAt(h2, p) : p \in D} = {EntryAt(h, p) : p \in C \ {x}}
  <2>1. \A p \in C \ {x} : EntryAt(h2, p) = EntryAt(h, p)
    BY <1>2, <1>5 DEF EntryAt
  <2> QED
    BY <1>8, <2>1
<1>14. {EntryAt(h, p) : p \in C \ {x}}
          = {e \in AsSets(h, t).table[b] : e.key # h[x].key}
  BY KeyInBucket DEF C
<1> DEFINE T == AsSets(h, t)
<1>t. T = [size |-> T.size, used |-> T.used, table |-> T.table]
  BY DEF AsSets
<1>15. /\ T.size = t.size /\ T.used = t.used
       /\ {e \in T.table[b] : e.key # h[x].key} = {EntryAt(h, p) : p \in C \ {x}}
  BY <1>14 DEF AsSets
<1> HIDE DEF T
<1>16. Remove(T, b, h[x].key) = [size |-> t.size, used |-> t2.used,
          table |-> [T.table EXCEPT ![b] = {EntryAt(h2, p) : p \in D}]]
  <2> DEFINE Es == {EntryAt(h2, p) : p \in D}
  <2>1. Es = {e \in T.table[b] : e.key # h[x].key}
    BY <1>13, <1>15
  <2> HIDE DEF Es
  <2>2. Remove(T, b, h[x].key) = [T EXCEPT !.table[b] = Es, !.used = T.used - 1]
    BY <2>1 DEF Remove
  <2>3. [T EXCEPT !.table[b] = Es, !.used = T.used - 1]
           = [size |-> T.size, used |-> T.used - 1, table |-> [T.table EXCEPT ![b] = Es]]
    <3> DEFINE W == [size |-> T.size, used |-> T.used, table |-> [T.table EXCEPT ![b] = Es]]
    <3>1. [T EXCEPT !.table[b] = Es] = W
      BY <1>t
    <3>2. [W EXCEPT !.used = T.used - 1]
             = [size |-> T.size, used |-> T.used - 1, table |-> [T.table EXCEPT ![b] = Es]]
      OBVIOUS
    <3>3. [T EXCEPT !.table[b] = Es, !.used = T.used - 1]
             = [[T EXCEPT !.table[b] = Es] EXCEPT !.used = T.used - 1]
      OBVIOUS
    <3> QED
      BY <3>1, <3>2, <3>3, Zenon
  <2> QED
    BY <1>4, <1>15, <2>2, <2>3 DEF Es
<1> QED
  BY <1>12, <1>16 DEF T

----------------------------------------------------------------------------
(* Part 3: the operators of SubDick on the chains *)

\* A bucket points to nothing when its set is empty.
LEMMA EmptyBucket ==
    ASSUME NEW h, NEW t, NEW o, Shape(h, t, o), NEW b \in DOMAIN t.table
    PROVE  t.table[b] = nil <=> AsSets(h, t).table[b] = {}
<1>1. h \in [Ptr -> Node] /\ PtrTable(t)
  BY DEF Shape
<1>2. AsSets(h, t).table[b] = {EntryAt(h, p) : p \in ChainIn(h, t.table[b])}
  BY <1>1, BucketSet
<1>3. t.table[b] \in Ptr \cup {nil} /\ Linking(h)
  BY <1>1, TableRoots, HeapLinks
<1>4. t.table[b] = nil <=> ChainIn(h, t.table[b]) = {}
  BY <1>3, NilChain, ChainClosed
<1> QED
  BY <1>2, <1>4

\* A new table has no chains.
LEMMA NewTableEmpty ==
    ASSUME NEW h, NEW n \in Nat
    PROVE  /\ PtrTable(NewTable(n)) /\ AsSets(h, NewTable(n)) = NewDickTable(n)
           /\ NodesIn(h, NewTable(n)) = {} /\ Apart(h, NewTable(n))
<1> DEFINE t == NewTable(n)
<1>1. /\ t.size = n /\ t.used = 0 /\ t.table = [b \in 0..n-1 |-> nil]
      /\ PtrTable(t) /\ DOMAIN t.table = 0..n-1
  BY DEF NewTable, PtrTable
<1>2. \A b \in 0..n-1 : t.table[b] = nil /\ ChainIn(h, t.table[b]) = {}
  BY <1>1, NilChain
<1> HIDE DEF t
<1>3. \A b \in 0..n-1 : {EntryAt(h, p) : p \in ChainIn(h, t.table[b])} = {}
  BY <1>2
<1>4. AsSets(h, t) = NewDickTable(n)
  BY <1>1, <1>3 DEF AsSets, NewDickTable
<1> QED
  BY <1>1, <1>2, <1>4 DEF t, NodesIn, Apart

\* A table alone.
LEMMA ShapeAlone ==
    ASSUME NEW h, NEW t, NEW o, Shape(h, t, o), NEW n \in Nat
    PROVE  Shape(h, t, NewTable(n)) /\ Shape(h, o, NewTable(n))
<1>1. PtrTable(NewTable(n)) /\ NodesIn(h, NewTable(n)) = {} /\ Apart(h, NewTable(n))
  BY NewTableEmpty
<1>2. Nodes(h, t, NewTable(n)) \subseteq Nodes(h, t, o)
      /\ Nodes(h, o, NewTable(n)) \subseteq Nodes(h, t, o)
  BY <1>1 DEF Nodes
<1> QED
  BY <1>1, <1>2 DEF Shape

\* A search of a chain finds what a search of the set finds.
LEMMA SearchChain ==
    ASSUME NEW t, NEW o, Shape(heap, t, o), hasher \in Hash, NEW k \in Key,
           TableTypeOK(AsSets(heap, t)),
           NEW T, T = AsSets(heap, t), NEW b, b = Index(hasher, k, t)
    PROVE  /\ Index(hasher, k, T) = b
           /\ t.size # 0 => b \in DOMAIN t.table
           /\ Has(k, t) <=> t.size # 0 /\ Holds(T, b, k)
           /\ Has(k, t) => LET x == Find(k, t) IN
                 /\ x \in ChainIn(heap, t.table[b]) /\ heap[x].key = k
                 /\ heap[x].value = ValueIn(T, b, k)
<1>1. heap \in [Ptr -> Node] /\ PtrTable(t)
  BY DEF Shape
<1>2. T.size = t.size /\ DOMAIN t.table = 0..t.size-1
  BY <1>1 DEF AsSets, PtrTable
<1>3. Index(hasher, k, T) = b
  BY <1>2 DEF Index
<1>4. t.size # 0 => b \in DOMAIN t.table
  BY <1>2, <1>3, IndexInTable
<1>5. CASE t.size = 0
  BY <1>3, <1>5, NilChain DEF Has, Bucket, Chain
<1>6. CASE t.size # 0
  <2> DEFINE C == ChainIn(heap, t.table[b])
  <2>1. Chain(Bucket(k, t)) = C
    BY <1>6 DEF Bucket, Chain
  <2>2. T.table[b] = {EntryAt(heap, p) : p \in C}
    BY <1>1, <1>4, <1>6, BucketSet
  <2>3. \A p \in C : EntryAt(heap, p).key = heap[p].key
    BY DEF EntryAt
  <2> HIDE DEF C
  <2>4. Has(k, t) <=> Holds(T, b, k)
    BY <2>1, <2>2, <2>3 DEF Has, Holds
  <2>5. ASSUME Has(k, t)
        PROVE  LET x == Find(k, t) IN
               x \in C /\ heap[x].key = k /\ heap[x].value = ValueIn(T, b, k)
    <3> DEFINE x == Find(k, t)
    <3>1. x \in C /\ heap[x].key = k
      BY <2>1, <2>5 DEF Has, Find
    <3> HIDE DEF x
    <3>2. /\ EntryAt(heap, x) \in T.table[b]
          /\ \A e \in T.table[b] : e.key = k => e = EntryAt(heap, x)
      BY <1>4, <1>6, <3>1, KeyInBucket DEF C
    <3>3. (CHOOSE e \in T.table[b] : e.key = k) = EntryAt(heap, x)
      BY <3>1, <3>2 DEF EntryAt
    <3>4. heap[x].value = ValueIn(T, b, k)
      <4>1. EntryAt(heap, x).value = heap[x].value
        BY DEF EntryAt
      <4>2. ValueIn(T, b, k) = EntryAt(heap, x).value
        BY <3>3, Zenon DEF ValueIn
      <4> QED
        BY <4>1, <4>2
    <3> QED
      BY <3>1, <3>4 DEF x
  <2> QED
    BY <1>3, <1>4, <1>6, <2>4, <2>5 DEF C
<1> QED
  BY <1>5, <1>6

\* What is reached has the keys SubDick knows of.
LEMMA KeysOfNodes ==
    ASSUME NEW h, NEW t, NEW o, Shape(h, t, o),
           TableTypeOK(AsSets(h, t)), TableTypeOK(AsSets(h, o)), NEW p \in Nodes(h, t, o)
    PROVE  /\ h[p].key \in KeysIn(AsSets(h, t)) \cup KeysIn(AsSets(h, o))
           /\ EntryAt(h, p) \in Entry /\ p \in Ptr
<1>1. ASSUME NEW u, PtrTable(u), TableTypeOK(AsSets(h, u)), p \in NodesIn(h, u)
      PROVE  /\ h[p].key \in KeysIn(AsSets(h, u)) /\ EntryAt(h, p) \in Entry
             /\ p \in Ptr
  <2>1. PICK b \in DOMAIN u.table : p \in ChainIn(h, u.table[b])
    BY <1>1 DEF NodesIn
  <2>2. /\ b \in DOMAIN AsSets(h, u).table
        /\ EntryAt(h, p) \in AsSets(h, u).table[b]
    BY <1>1, <2>1, BucketSet
  <2>3. AsSets(h, u).table[b] \subseteq Entry /\ EntryAt(h, p) \in Entries(AsSets(h, u))
    BY <1>1, <2>2 DEF TableTypeOK, Entries
  <2>4. EntryAt(h, p).key = h[p].key
    BY DEF EntryAt
  <2>5. p \in Ptr
    BY <1>1, NodesClosed DEF Shape
  <2> QED
    BY <2>2, <2>3, <2>4, <2>5 DEF KeysIn
<1>2. PtrTable(t) /\ PtrTable(o)
  BY DEF Shape
<1> QED
  BY <1>1, <1>2 DEF Nodes

\* While a key has no entry, an address is free.
LEMMA FreeEntry ==
    ASSUME NEW h, NEW t, NEW o, Shape(h, t, o), NEW k \in Key,
           \A p \in Nodes(h, t, o) : p \in Ptr /\ h[p].key \in Key \ {k}
    PROVE  Ptr \ Nodes(h, t, o) # {}
<1> DEFINE N == Nodes(h, t, o)
<1> SUFFICES ASSUME Ptr \subseteq N PROVE FALSE
  OBVIOUS
<1>1. /\ IsFiniteSet(Ptr) /\ IsFiniteSet(Key) /\ Cardinality(Ptr) >= Cardinality(Key)
      /\ Cardinality(Ptr) \in Nat /\ Cardinality(Key) \in Nat
  BY ChainAssumption, SizesAssumption, FS_CardinalityType
<1>2. IsFiniteSet(Key \ {k}) /\ Cardinality(Key \ {k}) = Cardinality(Key) - 1
  BY <1>1, FS_RemoveElement
<1> DEFINE f == [p \in Ptr |-> h[p].key]
<1>3. \A p, q \in N : h[p].key = h[q].key => p = q
  BY DEF Shape
<1>4. f \in Injection(Ptr, Key \ {k})
  BY <1>3 DEF Injection, IsInjective
<1>5. Cardinality(Ptr) <= Cardinality(Key \ {k})
  BY <1>1, <1>2, <1>4, FS_Injection
<1> QED
  BY <1>1, <1>2, <1>5


\* S has the operators of DickOps.
LEMMA SameSearch ==
    ASSUME NEW h, NEW k, NEW v, NEW d
    PROVE  /\ S!Finds(h, k, d) = Finds(h, k, d) /\ S!get(h, k, d) = get(h, k, d)
           /\ S!overwrite(h, k, v, d) = overwrite(h, k, v, d)
           /\ S!NewSubDICK = NewSubDICK
<1>1. ASSUME NEW t PROVE S!Index(h, k, t) = Index(h, k, t)
  BY DEF S!Index, Index
<1>2. ASSUME NEW t, NEW b PROVE S!Holds(t, b, k) = Holds(t, b, k)
  BY DEF S!Holds, Holds
<1>3. /\ S!InMain(h, k, d) = InMain(h, k, d) /\ S!InRehashing(h, k, d) = InRehashing(h, k, d)
      /\ S!BothEmpty(d) = BothEmpty(d)
  BY DEF S!InMain, InMain, S!InRehashing, InRehashing, S!BothEmpty, BothEmpty,
         S!isRehashing, isRehashing, S!Index, Index, S!Holds, Holds
<1>4. S!Finds(h, k, d) = Finds(h, k, d)
  BY <1>3 DEF S!Finds, Finds
<1>5. S!get(h, k, d) = get(h, k, d)
  BY <1>3 DEF S!get, get, S!ValueIn, ValueIn, S!Index, Index
<1>6. S!overwrite(h, k, v, d) = overwrite(h, k, v, d)
  BY <1>3 DEF S!overwrite, overwrite, S!Replace, Replace, S!Index, Index
<1>7. S!NewSubDICK = NewSubDICK
  BY DEF S!NewSubDICK, NewSubDICK, S!NewDickTable, NewDickTable
<1> QED
  BY <1>4, <1>5, <1>6, <1>7

LEMMA SameStep ==
    ASSUME NEW h, NEW d
    PROVE  /\ S!expandIfNeeded(d) = expandIfNeeded(d)
           /\ S!rehashStep(h, d) = rehashStep(h, d)
<1>1. \A n : S!nextPower(n) = nextPower(n) /\ S!NewDickTable(n) = NewDickTable(n)
  <2>1. S!Pow2 = Pow2 /\ S!Bit = Bit
    BY DEF S!Pow2, Pow2, S!Bit, Bit
  <2>2. S!NumberOf = NumberOf /\ S!BitsOf = BitsOf
    BY <2>1 DEF S!NumberOf, NumberOf, S!BitsOf, BitsOf
  <2>3. \A B, s : S!orShifted(B, s) = orShifted(B, s)
    BY <2>1 DEF S!orShifted, orShifted
  <2>4. \A B : S!Smeared(B) = Smeared(B)
    BY <2>3 DEF S!Smeared, Smeared
  <2>5. \A n : S!nextPower(n) = nextPower(n)
    BY <2>2, <2>4 DEF S!nextPower, nextPower
  <2> QED
    BY <2>5 DEF S!NewDickTable, NewDickTable
<1>2. \A n : S!expand(d, n) = expand(d, n)
  BY <1>1 DEF S!expand, expand, S!isRehashing, isRehashing
<1>3. S!expandIfNeeded(d) = expandIfNeeded(d)
  BY <1>2 DEF S!expandIfNeeded, expandIfNeeded, S!isRehashing, isRehashing
<1>4. \A x : S!Finish(x) = Finish(x)
  BY <1>1 DEF S!Finish, Finish
<1>5. S!Reachable(d) = Reachable(d) /\ S!FirstReachable(d) = FirstReachable(d)
  BY DEF S!Reachable, Reachable, S!FirstReachable, FirstReachable
<1>6. ASSUME NEW b PROVE S!MoveBucket(h, d, b) = MoveBucket(h, d, b)
  <2>1. \A s : S!Cardinality(s) = Cardinality(s)
    BY Zenon DEF S!Cardinality, Cardinality
  <2> QED
    BY <2>1, Zenon DEF S!MoveBucket, MoveBucket, S!Index, Index
<1>7. S!rehashStep(h, d) = rehashStep(h, d)
  BY <1>4, <1>5, <1>6 DEF S!rehashStep, rehashStep, S!isRehashing, isRehashing
<1> QED
  BY <1>3, <1>7

LEMMA SameChanges ==
    ASSUME NEW h, NEW k, NEW v, NEW d
    PROVE  /\ S!add(h, k, v, d) = add(h, k, v, d) /\ S!addFails(h, k, d) = addFails(h, k, d)
           /\ S!del(h, k, d) = del(h, k, d) /\ S!delFinds(h, k, d) = delFinds(h, k, d)
<1>1. /\ S!expandIfNeeded(d) = expandIfNeeded(d)
      /\ \A x : S!rehashStep(h, x) = rehashStep(h, x)
      /\ S!BothEmpty(d) = BothEmpty(d)
  BY SameStep DEF S!BothEmpty, BothEmpty
<1>2. \A x : /\ S!keyIndex(h, k, x) = keyIndex(h, k, x)
             /\ S!InRehashing(h, k, x) = InRehashing(h, k, x)
  BY DEF S!keyIndex, keyIndex, S!InRehashing, InRehashing, S!isRehashing, isRehashing,
         S!Index, Index, S!Holds, Holds
<1>3. \A t, b : S!Insert(t, b, k, v) = Insert(t, b, k, v) /\ S!Remove(t, b, k) = Remove(t, b, k)
  BY DEF S!Insert, Insert, S!Remove, Remove, S!Holds, Holds
<1>4. S!add(h, k, v, d) = add(h, k, v, d)
  BY <1>1, <1>2, <1>3 DEF S!add, add, S!isRehashing, isRehashing
<1>5. S!addFails(h, k, d) = addFails(h, k, d)
  BY <1>1, <1>2 DEF S!addFails, addFails
<1>6. S!del(h, k, d) = del(h, k, d)
  BY <1>1, <1>2, <1>3 DEF S!del, del, S!Index, Index, S!Holds, Holds
<1>7. S!delFinds(h, k, d) = delFinds(h, k, d)
  BY <1>1, <1>2 DEF S!delFinds, delFinds, S!Index, Index, S!Holds, Holds
<1> QED
  BY <1>4, <1>5, <1>6, <1>7

----------------------------------------------------------------------------
(* Part 4: the steps of a call *)

LEMMA CallOK ==
    ASSUME IInv, pc # "idle"
    PROVE  /\ call.key \in Key /\ call.op \in {"Get", "Set", "Del"}
           /\ call.op = "Set" => call.value \in Value
           /\ DickOK(hasher, before) /\ DickOK(hasher, base)
           /\ isRehashing(before) => base = before
           /\ call.op = "Set" => base.main.size # 0
           /\ hasher \in Hash
<1>1. call \in Calls /\ DickOK(hasher, before) /\ hasher \in Hash
  BY DEF IInv, Control
<1>2. /\ call.key \in Key /\ call.op \in {"Get", "Set", "Del"}
      /\ call.op = "Set" => call.value \in Value
  BY <1>1 DEF Calls
<1>3. /\ DickOK(hasher, expandIfNeeded(before)) /\ expandIfNeeded(before).main.size # 0
      /\ isRehashing(before) => expandIfNeeded(before) = before
  BY <1>1, ExpandOK
<1> QED
  BY <1>1, <1>2, <1>3 DEF base

LEMMA DickTypes ==
    ASSUME NEW h, NEW d, DickOK(h, d)
    PROVE  /\ TableTypeOK(d.main) /\ TableTypeOK(d.rehashing)
           /\ d = [main |-> d.main, rehashing |-> d.rehashing, rehashidx |-> d.rehashidx]
           /\ d.rehashidx \in Nat \cup {-1}
           /\ ~isRehashing(d) => d.rehashing = NewDickTable(0)
BY DEF DickOK, TableOK, CursorOK

\* Between the moves the main table is what it is.
LEMMA NoMove ==
    ASSUME pc # "move"
    PROVE  Live = main /\ LiveDick = AsDick
BY DEF Live, LiveDick, AsDick

LEMMA Parts ==
    /\ AsDick.main = AsSets(heap, main) /\ AsDick.rehashing = AsSets(heap, rehashing)
    /\ AsDick.rehashidx = rehashidx
    /\ AsDick.main.used = main.used /\ AsDick.rehashing.used = rehashing.used
    /\ AsDick.main.size = main.size /\ AsDick.rehashing.size = rehashing.size
    /\ Rehashing <=> isRehashing(AsDick)
    /\ bothEmpty <=> BothEmpty(AsDick)
BY DEF AsDick, AsSets, Rehashing, isRehashing, bothEmpty, BothEmpty

LEMMA TablesStay ==
    ASSUME pc # "move", pc' # "move", UNCHANGED tables
    PROVE  Live' = Live /\ LiveDick' = LiveDick
BY DEF tables, Live, LiveDick

\* What the chains are searched for is what SubDick searches its sets for.
LEMMA FoundOK ==
    ASSUME Shape(heap, main, rehashing), hasher \in Hash, DickOK(hasher, AsDick),
           NEW k \in Key
    PROVE  /\ Has(k, main) <=> InMain(hasher, k, AsDick)
           /\ Rehashing /\ Has(k, rehashing) <=> InRehashing(hasher, k, AsDick)
           /\ found(k) <=> Finds(hasher, k, AsDick)
           /\ found(k) => heap[foundAt(k)].value = get(hasher, k, AsDick)
<1> DEFINE d == AsDick
           M == AsSets(heap, main)
           R == AsSets(heap, rehashing)
           b == Index(hasher, k, main)
           c == Index(hasher, k, rehashing)
<1>1. /\ d.main = M /\ d.rehashing = R /\ M.size = main.size /\ R.size = rehashing.size
      /\ Rehashing <=> isRehashing(d)
      /\ bothEmpty <=> BothEmpty(d)
  BY Parts
<1>2. TableTypeOK(M) /\ TableTypeOK(R) /\ Shape(heap, rehashing, main)
  BY <1>1, DickTypes, ShapeTurns
<1>3. /\ Index(hasher, k, M) = b
      /\ Has(k, main) <=> main.size # 0 /\ Holds(M, b, k)
      /\ Has(k, main) => heap[Find(k, main)].value = ValueIn(M, b, k)
  BY <1>2, SearchChain
<1>4. /\ Index(hasher, k, R) = c
      /\ Has(k, rehashing) <=> rehashing.size # 0 /\ Holds(R, c, k)
      /\ Has(k, rehashing) => heap[Find(k, rehashing)].value = ValueIn(R, c, k)
  BY <1>2, SearchChain
<1> HIDE DEF d, M, R, b, c
<1>5. Has(k, main) <=> InMain(hasher, k, d)
  BY <1>1, <1>3 DEF InMain
<1>6. Rehashing /\ Has(k, rehashing) <=> InRehashing(hasher, k, d)
  BY <1>1, <1>4 DEF InRehashing
<1>7. found(k) <=> Finds(hasher, k, d)
  BY <1>1, <1>5, <1>6 DEF found, Finds
<1>8. found(k) => heap[foundAt(k)].value = get(hasher, k, d)
  BY <1>1, <1>3, <1>4, <1>5, <1>6 DEF found, foundAt, get
<1> QED
  BY <1>5, <1>6, <1>7, <1>8 DEF d

\* Get reads what SubDick reads.
LEMMA GetStep ==
    ASSUME IInv, Get
    PROVE  /\ IInv' /\ AsDick' = before /\ call.key \in Key
           /\ reply' = [op |-> "Get", key |-> call.key,
                        ret |-> IF Finds(hasher, call.key, before)
                                THEN get(hasher, call.key, before) ELSE Nil]
<1>1. pc = "search" /\ call.op = "Get" /\ pc' = "idle" /\ UNCHANGED <<tables, hasher>>
  BY DEF Get, Return
<1>2. /\ Shape(heap, main, rehashing) /\ AsDick = before
      /\ LiveDick' = LiveDick /\ Live' = Live /\ LiveDick = AsDick
      /\ hasher \in Hash /\ DickOK(hasher, before) /\ call.key \in Key
  BY <1>1, NoMove, TablesStay, CallOK DEF IInv, Control
<1>3. IInv'
  BY <1>1, <1>2 DEF IInv, Control, tables
<1>4. AsDick' = before
  BY <1>1, <1>2 DEF AsDick, tables
<1>5. /\ found(call.key) <=> Finds(hasher, call.key, before)
      /\ found(call.key) => heap[foundAt(call.key)].value = get(hasher, call.key, before)
  BY <1>2, FoundOK
<1> QED
  BY <1>1, <1>2, <1>3, <1>4, <1>5 DEF Get, Return


\* The call begins.
LEMMA InvokeStep ==
    ASSUME IInv, NEW c \in Calls, Invoke(c)
    PROVE  IInv' /\ before' = AsDick
<1>1. /\ pc = "idle" /\ pc' = "search" /\ call' = c /\ before' = AsDick
      /\ UNCHANGED <<tables, hasher>>
  BY DEF Invoke
<1>2. Live' = Live /\ LiveDick' = LiveDick /\ LiveDick = AsDick
  BY <1>1, NoMove, TablesStay
<1> QED
  BY <1>1, <1>2 DEF IInv, Control, tables

\* The value set is in the entry the search found.
LEMMA SetValueStep ==
    ASSUME IInv, SetValue
    PROVE  /\ IInv' /\ Finds(hasher, call.key, before)
           /\ AsDick' = overwrite(hasher, call.key, call.value, before)
<1> DEFINE k == call.key
           v == call.value
           x == foundAt(k)
           M == AsSets(heap, main)
           R == AsSets(heap, rehashing)
           o == overwrite(hasher, k, v, before)
<1>1. /\ pc = "search" /\ call.op = "Set" /\ pc' = "idle" /\ found(k)
      /\ heap' = [heap EXCEPT ![x].value = v]
      /\ UNCHANGED <<main, rehashing, rehashidx, hasher>>
  BY DEF SetValue, Return
<1>2. /\ Shape(heap, main, rehashing) /\ AsDick = before /\ Shape(heap, rehashing, main)
      /\ hasher \in Hash /\ DickOK(hasher, before) /\ k \in Key /\ v \in Value
      /\ PtrTable(main)
  BY <1>1, NoMove, CallOK, ShapeTurns DEF IInv, Control
<1>3. before = [main |-> M, rehashing |-> R, rehashidx |-> rehashidx]
  BY <1>2 DEF AsDick
<1>4. TableTypeOK(M) /\ TableTypeOK(R)
  BY <1>2, <1>3, DickTypes
<1>5. /\ Finds(hasher, k, before)
      /\ Has(k, main) <=> InMain(hasher, k, before)
      /\ ~Has(k, main) => Has(k, rehashing)
  BY <1>1, <1>2, FoundOK DEF found
<1> HIDE DEF x
<1>h. ASSUME x \in Ptr
      PROVE  /\ heap' \in [Ptr -> Node]
             /\ heap'[x] = [key |-> heap[x].key, value |-> v, next |-> heap[x].next]
             /\ \A q \in Ptr \ {x} : heap'[q] = heap[q]
  BY <1>1, <1>2, <1>h DEF Shape, Node
<1>6. /\ Shape(heap', main, rehashing)
      /\ [main |-> AsSets(heap', main), rehashing |-> AsSets(heap', rehashing),
          rehashidx |-> rehashidx] = o
  <2>1. CASE Has(k, main)
    <3> DEFINE b == Index(hasher, k, main)
    <3>1. /\ b \in DOMAIN main.table /\ Index(hasher, k, M) = b
          /\ x \in ChainIn(heap, main.table[b]) /\ heap[x].key = k
      BY <1>2, <1>4, <2>1, SearchChain DEF foundAt, x
    <3> HIDE DEF b
    <3>2. /\ Shape(heap', main, rehashing) /\ AsSets(heap', rehashing) = R
          /\ AsSets(heap', main) = Replace(M, b, k, v)
      <4>1. x \in Ptr
        BY <1>2, <3>1, TableRoots DEF Shape
      <4> QED
        BY <1>2, <1>h, <3>1, <4>1, RewriteOK
    <3>3. o = [before EXCEPT !.main = Replace(M, b, k, v)]
      BY <1>3, <1>5, <2>1, <3>1 DEF overwrite
    <3> HIDE DEF o, M, R
    <3> QED
      BY <1>3, <3>2, <3>3
  <2>2. CASE ~Has(k, main)
    <3> DEFINE b == Index(hasher, k, rehashing)
    <3>1. /\ b \in DOMAIN rehashing.table /\ Index(hasher, k, R) = b
          /\ x \in ChainIn(heap, rehashing.table[b]) /\ heap[x].key = k
      BY <1>2, <1>4, <1>5, <2>2, SearchChain DEF foundAt, x
    <3> HIDE DEF b
    <3>2. /\ Shape(heap', rehashing, main) /\ AsSets(heap', main) = M
          /\ AsSets(heap', rehashing) = Replace(R, b, k, v)
      <4>1. x \in Ptr
        BY <1>2, <3>1, TableRoots DEF Shape
      <4> QED
        BY <1>2, <1>h, <3>1, <4>1, RewriteOK
    <3>3. o = [before EXCEPT !.rehashing = Replace(R, b, k, v)]
      BY <1>3, <1>5, <2>2, <3>1 DEF overwrite
    <3>4. Shape(heap', main, rehashing)
      BY <3>2, ShapeTurns
    <3> HIDE DEF o, M, R
    <3> QED
      BY <1>3, <3>2, <3>3, <3>4
  <2> QED
    BY <2>1, <2>2
<1>7. AsDick' = o /\ Shape(heap', main', rehashing')
  BY <1>1, <1>6 DEF AsDick
<1>8. Live' = main' /\ LiveDick' = AsDick' /\ PtrTable(main')
  BY <1>1, <1>2 DEF Live, LiveDick, AsDick
<1>9. DickOK(hasher, o)
  BY <1>2, <1>5, OverwriteOK
<1> HIDE DEF o
<1>10. IInv'
  BY <1>1, <1>2, <1>7, <1>8, <1>9 DEF IInv, Control
<1> QED
  BY <1>5, <1>7, <1>10 DEF o

\* The table an expansion makes.
LEMMA ExpandStep ==
    ASSUME IInv, Expand
    PROVE  IInv' /\ before' = before
<1> DEFINE M == AsSets(heap, main)
           R == AsSets(heap, rehashing)
           e == expandIfNeeded(before)
<1>1. /\ pc = "search" /\ pc' = "index" /\ call.op = "Set" /\ ~found(call.key)
      /\ UNCHANGED <<heap, hasher, call, before>>
  BY DEF Expand, Goto, Same
<1>2. /\ Shape(heap, main, rehashing) /\ AsDick = before /\ PtrTable(main)
      /\ hasher \in Hash /\ DickOK(hasher, before) /\ call.key \in Key
  BY <1>1, NoMove, CallOK DEF IInv, Control
<1>3. before = [main |-> M, rehashing |-> R, rehashidx |-> rehashidx]
  BY <1>2 DEF AsDick
<1>4. ~Finds(hasher, call.key, before)
  BY <1>1, <1>2, FoundOK
<1>5. M.size = main.size /\ M.used = main.used /\ (Rehashing <=> isRehashing(before))
  BY <1>2, Parts DEF AsSets
<1>6. main.size \in Nat /\ main.used \in Nat /\ main.used <= Cardinality(Key)
      /\ Cardinality(Key) \in Nat
  BY <1>2, <1>3, <1>5, Counters
<1>7. base = e /\ base' = e
  BY <1>1 DEF base
<1>8. /\ Shape(heap, main', rehashing') /\ PtrTable(main')
      /\ [main |-> AsSets(heap, main'), rehashing |-> AsSets(heap, rehashing'),
          rehashidx |-> rehashidx'] = e
  <2>1. CASE Rehashing \/ (main.size # 0 /\ main.used < main.size)
    <3>1. UNCHANGED <<main, rehashing, rehashidx>>
      BY <2>1 DEF Expand
    <3>2. e = before
      BY <1>3, <1>5, <1>6, <2>1 DEF expandIfNeeded
    <3> QED
      BY <1>2, <1>3, <3>1, <3>2
  <2>2. CASE ~Rehashing /\ main.size = 0
    <3> DEFINE n == nextPower(INITIAL_SIZE)
    <3>1. main' = NewTable(n) /\ UNCHANGED <<rehashing, rehashidx>>
      BY <2>2 DEF Expand
    <3>2. n = INITIAL_SIZE /\ n \in Nat \ {0}
      BY SizesAreNaturals DEF nextPower
    <3>3. e = expand(before, INITIAL_SIZE)
      BY <1>3, <1>5, <2>2 DEF expandIfNeeded
    <3>4. main.used = 0
      <4>1. M.size = 0 /\ TableTypeOK(M) /\ UsedExact(M) /\ M.size \in Nat
        BY <1>2, <1>3, <1>5, <1>6, <2>2 DEF DickOK, TableOK
      <4>2. DOMAIN M.table = {}
        BY <4>1 DEF TableTypeOK
      <4>3. KeysIn(M) = {}
        BY <4>2 DEF KeysIn, Entries
      <4> QED
        BY <1>5, <4>1, <4>3, FS_EmptySet DEF UsedExact
    <3>5. e = [before EXCEPT !.main = NewDickTable(n)]
      <4>1. before.main.used = 0 /\ before.main.size = 0 /\ ~isRehashing(before)
        BY <1>3, <1>5, <2>2, <3>4
      <4> QED
        BY <3>2, <3>3, <4>1 DEF expand
    <3> HIDE DEF n, e, M, R
    <3>6. AsSets(heap, main') = NewDickTable(n) /\ main' = NewTable(n) /\ PtrTable(main')
      BY <3>1, <3>2, NewTableEmpty
    <3>7. Shape(heap, main', rehashing)
      BY <1>2, <3>2, <3>6, ShapeAlone, ShapeTurns
    <3> QED
      BY <1>3, <3>1, <3>5, <3>6, <3>7 DEF R
  <2>3. CASE ~Rehashing /\ main.size # 0 /\ ~(main.used < main.size)
    <3> DEFINE n == nextPower(2 * main.used)
    <3>1. rehashing' = NewTable(n) /\ rehashidx' = 0 /\ UNCHANGED main
      BY <2>3 DEF Expand
    <3>2. 2 * main.used \in 1..2 * Cardinality(Key) /\ 2 * main.used > main.used
      BY <1>6, <2>3
    <3>3. n \in Nat \ {0} /\ 2 * main.used <= n
      BY <3>2, NextPowerOK
    <3>4. e = expand(before, 2 * main.used)
      <4>1. /\ ~isRehashing(before) /\ before.main.size # 0
            /\ before.main.used >= before.main.size /\ before.main.used = main.used
        BY <1>3, <1>5, <1>6, <2>3
      <4> QED
        BY <4>1 DEF expandIfNeeded
    <3>5. e = [before EXCEPT !.rehashing = NewDickTable(n), !.rehashidx = 0]
      <4>1. /\ before.main.used = main.used /\ before.main.size # 0 /\ ~isRehashing(before)
            /\ ~(main.used > 2 * main.used) /\ ~(main.used >= n)
        BY <1>3, <1>5, <1>6, <2>3, <3>2, <3>3
      <4> QED
        BY <3>4, <4>1 DEF expand
    <3> HIDE DEF n, e, M, R
    <3>6. AsSets(heap, rehashing') = NewDickTable(n) /\ rehashing' = NewTable(n)
      BY <3>1, <3>3, NewTableEmpty
    <3>7. Shape(heap, main, rehashing')
      BY <1>2, <3>3, <3>6, ShapeAlone
    <3> QED
      BY <1>2, <1>3, <3>1, <3>5, <3>6, <3>7 DEF M
  <2> QED
    BY <2>1, <2>2, <2>3
<1> HIDE DEF e
<1>9. Live' = main' /\ LiveDick' = e
  BY <1>1, <1>8 DEF Live, LiveDick
<1>10. Searched'
  BY <1>1, <1>4 DEF Searched
<1> QED
  BY <1>1, <1>2, <1>7, <1>8, <1>9, <1>10 DEF IInv, Control


\* A call that adds has met no entry of its key, and none comes up.
LEMMA SearchedOK ==
    ASSUME IInv, pc # "idle", Searched
    PROVE  /\ base = expandIfNeeded(before)
           /\ call.key \notin AllKeys(base) /\ AllKeys(base) = AllKeys(before)
           /\ ~InMain(hasher, call.key, base) /\ ~InRehashing(hasher, call.key, base)
           /\ keyIndex(hasher, call.key, base)
                 = IF isRehashing(base) THEN Index(hasher, call.key, base.rehashing)
                   ELSE Index(hasher, call.key, base.main)
           /\ keyIndex(hasher, call.key, base) # -1
<1> DEFINE k == call.key
<1>1. /\ k \in Key /\ DickOK(hasher, before) /\ DickOK(hasher, base)
      /\ base.main.size # 0 /\ base = expandIfNeeded(before) /\ hasher \in Hash
  BY CallOK DEF Searched, base
<1>2. AllKeys(base) = AllKeys(before) /\ k \notin AllKeys(before)
  BY <1>1, ExpandOK, SearchOK DEF Searched
<1>3. ~InMain(hasher, k, base) /\ ~InRehashing(hasher, k, base)
  BY <1>1, <1>2, SearchOK DEF AllKeys
<1>4. /\ TableTypeOK(base.main) /\ TableTypeOK(base.rehashing)
      /\ isRehashing(base) => base.rehashing.size # 0
  BY <1>1, Counters DEF DickOK, TableOK, CursorOK
<1>5. keyIndex(hasher, k, base)
         = IF isRehashing(base) THEN Index(hasher, k, base.rehashing)
           ELSE Index(hasher, k, base.main)
  BY <1>1, <1>3, <1>4 DEF keyIndex, InMain, InRehashing
<1>6. /\ Index(hasher, k, base.main) \in Nat
      /\ isRehashing(base) => Index(hasher, k, base.rehashing) \in Nat
  BY <1>1, <1>4, IndexInTable, Counters
<1> QED
  BY <1>1, <1>2, <1>3, <1>5, <1>6

LEMMA KeyIndexStep ==
    ASSUME IInv, KeyIndex
    PROVE  IInv' /\ before' = before /\ pc' # "idle"
<1> DEFINE k == call.key
<1>1. pc = "index" /\ UNCHANGED tables
  BY DEF KeyIndex
<1>2. /\ Shape(heap, main, rehashing) /\ AsDick = base /\ Searched
      /\ hasher \in Hash /\ DickOK(hasher, base) /\ k \in Key
  BY <1>1, NoMove, CallOK DEF IInv, Control
<1>3. /\ ~Has(k, main) /\ ~(Rehashing /\ Has(k, rehashing))
      /\ keyIndex(hasher, k, base)
            = IF isRehashing(base) THEN Index(hasher, k, base.rehashing)
              ELSE Index(hasher, k, base.main)
      /\ keyIndex(hasher, k, base) # -1
  BY <1>1, <1>2, FoundOK, SearchedOK
<1>4. /\ X' = Index(hasher, k, IF Rehashing THEN rehashing ELSE main)
      /\ pc' = IF Rehashing THEN "rehash" ELSE "add"
      /\ UNCHANGED <<hasher, call, before>>
  BY <1>1, <1>3 DEF KeyIndex, Same
<1>5. /\ base.main.size = main.size /\ base.rehashing.size = rehashing.size
      /\ Rehashing <=> isRehashing(base)
  BY <1>2, Parts
<1>6. X' = keyIndex(hasher, k, base)
  BY <1>3, <1>4, <1>5 DEF Index
<1>7. /\ Live' = Live /\ LiveDick' = LiveDick /\ LiveDick = base /\ base' = base
      /\ UNCHANGED <<main, rehashing, heap, rehashidx>>
  BY <1>1, <1>2, <1>4, NoMove, TablesStay DEF base, tables
<1>8. Adding'
  BY <1>2, <1>3, <1>4, <1>6, <1>7 DEF Adding, Searched
<1>9. ~isRehashing(base) => rehashStep(hasher, base) = base
  BY DEF rehashStep
<1>10. Shape(heap, Live, rehashing)' /\ PtrTable(main)' /\ hasher' \in Hash
  BY <1>4, <1>7 DEF IInv
<1>11. call' \in Calls /\ DickOK(hasher, before)'
  BY <1>1, <1>4 DEF IInv, Control
<1>12. Control'
  BY <1>4, <1>5, <1>7, <1>8, <1>9, <1>11 DEF Control
<1> QED
  BY <1>4, <1>10, <1>12 DEF IInv

LEMMA DelStep ==
    ASSUME IInv, Del
    PROVE  /\ IInv' /\ call.key \in Key
           /\ pc' # "idle" => before' = before
           /\ pc' = "idle" => /\ AsDick' = del(hasher, call.key, before)
                              /\ ~delFinds(hasher, call.key, before)
                              /\ reply' = [op |-> "Del", key |-> call.key,
                                           ret |-> "entry not found"]
<1>1. pc = "search" /\ call.op = "Del" /\ UNCHANGED <<tables, hasher>>
  BY DEF Del, Return, Same
<1>2. /\ Shape(heap, main, rehashing) /\ AsDick = before /\ LiveDick = before
      /\ hasher \in Hash /\ DickOK(hasher, before) /\ call.key \in Key
      /\ base = before
  BY <1>1, NoMove, CallOK DEF IInv, Control, base
<1>3. bothEmpty <=> BothEmpty(before)
  BY <1>2, Parts
<1>4. Rehashing <=> isRehashing(before)
  BY <1>2, Parts
<1>5. pc' # "move"
  BY DEF Del, Return
<1>6. /\ Live' = Live /\ LiveDick' = LiveDick
      /\ UNCHANGED <<main, rehashing, heap, rehashidx>>
  BY <1>1, <1>5, TablesStay DEF tables
<1>7. Shape(heap, Live, rehashing)' /\ PtrTable(main)' /\ hasher' \in Hash
  BY <1>1, <1>6 DEF IInv
<1>8. AsDick' = before
  BY <1>2, <1>6 DEF AsDick
<1>9. CASE bothEmpty
  <2>1. /\ pc' = "idle"
        /\ reply' = [op |-> "Del", key |-> call.key, ret |-> "entry not found"]
    BY <1>1, <1>9 DEF Del, Return
  <2>2. del(hasher, call.key, before) = before /\ ~delFinds(hasher, call.key, before)
    BY <1>3, <1>9 DEF del, delFinds
  <2>3. Control'
    BY <1>1, <1>2, <1>6, <2>1 DEF Control
  <2> QED
    BY <1>2, <1>7, <1>8, <2>1, <2>2, <2>3 DEF IInv
<1>10. CASE ~bothEmpty
  <2>1. /\ pc' = IF Rehashing THEN "rehash" ELSE "unlink"
        /\ UNCHANGED <<call, before>>
    BY <1>10 DEF Del, Same
  <2>2. Deleting' /\ base' = base /\ call' \in Calls
    BY <1>1, <1>2, <1>3, <1>10, <2>1 DEF Deleting, base, IInv, Control
  <2>3. ~isRehashing(base) => rehashStep(hasher, base) = base
    BY DEF rehashStep
  <2>4. Control'
    BY <1>1, <1>2, <1>4, <1>6, <2>1, <2>2, <2>3 DEF Control
  <2> QED
    BY <1>2, <1>7, <2>1, <2>4 DEF IInv
<1> QED
  BY <1>9, <1>10


\* A table with entries has one at the cursor or ahead of it.
LEMMA EntryAhead ==
    ASSUME NEW h \in Hash, NEW d, DickOK(h, d), isRehashing(d), d.main.used # 0
    PROVE  /\ d.rehashidx \in Nat /\ d.main.size \in Nat
           /\ DOMAIN d.main.table = 0..d.main.size-1
           /\ \E c \in Nat : /\ d.rehashidx <= c /\ c < d.main.size
                             /\ d.main.table[c] # {}
<1>1. /\ KeysIn(d.main) # {} /\ d.main.size \in Nat /\ TableTypeOK(d.main)
  BY Counters DEF DickOK, TableOK
<1>2. /\ d.rehashidx \in Nat /\ d.rehashidx < d.main.size
      /\ \A b \in 0..d.rehashidx-1 : d.main.table[b] = {}
  BY DEF DickOK, CursorOK, isRehashing
<1>3. DOMAIN d.main.table = 0..d.main.size-1
  BY <1>1 DEF TableTypeOK
<1>4. PICK c \in 0..d.main.size-1 : d.main.table[c] # {}
  BY <1>1, <1>3 DEF KeysIn, Entries
<1> QED
  BY <1>1, <1>2, <1>3, <1>4

\* Where the skipping of n empty buckets ends.
LEMMA SkipOK ==
    ASSUME NEW h \in Hash, NEW d, DickOK(h, d), isRehashing(d), d.main.used # 0,
           NEW n \in 0..EMPTY_VISITS,
           \A b \in d.rehashidx..d.rehashidx + n - 1 :
               b \in DOMAIN d.main.table => d.main.table[b] = {}
    PROVE  /\ n = EMPTY_VISITS => Reachable(d) = {}
           /\ n # EMPTY_VISITS => d.rehashidx + n \in DOMAIN d.main.table
           /\ n # EMPTY_VISITS /\ d.main.table[d.rehashidx + n] # {}
                 => Reachable(d) # {} /\ FirstReachable(d) = d.rehashidx + n
<1> DEFINE i == d.rehashidx + n
<1>1. /\ d.rehashidx \in Nat /\ d.main.size \in Nat
      /\ DOMAIN d.main.table = 0..d.main.size-1
      /\ EMPTY_VISITS \in Nat \ {0} /\ n \in Nat /\ i \in Nat
  BY EntryAhead, SizesAreNaturals
<1>2. n = EMPTY_VISITS => Reachable(d) = {}
  BY <1>1 DEF Reachable
<1>3. i \in DOMAIN d.main.table
  <2>1. PICK c \in Nat : d.rehashidx <= c /\ c < d.main.size /\ d.main.table[c] # {}
    BY EntryAhead
  <2>2. c >= i
    BY <1>1, <2>1
  <2> QED
    BY <1>1, <2>1, <2>2
<1>4. ASSUME n # EMPTY_VISITS, d.main.table[i] # {}
      PROVE  Reachable(d) # {} /\ FirstReachable(d) = i
  <2>1. i \in Reachable(d)
    BY <1>1, <1>3, <1>4 DEF Reachable
  <2>2. ASSUME NEW c \in Reachable(d) PROVE c \in Nat /\ i <= c
    BY <1>1, <2>2 DEF Reachable
  <2> HIDE DEF i
  <2>3. \A b \in Reachable(d) : (\A c \in Reachable(d) : b <= c) => b = i
    BY <1>1, <2>1, <2>2
  <2> QED
    BY <2>1, <2>2, <2>3 DEF FirstReachable
<1> QED
  BY <1>2, <1>3, <1>4

\* Nothing is moved yet when all of the bucket is left.
LEMMA NoneMoved ==
    ASSUME NEW h, NEW d, TableTypeOK(d.main), TableTypeOK(d.rehashing),
           NEW b \in DOMAIN d.main.table
    PROVE  PartMoved(h, d, b, d.main.table[b])
              = [main |-> d.main, rehashing |-> d.rehashing, rehashidx |-> b]
<1> DEFINE moved == d.main.table[b] \ d.main.table[b]
<1>1. moved = {} /\ Cardinality(moved) = 0
  BY FS_EmptySet
<1>2. /\ d.main = [size |-> d.main.size, used |-> d.main.used, table |-> d.main.table]
      /\ d.main.used \in Nat
      /\ [d.main.table EXCEPT ![b] = d.main.table[b]] = d.main.table
  BY DEF TableTypeOK
<1>3. /\ d.rehashing = [size |-> d.rehashing.size, used |-> d.rehashing.used,
                        table |-> d.rehashing.table]
      /\ d.rehashing.used \in Nat
      /\ d.rehashing.table = [c \in DOMAIN d.rehashing.table |-> d.rehashing.table[c]]
  BY DEF TableTypeOK
<1>4. [c \in DOMAIN d.rehashing.table |->
          d.rehashing.table[c] \cup {e \in moved : Index(h, e.key, d.rehashing) = c}]
        = d.rehashing.table
  BY <1>1, <1>3
<1>5. PartMoved(h, d, b, d.main.table[b])
        = [main |-> [size |-> d.main.size, used |-> d.main.used - Cardinality(moved),
                     table |-> [d.main.table EXCEPT ![b] = d.main.table[b]]],
           rehashing |-> [size |-> d.rehashing.size,
                          used |-> d.rehashing.used + Cardinality(moved),
                          table |-> [c \in DOMAIN d.rehashing.table |->
                                      d.rehashing.table[c] \cup
                                      {e \in moved : Index(h, e.key, d.rehashing) = c}]],
           rehashidx |-> b]
  BY Zenon DEF PartMoved
<1> HIDE DEF moved
<1>6. /\ d.main.used - Cardinality(moved) = d.main.used
      /\ d.rehashing.used + Cardinality(moved) = d.rehashing.used
  BY <1>1, <1>2, <1>3
<1> QED
  BY <1>2, <1>3, <1>4, <1>5, <1>6, Zenon


\* What a rehash step of the call starts from.
LEMMA RehashBase ==
    ASSUME IInv, pc \in {"rehash", "move", "finish"}
    PROVE  /\ DickOK(hasher, base) /\ hasher \in Hash /\ isRehashing(base)
           /\ Adding \/ Deleting
           /\ call \in Calls /\ DickOK(hasher, before)
           /\ TableTypeOK(base.main) /\ TableTypeOK(base.rehashing)
           /\ base = [main |-> base.main, rehashing |-> base.rehashing,
                      rehashidx |-> base.rehashidx]
           /\ base.main.used \in Nat /\ base.rehashing.used \in Nat
           /\ After = "add" => Adding
           /\ After = "unlink" => Deleting
           /\ After \in {"add", "unlink"}
<1>1. pc # "idle" /\ (Adding \/ Deleting) /\ isRehashing(base)
  BY DEF IInv, Control
<1>2. /\ DickOK(hasher, base) /\ hasher \in Hash /\ call \in Calls /\ DickOK(hasher, before)
      /\ base.main.used \in Nat /\ base.rehashing.used \in Nat
  BY <1>1, CallOK, Counters DEF IInv, Control
<1>3. /\ After = "add" => Adding
      /\ After = "unlink" => Deleting
      /\ After \in {"add", "unlink"}
  BY <1>1 DEF Adding, Searched, Deleting, After
<1> QED
  BY <1>1, <1>2, <1>3, DickTypes

LEMMA SkipStep ==
    ASSUME IInv, Skip
    PROVE  IInv' /\ before' = before /\ pc' # "idle"
<1>1. /\ pc = "rehash" /\ UNCHANGED <<heap, main, rehashing, X, hasher, call, before>>
      /\ base' = base /\ (Adding' <=> Adding) /\ (Deleting' <=> Deleting)
      /\ (Moves' <=> Moves)
  BY DEF Skip, Same, base, Adding, Searched, Deleting, Moves
<1>2. /\ DickOK(hasher, base) /\ hasher \in Hash /\ isRehashing(base)
      /\ Adding \/ Deleting
      /\ call \in Calls /\ DickOK(hasher, before)
      /\ TableTypeOK(base.main) /\ TableTypeOK(base.rehashing)
      /\ base = [main |-> base.main, rehashing |-> base.rehashing,
                 rehashidx |-> base.rehashidx]
      /\ After = "add" => Adding
      /\ After = "unlink" => Deleting
      /\ After \in {"add", "unlink"}
  BY <1>1, RehashBase
<1>3. /\ Shape(heap, main, rehashing) /\ AsDick = base /\ LiveDick = base /\ PtrTable(main)
  BY <1>1, NoMove DEF IInv, Control
<1>4. /\ base.main = AsSets(heap, main) /\ base.rehashing = AsSets(heap, rehashing)
      /\ base.rehashidx = rehashidx /\ base.main.used = main.used
  BY <1>3, Parts
<1>5. DOMAIN main.table = DOMAIN base.main.table
  BY <1>3, <1>4, BucketSet DEF PtrTable, AsSets
<1>6. CASE main.used = 0
  <2>1. pc' = "finish" /\ UNCHANGED rehashidx
    BY <1>6 DEF Skip
  <2>2. Live' = main /\ LiveDick' = base
    BY <1>1, <1>3, <2>1 DEF Live, LiveDick, AsDick
  <2> QED
    BY <1>1, <1>2, <1>3, <1>4, <1>6, <2>1, <2>2 DEF IInv, Control
<1>7. CASE main.used # 0
  <2>1. PICK n \in 0..EMPTY_VISITS :
          /\ \A b \in rehashidx..rehashidx + n - 1 : main.table[b] = nil
          /\ rehashidx' = rehashidx + n
          /\ IF n = EMPTY_VISITS THEN pc' = After /\ UNCHANGED entry
             ELSE /\ main.table[rehashidx'] # nil
                  /\ pc' = "move" /\ entry' = main.table[rehashidx']
    BY <1>7 DEF Skip
  <2>2. \A b \in base.rehashidx..base.rehashidx + n - 1 :
            b \in DOMAIN base.main.table => base.main.table[b] = {}
    BY <1>3, <1>4, <1>5, <2>1, EmptyBucket
  <2>3. /\ n = EMPTY_VISITS => Reachable(base) = {}
        /\ n # EMPTY_VISITS => base.rehashidx + n \in DOMAIN base.main.table
        /\ n # EMPTY_VISITS /\ base.main.table[base.rehashidx + n] # {}
              => Reachable(base) # {} /\ FirstReachable(base) = base.rehashidx + n
    BY <1>2, <1>4, <1>7, <2>2, SkipOK
  <2>4. CASE n = EMPTY_VISITS
    <3>1. pc' = After /\ rehashidx' = rehashidx + EMPTY_VISITS
      BY <2>1, <2>4
    <3>2. Live' = main /\ LiveDick' = [main |-> base.main, rehashing |-> base.rehashing,
                                       rehashidx |-> base.rehashidx + EMPTY_VISITS]
      BY <1>1, <1>2, <1>4, <3>1 DEF Live, LiveDick
    <3>3. rehashStep(hasher, base) = [base EXCEPT !.rehashidx = @ + EMPTY_VISITS]
      BY <1>2, <1>4, <1>7, <2>3, <2>4 DEF rehashStep
    <3>4. LiveDick' = rehashStep(hasher, base)
      BY <1>2, <3>2, <3>3
    <3> QED
      BY <1>1, <1>2, <1>3, <3>1, <3>2, <3>4 DEF IInv, Control
  <2>5. CASE n # EMPTY_VISITS
    <3> DEFINE i == rehashidx'
    <3>1. pc' = "move" /\ entry' = main.table[i] /\ main.table[i] # nil
          /\ i = base.rehashidx + n
      BY <1>4, <2>1, <2>5
    <3>2. i \in DOMAIN main.table /\ i \in DOMAIN base.main.table
      BY <1>5, <2>3, <2>5, <3>1
    <3>3. base.main.table[i] # {}
      BY <1>3, <1>4, <3>1, <3>2, EmptyBucket
    <3>4. Moves /\ i = FirstReachable(base)
      BY <1>4, <1>7, <2>3, <2>5, <3>1, <3>3 DEF Moves
    <3>5. Live' = main
      <4>1. Live' = [main EXCEPT !.table[i] = main.table[i]]
        BY <1>1, <3>1 DEF Live
      <4> HIDE DEF i
      <4>2. [main EXCEPT !.table[i] = main.table[i]] = main
        BY <1>3, <3>2 DEF PtrTable
      <4> QED
        BY <4>1, <4>2
    <3>6. LiveDick' = [main |-> base.main, rehashing |-> base.rehashing, rehashidx |-> i]
      BY <1>1, <1>4, <3>5 DEF LiveDick
    <3>7. PartMoved(hasher, base, i, base.main.table[i])
            = [main |-> base.main, rehashing |-> base.rehashing, rehashidx |-> i]
      BY <1>2, <3>2, NoneMoved
    <3>8. LiveDick.main'.table[i] = base.main.table[i]
      BY <3>6
    <3>9. Control'
      BY <1>1, <1>2, <3>1, <3>4, <3>6, <3>7, <3>8 DEF Control
    <3> QED
      BY <1>1, <1>2, <1>3, <3>1, <3>5, <3>9 DEF IInv
  <2> QED
    BY <2>4, <2>5
<1> QED
  BY <1>6, <1>7


\* d, when E moves too: from table t of b to bucket c of table n.
OneMoved(d, b, c, E) ==
    [main |-> [size |-> d.main.size, used |-> d.main.used - 1,
               table |-> [d.main.table EXCEPT ![b] = @ \ {E}]],
     rehashing |-> [size |-> d.rehashing.size, used |-> d.rehashing.used + 1,
                    table |-> [d.rehashing.table EXCEPT ![c] = @ \cup {E}]],
     rehashidx |-> b]

LEMMA PartMovedStep ==
    ASSUME NEW h, NEW d, TableOK(h, d.main), TableTypeOK(d.rehashing),
           NEW b \in DOMAIN d.main.table, NEW rest, rest \subseteq d.main.table[b],
           NEW E \in rest, NEW c, c = Index(h, E.key, d.rehashing),
           c \in DOMAIN d.rehashing.table
    PROVE  OneMoved(PartMoved(h, d, b, rest), b, c, E) = PartMoved(h, d, b, rest \ {E})
<1> DEFINE moved == d.main.table[b] \ rest
           more  == d.main.table[b] \ (rest \ {E})
           R(m)  == [a \in DOMAIN d.rehashing.table |->
                        d.rehashing.table[a] \cup
                        {e \in m : Index(h, e.key, d.rehashing) = a}]
           P == PartMoved(h, d, b, rest)
<1>1. more = moved \cup {E} /\ E \notin moved
  OBVIOUS
<1>2. IsFiniteSet(d.main.table[b])
  <2>1. d.main.table[b] \in SUBSET Entry
    BY DEF TableOK, TableTypeOK
  <2>2. \A e, f \in d.main.table[b] : e.key = f.key => e = f
    BY DEF TableOK, OneEntryPerKey, Entries
  <2> QED
    BY <2>1, <2>2, ChainSize
<1>3. IsFiniteSet(moved) /\ Cardinality(moved) \in Nat
  BY <1>2, FS_Subset, FS_CardinalityType
<1>4. Cardinality(more) = Cardinality(moved) + 1
  BY <1>1, <1>3, FS_AddElement
<1>5. d.main.used \in Nat /\ d.rehashing.used \in Nat
  BY DEF TableOK, TableTypeOK
<1>6. P = [main |-> [size |-> d.main.size, used |-> d.main.used - Cardinality(moved),
                     table |-> [d.main.table EXCEPT ![b] = rest]],
           rehashing |-> [size |-> d.rehashing.size,
                          used |-> d.rehashing.used + Cardinality(moved),
                          table |-> R(moved)],
           rehashidx |-> b]
  BY Zenon DEF PartMoved
<1>7. PartMoved(h, d, b, rest \ {E})
         = [main |-> [size |-> d.main.size, used |-> d.main.used - Cardinality(more),
                     table |-> [d.main.table EXCEPT ![b] = rest \ {E}]],
           rehashing |-> [size |-> d.rehashing.size,
                          used |-> d.rehashing.used + Cardinality(more),
                          table |-> R(more)],
           rehashidx |-> b]
  BY Zenon DEF PartMoved
<1>8. [R(moved) EXCEPT ![c] = @ \cup {E}] = R(more)
  <2> HIDE DEF moved, more
  <2>1. ASSUME NEW a \in DOMAIN d.rehashing.table
        PROVE  (IF a = c THEN R(moved)[a] \cup {E} ELSE R(moved)[a]) = R(more)[a]
    BY <1>1
  <2>2. R(moved) = [a \in DOMAIN d.rehashing.table |-> R(moved)[a]]
    OBVIOUS
  <2>3. R(more) = [a \in DOMAIN d.rehashing.table |-> R(more)[a]]
    OBVIOUS
  <2> HIDE DEF R
  <2> QED
    BY <2>1, <2>2, <2>3
<1> HIDE DEF moved, more, R, P
<1>9. /\ P.main.size = d.main.size /\ P.main.used = d.main.used - Cardinality(moved)
      /\ P.main.table = [d.main.table EXCEPT ![b] = rest]
      /\ P.rehashing.size = d.rehashing.size
      /\ P.rehashing.used = d.rehashing.used + Cardinality(moved)
      /\ P.rehashing.table = R(moved)
  BY <1>6
<1>10. [P.main.table EXCEPT ![b] = @ \ {E}] = [d.main.table EXCEPT ![b] = rest \ {E}]
  BY <1>9
<1>11. /\ P.main.used - 1 = d.main.used - Cardinality(more)
       /\ P.rehashing.used + 1 = d.rehashing.used + Cardinality(more)
  BY <1>3, <1>4, <1>5, <1>9
<1>12. [P.rehashing.table EXCEPT ![c] = @ \cup {E}] = R(more)
  BY <1>8, <1>9
<1>13. OneMoved(P, b, c, E)
         = [main |-> [size |-> d.main.size, used |-> d.main.used - Cardinality(more),
                     table |-> [d.main.table EXCEPT ![b] = rest \ {E}]],
           rehashing |-> [size |-> d.rehashing.size,
                          used |-> d.rehashing.used + Cardinality(more),
                          table |-> R(more)],
           rehashidx |-> b]
  BY <1>9, <1>10, <1>11, <1>12, Zenon DEF OneMoved
<1> QED
  BY <1>7, <1>13 DEF P


LEMMA FirstReachableOK ==
    ASSUME NEW h \in Hash, NEW d, DickOK(h, d), isRehashing(d), Reachable(d) # {}
    PROVE  /\ FirstReachable(d) \in Reachable(d)
           /\ FirstReachable(d) \in DOMAIN d.main.table
<1>1. d.rehashidx \in Nat
  BY DEF DickOK, isRehashing
<1>2. Reachable(d) \in SUBSET Nat
  BY <1>1, SizesAreNaturals DEF Reachable
<1>3. \E x \in Reachable(d) : \A y \in Reachable(d) : x <= y
  BY <1>2, SmallestExists
<1>4. FirstReachable(d) \in Reachable(d)
  BY <1>3 DEF FirstReachable
<1> QED
  BY <1>4 DEF Reachable

LEMMA MoveEntryStep ==
    ASSUME IInv, MoveEntry
    PROVE  IInv' /\ before' = before /\ pc' # "idle"
<1> DEFINE i == rehashidx
           k == heap[entry].key
           v == heap[entry].value
           c == Index(hasher, k, rehashing)
           L == AsSets(heap, Live)
           R == AsSets(heap, rehashing)
           E == EntryAt(heap, entry)
           n == [Live EXCEPT !.table[i] = heap[entry].next, !.used = @ - 1]
           rest == base.main.table[i] \cap L.table[i]
<1>1. /\ pc = "move" /\ pc' = "move" /\ entry # nil
      /\ UNCHANGED <<rehashidx, X, hasher, call, before>>
      /\ heap' = [heap EXCEPT ![entry].next = rehashing.table[c]]
      /\ rehashing' = [rehashing EXCEPT !.table[c] = entry, !.used = @ + 1]
      /\ main' = [main EXCEPT !.used = @ - 1]
      /\ entry' = heap[entry].next
  BY DEF MoveEntry, Same
<1>2. /\ base' = base /\ (Adding' <=> Adding) /\ (Deleting' <=> Deleting)
      /\ (Moves' <=> Moves)
  BY <1>1 DEF base, Adding, Searched, Deleting, Moves
<1>3. /\ DickOK(hasher, base) /\ hasher \in Hash /\ isRehashing(base)
      /\ Adding \/ Deleting
      /\ call \in Calls /\ DickOK(hasher, before)
      /\ TableTypeOK(base.main) /\ TableTypeOK(base.rehashing)
  BY <1>1, RehashBase
<1>4. /\ Shape(heap, Live, rehashing) /\ PtrTable(main) /\ PtrTable(Live)
      /\ heap \in [Ptr -> Node] /\ PtrTable(rehashing)
  BY DEF IInv, Shape
<1>5. /\ LiveDick = [main |-> L, rehashing |-> R, rehashidx |-> i]
      /\ Moves /\ i = FirstReachable(base)
      /\ L.table[i] \subseteq base.main.table[i]
      /\ LiveDick = PartMoved(hasher, base, i, L.table[i])
  BY <1>1 DEF LiveDick, IInv, Control
<1>6. /\ L.size = base.main.size /\ R.size = base.rehashing.size
      /\ L.size = Live.size /\ Live.size = main.size /\ R.size = rehashing.size
  BY <1>1, <1>5 DEF PartMoved, AsSets, Live
<1>7. /\ i \in DOMAIN base.main.table /\ i \in DOMAIN Live.table /\ i \in DOMAIN main.table
      /\ i = FirstReachable(base)
  <2>1. i \in Reachable(base)
    BY <1>3, <1>5, FirstReachableOK DEF Moves
  <2> QED
    BY <1>3, <1>4, <1>5, <1>6, <2>1 DEF Reachable, TableTypeOK, PtrTable
<1>8. /\ Live = [main EXCEPT !.table[i] = entry]
      /\ Live.table[i] = entry
  BY <1>1, <1>4, <1>7 DEF Live, PtrTable
<1>9. /\ Popped(heap, Live, i, n)
      /\ Live.table[i] # nil
  BY <1>1, <1>8 DEF Popped
<1>10. /\ Shape(heap, n, rehashing) /\ Nodes(heap, n, rehashing) = Nodes(heap, Live, rehashing) \ {entry}
       /\ entry \in Ptr /\ entry \in Nodes(heap, Live, rehashing)
       /\ E \in L.table[i]
       /\ AsSets(heap, n) = [size |-> Live.size, used |-> Live.used - 1,
                             table |-> [L.table EXCEPT ![i] = @ \ {E}]]
  <2>1. /\ Shape(heap, Live, rehashing) /\ i \in DOMAIN Live.table
        /\ entry = Live.table[i] /\ entry # nil /\ Popped(heap, Live, i, n)
    BY <1>1, <1>4, <1>7, <1>8, <1>9
  <2> HIDE DEF n, L, E, i
  <2> QED
    BY <2>1, PopOK DEF L, E
<1>11. E \in Entry /\ E = [key |-> k, value |-> v]
  BY <1>3, <1>5, <1>7, <1>10 DEF TableTypeOK, EntryAt
<1>12. k \in Key /\ v \in Value
  BY <1>11 DEF Entry
<1>13. /\ c = Index(hasher, k, base.rehashing)
       /\ c \in DOMAIN base.rehashing.table /\ c \in DOMAIN rehashing.table
  <2>1. c = Index(hasher, k, base.rehashing)
    BY <1>6 DEF Index
  <2>2. base.rehashing.size > 0 /\ base.rehashing.size \in Nat
    BY <1>3, Counters DEF DickOK, CursorOK
  <2>3. base.rehashing.size # 0
    BY <2>2
  <2> QED
    BY <1>3, <1>4, <1>6, <1>12, <2>1, <2>3, IndexInTable DEF PtrTable
<1>14. Pushed(heap, rehashing, c, entry, k, v, heap', rehashing')
  <2>1. heap[entry] = [key |-> k, value |-> v, next |-> heap[entry].next]
    BY <1>4, <1>10 DEF Node
  <2>2. [heap[entry] EXCEPT !.next = rehashing.table[c]]
          = [key |-> k, value |-> v, next |-> rehashing.table[c]]
    BY <2>1
  <2>3. heap' = [heap EXCEPT ![entry] = [heap[entry] EXCEPT !.next = rehashing.table[c]]]
    BY <1>1
  <2> HIDE DEF c, k, v
  <2> QED
    BY <1>1, <2>2, <2>3, Zenon DEF Pushed
<1>15. /\ Shape(heap, rehashing, n)
       /\ entry \notin Nodes(heap, rehashing, n)
       /\ \A q \in Nodes(heap, rehashing, n) : heap[q].key # k
  <2>1. Shape(heap, rehashing, n) /\ Nodes(heap, n, rehashing) = Nodes(heap, rehashing, n)
    BY <1>10, ShapeTurns
  <2>2. \A p, q \in Nodes(heap, Live, rehashing) : heap[p].key = heap[q].key => p = q
    BY <1>4 DEF Shape
  <2> QED
    BY <1>10, <2>1, <2>2
<1>16. /\ Shape(heap', rehashing', n) /\ AsSets(heap', n) = AsSets(heap, n)
       /\ AsSets(heap', rehashing')
             = [size |-> rehashing.size, used |-> rehashing.used + 1,
                table |-> [R.table EXCEPT ![c] = @ \cup {[key |-> k, value |-> v]}]]
  <2> HIDE DEF n, k, v, c
  <2> QED
    BY <1>10, <1>12, <1>13, <1>14, <1>15, PushOK
<1>17. Live' = n
  <2>1. Live' = [main' EXCEPT !.table[i] = heap[entry].next]
    BY <1>1 DEF Live
  <2>2. n = [[main EXCEPT !.table[i] = entry] EXCEPT !.table[i] = heap[entry].next,
                                                     !.used = @ - 1]
    BY <1>8
  <2>3. main' = [main EXCEPT !.used = @ - 1]
    BY <1>1
  <2> HIDE DEF n, i
  <2> QED
    BY <1>4, <1>7, <2>1, <2>2, <2>3 DEF PtrTable
<1>18. Shape(heap', Live', rehashing') /\ PtrTable(main')
  <2>1. Shape(heap', n, rehashing')
    BY <1>16, ShapeTurns
  <2>2. PtrTable(main')
    BY <1>1, <1>4 DEF PtrTable
  <2> QED
    BY <1>17, <2>1, <2>2
<1>19. LiveDick' = OneMoved(LiveDick, i, c, E)
  <2>1. LiveDick' = [main |-> AsSets(heap', n), rehashing |-> AsSets(heap', rehashing'),
                     rehashidx |-> i]
    BY <1>1, <1>17 DEF LiveDick
  <2>2. /\ L.used = Live.used /\ R.used = rehashing.used
        /\ LiveDick.main = L /\ LiveDick.rehashing = R
    BY <1>5 DEF AsSets
  <2> HIDE DEF n, L, R, E, c
  <2> QED
    BY <1>6, <1>10, <1>11, <1>16, <2>1, <2>2 DEF OneMoved
<1>20. LiveDick' = PartMoved(hasher, base, i, L.table[i] \ {E})
  <2>1. TableOK(hasher, base.main)
    BY <1>3 DEF DickOK
  <2>2. c = Index(hasher, E.key, base.rehashing)
    BY <1>11, <1>13
  <2> HIDE DEF L, E, c, i
  <2> QED
    BY <1>3, <1>5, <1>7, <1>10, <1>13, <1>19, <2>1, <2>2, PartMovedStep
<1>21. LiveDick'.main.table[i] = L.table[i] \ {E}
  <2>1. L.table[i] \ {E} = [base.main.table EXCEPT ![i] = L.table[i] \ {E}][i]
    BY <1>7
  <2>2. LiveDick'.main.table = [base.main.table EXCEPT ![i] = L.table[i] \ {E}]
    BY <1>20 DEF PartMoved
  <2> QED
    BY <2>1, <2>2
<1>22. Control'
  <2>1. LiveDick.main'.table[rehashidx'] = L.table[i] \ {E}
    BY <1>1, <1>21
  <2>2. L.table[i] \ {E} \subseteq base.main.table[i]
    BY <1>5
  <2> HIDE DEF L, E
  <2> QED
    BY <1>1, <1>2, <1>3, <1>5, <1>20, <2>1, <2>2 DEF Control
<1> QED
  BY <1>1, <1>3, <1>18, <1>22 DEF IInv


LEMMA MoveDoneStep ==
    ASSUME IInv, MoveDone
    PROVE  IInv' /\ before' = before /\ pc' # "idle"
<1> DEFINE i == rehashidx
           L == AsSets(heap, Live)
           R == AsSets(heap, rehashing)
<1>1. /\ pc = "move" /\ pc' = "finish" /\ entry = nil
      /\ main' = [main EXCEPT !.table[i] = nil] /\ rehashidx' = i + 1
      /\ UNCHANGED <<heap, rehashing, X, hasher, call, before>>
  BY DEF MoveDone, Goto, Same
<1>2. /\ base' = base /\ (Adding' <=> Adding) /\ (Deleting' <=> Deleting)
      /\ (Moves' <=> Moves)
  BY <1>1 DEF base, Adding, Searched, Deleting, Moves
<1>3. /\ DickOK(hasher, base) /\ hasher \in Hash /\ isRehashing(base)
      /\ Adding \/ Deleting
      /\ call \in Calls /\ DickOK(hasher, before)
  BY <1>1, RehashBase
<1>4. /\ Shape(heap, Live, rehashing) /\ PtrTable(main) /\ PtrTable(Live)
  BY DEF IInv, Shape
<1>5. /\ LiveDick = [main |-> L, rehashing |-> R, rehashidx |-> i]
      /\ Moves /\ i = FirstReachable(base)
      /\ LiveDick = PartMoved(hasher, base, i, L.table[i])
  BY <1>1 DEF LiveDick, IInv, Control
<1>6. L.size = base.main.size /\ L.size = main.size /\ Live.size = main.size
  BY <1>1, <1>5 DEF PartMoved, AsSets, Live
<1>7. i \in DOMAIN Live.table /\ i \in DOMAIN main.table
  <2>1. i \in DOMAIN base.main.table /\ TableTypeOK(base.main)
    BY <1>3, <1>5, FirstReachableOK, DickTypes DEF Moves
  <2> QED
    BY <1>4, <1>6, <2>1 DEF TableTypeOK, PtrTable
<1>8. Live' = Live /\ main' = Live /\ Live.table[i] = nil
  BY <1>1, <1>4, <1>7 DEF Live, PtrTable
<1>9. L.table[i] = {}
  BY <1>4, <1>7, <1>8, EmptyBucket
<1>10. LiveDick' = [main |-> L, rehashing |-> R, rehashidx |-> i + 1]
  BY <1>1, <1>8 DEF LiveDick
<1>11. LiveDick' = MoveBucket(hasher, base, i)
  <2> DEFINE moved == base.main.table[i]
             all   == moved \ {}
             A(m)  == [size |-> base.main.size, used |-> base.main.used - Cardinality(m),
                       table |-> [base.main.table EXCEPT ![i] = {}]]
             B(m)  == [size |-> base.rehashing.size,
                       used |-> base.rehashing.used + Cardinality(m),
                       table |-> [c \in DOMAIN base.rehashing.table |->
                                    base.rehashing.table[c] \cup
                                    {e \in m : Index(hasher, e.key, base.rehashing) = c}]]
  <2>1. all = moved
    OBVIOUS
  <2>2. PartMoved(hasher, base, i, {}) = [main |-> A(all), rehashing |-> B(all), rehashidx |-> i]
    BY Zenon DEF PartMoved
  <2>3. MoveBucket(hasher, base, i)
           = [main |-> A(moved), rehashing |-> B(moved), rehashidx |-> i + 1]
    BY Zenon DEF MoveBucket
  <2> HIDE DEF i, L, R, A, B, moved, all
  <2>4. L = A(moved) /\ R = B(moved)
    BY <1>5, <1>9, <2>1, <2>2
  <2> QED
    BY <1>10, <2>3, <2>4
<1>12. Control'
  BY <1>1, <1>2, <1>3, <1>5, <1>11 DEF Control, Moves
<1> QED
  BY <1>1, <1>3, <1>4, <1>8, <1>12 DEF IInv

LEMMA FinishRehashStep ==
    ASSUME IInv, FinishRehash
    PROVE  IInv' /\ before' = before /\ pc' # "idle"
<1> DEFINE M == AsSets(heap, main)
           R == AsSets(heap, rehashing)
<1>1. /\ pc = "finish" /\ pc' = After
      /\ UNCHANGED <<heap, X, hasher, call, before>>
  BY DEF FinishRehash, Goto, Same
<1>2. /\ base' = base /\ (Adding' <=> Adding) /\ (Deleting' <=> Deleting)
  BY <1>1 DEF base, Adding, Searched, Deleting
<1>3. /\ isRehashing(base) /\ hasher \in Hash
      /\ After = "add" => Adding
      /\ After = "unlink" => Deleting
      /\ After \in {"add", "unlink"}
      /\ call \in Calls /\ DickOK(hasher, before)
  BY <1>1, RehashBase
<1>4. /\ Shape(heap, main, rehashing) /\ PtrTable(main) /\ PtrTable(rehashing)
      /\ LiveDick = [main |-> M, rehashing |-> R, rehashidx |-> rehashidx]
  BY <1>1, NoMove DEF IInv, AsDick, Shape
<1>5. rehashStep(hasher, base) = Finish(LiveDick)
  BY <1>1, <1>3 DEF IInv, Control, Moves, rehashStep
<1>6. LiveDick.main.used = main.used
  BY <1>4 DEF AsSets
<1>7. /\ Shape(heap, main', rehashing') /\ PtrTable(main')
      /\ [main |-> AsSets(heap, main'), rehashing |-> AsSets(heap, rehashing'),
          rehashidx |-> rehashidx'] = Finish(LiveDick)
  <2>1. CASE main.used = 0
    <3>1. main' = rehashing /\ rehashing' = NewTable(0) /\ rehashidx' = -1
      BY <2>1 DEF FinishRehash
    <3>2. Finish(LiveDick) = [main |-> R, rehashing |-> NewDickTable(0), rehashidx |-> -1]
      BY <1>4, <1>6, <2>1 DEF Finish
    <3>3. AsSets(heap, NewTable(0)) = NewDickTable(0) /\ Shape(heap, rehashing, NewTable(0))
      BY <1>4, NewTableEmpty, ShapeAlone
    <3> QED
      BY <1>4, <3>1, <3>2, <3>3
  <2>2. CASE main.used # 0
    <3>1. UNCHANGED <<main, rehashing, rehashidx>>
      BY <2>2 DEF FinishRehash
    <3>2. Finish(LiveDick) = LiveDick
      BY <1>6, <2>2 DEF Finish
    <3> QED
      BY <1>4, <3>1, <3>2
  <2> QED
    BY <2>1, <2>2
<1>8. Live' = main' /\ LiveDick' = rehashStep(hasher, base)
  <2>1. pc' # "move"
    BY <1>1, <1>3
  <2> QED
    BY <1>1, <1>5, <1>7, <2>1 DEF Live, LiveDick
<1>9. Control'
  BY <1>1, <1>2, <1>3, <1>8 DEF Control
<1> QED
  BY <1>1, <1>3, <1>7, <1>8, <1>9 DEF IInv


\* Insert, field by field.
LEMMA InsertForm ==
    ASSUME NEW t, t = [size |-> t.size, used |-> t.used, table |-> t.table],
           NEW b, NEW k, NEW v, ~Holds(t, b, k)
    PROVE  Insert(t, b, k, v)
             = [size |-> t.size, used |-> t.used + 1,
                table |-> [t.table EXCEPT ![b] = @ \cup {[key |-> k, value |-> v]}]]
<1> DEFINE Es == t.table[b] \cup {[key |-> k, value |-> v]}
           W == [size |-> t.size, used |-> t.used, table |-> [t.table EXCEPT ![b] = Es]]
<1>1. Insert(t, b, k, v) = [t EXCEPT !.table[b] = Es, !.used = t.used + 1]
  BY DEF Insert
<1> HIDE DEF Es
<1>2. [t EXCEPT !.table[b] = Es] = W
  OBVIOUS
<1>3. [W EXCEPT !.used = t.used + 1]
        = [size |-> t.size, used |-> t.used + 1, table |-> [t.table EXCEPT ![b] = Es]]
  OBVIOUS
<1>4. [t EXCEPT !.table[b] = Es, !.used = t.used + 1]
        = [[t EXCEPT !.table[b] = Es] EXCEPT !.used = t.used + 1]
  OBVIOUS
<1>5. Insert(t, b, k, v)
        = [size |-> t.size, used |-> t.used + 1, table |-> [t.table EXCEPT ![b] = Es]]
  BY <1>1, <1>2, <1>3, <1>4, Zenon
<1> QED
  BY <1>5, Zenon DEF Es

\* The tables after the rehash step of an add: the one the entry goes to has the
\* bucket that keyIndex gave, and no entry of the key is anywhere.
LEMMA AddWhere ==
    ASSUME IInv, pc = "add",
           NEW t, t = IF Rehashing THEN rehashing ELSE main,
           NEW o, o = IF Rehashing THEN main ELSE rehashing
    PROVE  /\ Shape(heap, t, o) /\ PtrTable(t)
           /\ X \in DOMAIN t.table /\ ~Holds(AsSets(heap, t), X, call.key)
           /\ \A p \in Nodes(heap, t, o) :
                 p \in Ptr /\ heap[p].key \in Key \ {call.key}
           /\ Used = Nodes(heap, t, o)
           /\ call.key \in Key /\ call.value \in Value
           /\ Searched /\ X = keyIndex(hasher, call.key, base) /\ X # -1
           /\ AsDick = rehashStep(hasher, base)
<1> DEFINE k == call.key
           r == AsDick
           T == AsSets(heap, t)
<1>1. /\ Adding /\ LiveDick = rehashStep(hasher, base) /\ LiveDick = r /\ Live = main
      /\ Shape(heap, main, rehashing)
  BY NoMove DEF IInv, Control
<1>2. /\ k \in Key /\ call.value \in Value /\ hasher \in Hash /\ DickOK(hasher, before)
      /\ DickOK(hasher, base) /\ Searched /\ X = keyIndex(hasher, k, base) /\ X # -1
  BY <1>1, CallOK DEF Adding, Searched
<1>3. /\ DickOK(hasher, r) /\ AllKeys(r) = AllKeys(base) /\ Moved(base, r)
      /\ isRehashing(base) => Room(r)
      /\ ~isRehashing(base) => r = base
  BY <1>1, <1>2, RehashStepOK
<1>4. /\ k \notin AllKeys(base) /\ base = expandIfNeeded(before)
      /\ X = IF isRehashing(base) THEN Index(hasher, k, base.rehashing)
             ELSE Index(hasher, k, base.main)
  BY <1>2, SearchedOK
<1>5. Room(r)
  <2>1. ~isRehashing(base) => Room(base)
    BY <1>2, <1>4, ExpandOK
  <2> QED
    BY <1>3, <2>1
<1>6. /\ r.main = AsSets(heap, main) /\ r.rehashing = AsSets(heap, rehashing)
      /\ r.main.size = main.size /\ r.rehashing.size = rehashing.size
      /\ Rehashing <=> isRehashing(r)
  BY Parts
<1> HIDE DEF r
<1>7. /\ Shape(heap, t, o) /\ PtrTable(t)
      /\ T = IF Rehashing THEN r.rehashing ELSE r.main
      /\ Nodes(heap, t, o) = Nodes(heap, main, rehashing)
  <2>1. CASE Rehashing
    BY <1>1, <1>6, <2>1, ShapeTurns DEF Shape
  <2>2. CASE ~Rehashing
    BY <1>1, <1>6, <2>2 DEF Shape
  <2> QED
    BY <2>1, <2>2
<1>8. T.size = t.size /\ TableTypeOK(r.main) /\ TableTypeOK(r.rehashing)
      /\ TableTypeOK(T) /\ KeysIn(T) \subseteq AllKeys(r)
      /\ DOMAIN t.table = 0..t.size-1 /\ DOMAIN T.table = DOMAIN t.table
  BY <1>3, <1>7, DickTypes DEF AsSets, AllKeys, PtrTable
<1>9. t.size # 0
  <2>1. CASE Rehashing
    BY <1>3, <1>6, <1>7, <1>8, <2>1 DEF DickOK, CursorOK
  <2>2. CASE ~Rehashing
    BY <1>2, <1>3, <1>5, <1>6, <1>7, <1>8, <2>2, Counters DEF Room
  <2> QED
    BY <2>1, <2>2
<1>10. X = Index(hasher, k, T)
  <2>1. CASE Rehashing
    <3>1. isRehashing(base) /\ r.rehashing.size = base.rehashing.size
      BY <1>3, <1>6, <2>1 DEF Moved
    <3> QED
      BY <1>4, <1>7, <2>1, <3>1 DEF Index
  <2>2. CASE ~Rehashing /\ isRehashing(base)
    <3>1. r.main.size = base.rehashing.size
      BY <1>3, <1>6, <2>2 DEF Moved
    <3> QED
      BY <1>4, <1>7, <2>2, <3>1 DEF Index
  <2>3. CASE ~Rehashing /\ ~isRehashing(base)
    BY <1>3, <1>4, <1>7, <2>3
  <2> QED
    BY <1>3, <1>6, <2>1, <2>2, <2>3
<1>11. X \in DOMAIN t.table
  BY <1>2, <1>8, <1>9, <1>10, IndexInTable
<1>12. ~Holds(T, X, k)
  <2>1. k \notin KeysIn(T)
    BY <1>3, <1>4, <1>8
  <2> QED
    BY <1>8, <1>11, <2>1 DEF Holds, KeysIn, Entries
<1>13. ASSUME NEW p \in Nodes(heap, t, o)
       PROVE  p \in Ptr /\ heap[p].key \in Key \ {k}
  <2>1. p \in Ptr /\ heap[p].key \in AllKeys(r)
    BY <1>1, <1>6, <1>7, <1>8, KeysOfNodes DEF AllKeys
  <2>2. AllKeys(r) \subseteq Key
    BY <1>8, KeysFinite DEF AllKeys
  <2> QED
    BY <1>3, <1>4, <2>1, <2>2
<1>14. Used = Nodes(heap, t, o)
  BY <1>7 DEF Used, Nodes
<1> QED
  BY <1>1, <1>2, <1>7, <1>11, <1>12, <1>13, <1>14 DEF r


LEMMA AddStep ==
    ASSUME IInv, Add
    PROVE  /\ IInv' /\ ~Finds(hasher, call.key, before)
           /\ AsDick' = add(hasher, call.key, call.value, before)
           /\ ~addFails(hasher, call.key, before)
<1> DEFINE t == IF Rehashing THEN rehashing ELSE main
           o == IF Rehashing THEN main ELSE rehashing
           u == IF Rehashing THEN rehashing' ELSE main'
           p == NewDickEntry
           k == call.key
           v == call.value
           r == rehashStep(hasher, base)
           a == add(hasher, k, v, before)
           new == [key |-> k, value |-> v]
<1>1. pc = "add" /\ pc' = "idle" /\ UNCHANGED hasher
  BY DEF Add, Return
<1>2. /\ Shape(heap, t, o) /\ PtrTable(t)
      /\ X \in DOMAIN t.table /\ ~Holds(AsSets(heap, t), X, k)
      /\ \A q \in Nodes(heap, t, o) : q \in Ptr /\ heap[q].key \in Key \ {k}
      /\ Used = Nodes(heap, t, o)
      /\ k \in Key /\ v \in Value
      /\ Searched /\ X = keyIndex(hasher, k, base) /\ X # -1
      /\ AsDick = r
  BY <1>1, AddWhere
<1>3. p \in Ptr /\ p \notin Nodes(heap, t, o)
  <2>1. Ptr \ Nodes(heap, t, o) # {}
    BY <1>2, FreeEntry
  <2> QED
    BY <1>2, <2>1 DEF NewDickEntry
<1>4. /\ heap' = [heap EXCEPT ![p] = [key |-> k, value |-> v, next |-> t.table[X]]]
      /\ IF Rehashing THEN rehashing' = Linked(t, p) /\ UNCHANGED main
                      ELSE main' = Linked(t, p) /\ UNCHANGED rehashing
      /\ UNCHANGED rehashidx
  <2>1. heap \in [Ptr -> Node]
    BY <1>2 DEF Shape
  <2>2. ChainIn(heap, t.table[X]) \subseteq Nodes(heap, t, o)
    BY <1>2, <2>1, TableRoots DEF Nodes
  <2>3. ~(\E q \in Chain(t.table[X]) : heap[q].key = k)
    BY <1>2, <2>2 DEF Chain
  <2> QED
    BY <2>3 DEF Add
<1> HIDE DEF p
<1>5. Pushed(heap, t, X, p, k, v, heap', u)
  BY <1>4 DEF Pushed, Linked
<1>6. \A q \in Nodes(heap, t, o) : heap[q].key # k
  BY <1>2
<1>7. /\ Shape(heap', u, o) /\ AsSets(heap', o) = AsSets(heap, o)
      /\ AsSets(heap', u)
            = [size |-> t.size, used |-> t.used + 1,
               table |-> [AsSets(heap, t).table EXCEPT ![X] = @ \cup {new}]]
  <2> HIDE DEF t, o, u, k, v
  <2> QED
    BY <1>2, <1>3, <1>5, <1>6, PushOK
<1>8. AsSets(heap', u) = Insert(AsSets(heap, t), X, k, v)
  <2> DEFINE T == AsSets(heap, t)
  <2>1. T = [size |-> T.size, used |-> T.used, table |-> T.table]
    BY DEF AsSets
  <2>2. T.size = t.size /\ T.used = t.used
    BY DEF AsSets
  <2> HIDE DEF T, t, u, k, v
  <2>3. Insert(T, X, k, v) = [size |-> T.size, used |-> T.used + 1,
                             table |-> [T.table EXCEPT ![X] = @ \cup {[key |-> k, value |-> v]}]]
    BY <1>2, <2>1, InsertForm DEF T
  <2> QED
    BY <1>7, <2>2, <2>3 DEF T
<1>9. /\ r = [main |-> AsSets(heap, main), rehashing |-> AsSets(heap, rehashing),
              rehashidx |-> rehashidx]
      /\ Rehashing <=> isRehashing(r)
  BY <1>2, Parts DEF AsDick
<1>10. a = IF isRehashing(r) THEN [r EXCEPT !.rehashing = Insert(@, X, k, v)]
           ELSE [r EXCEPT !.main = Insert(@, X, k, v)]
  <2>1. base = expandIfNeeded(before)
    BY <1>2 DEF Searched, base
  <2> QED
    BY <1>2, <2>1 DEF add
<1> HIDE DEF a, r
<1>11. AsDick' = a /\ Shape(heap', main', rehashing')
  <2>1. CASE Rehashing
    <3>1. /\ t = rehashing /\ o = main /\ u = rehashing' /\ main' = main
          /\ rehashidx' = rehashidx
      BY <1>4, <2>1
    <3>2. AsDick' = [main |-> AsSets(heap, main),
                     rehashing |-> Insert(AsSets(heap, rehashing), X, k, v),
                     rehashidx |-> rehashidx]
      BY <1>7, <1>8, <3>1 DEF AsDick
    <3>3. a = [main |-> AsSets(heap, main),
               rehashing |-> Insert(AsSets(heap, rehashing), X, k, v),
               rehashidx |-> rehashidx]
      BY <1>9, <1>10, <2>1
    <3> QED
      BY <1>7, <3>1, <3>2, <3>3, ShapeTurns
  <2>2. CASE ~Rehashing
    <3>1. /\ t = main /\ o = rehashing /\ u = main' /\ rehashing' = rehashing
          /\ rehashidx' = rehashidx
      BY <1>4, <2>2
    <3>2. AsDick' = [main |-> Insert(AsSets(heap, main), X, k, v),
                     rehashing |-> AsSets(heap, rehashing), rehashidx |-> rehashidx]
      BY <1>7, <1>8, <3>1 DEF AsDick
    <3>3. a = [main |-> Insert(AsSets(heap, main), X, k, v),
               rehashing |-> AsSets(heap, rehashing), rehashidx |-> rehashidx]
      BY <1>9, <1>10, <2>2
    <3> QED
      BY <1>7, <3>1, <3>2, <3>3
  <2> QED
    BY <2>1, <2>2
<1>12. /\ ~Finds(hasher, k, before) /\ DickOK(hasher, a) /\ ~addFails(hasher, k, before)
       /\ hasher \in Hash
  <2>1. DickOK(hasher, before) /\ ~Finds(hasher, k, before) /\ hasher \in Hash
    BY <1>1, <1>2, CallOK DEF Searched
  <2> QED
    BY <1>2, <2>1, AddOK DEF a
<1>13. Live' = main' /\ LiveDick' = AsDick' /\ PtrTable(main')
  BY <1>1, <1>11 DEF Live, LiveDick, AsDick, Shape
<1>14. IInv'
  BY <1>1, <1>11, <1>12, <1>13 DEF IInv, Control
<1> QED
  BY <1>11, <1>12, <1>14 DEF a

LEMMA UnlinkStep ==
    ASSUME IInv, Unlink
    PROVE  /\ IInv' /\ call.key \in Key
           /\ AsDick' = del(hasher, call.key, before)
           /\ reply' = [op |-> "Del", key |-> call.key,
                        ret |-> IF delFinds(hasher, call.key, before) THEN "ok"
                                ELSE "entry not found"]
<1> DEFINE k == call.key
           M == AsSets(heap, main)
           R == AsSets(heap, rehashing)
           d == del(hasher, k, before)
<1>1. pc = "unlink" /\ pc' = "idle" /\ UNCHANGED hasher
  BY DEF Unlink, Return
<1>2. /\ k \in Key /\ hasher \in Hash /\ DickOK(hasher, before)
      /\ Deleting /\ base = before
  BY <1>1, CallOK DEF IInv, Control, base, Deleting
<1> DEFINE r == rehashStep(hasher, before)
<1>3. /\ AsDick = r /\ Shape(heap, main, rehashing) /\ Shape(heap, rehashing, main)
      /\ PtrTable(main) /\ PtrTable(rehashing) /\ heap \in [Ptr -> Node]
  BY <1>1, <1>2, NoMove, ShapeTurns DEF IInv, Control, Shape
<1>4. /\ DickOK(hasher, r) /\ r.main.size # 0
  BY <1>2, RehashStepOK, MainAfterStep DEF Deleting
<1>5. r = [main |-> M, rehashing |-> R, rehashidx |-> rehashidx]
  BY <1>3 DEF AsDick
<1> HIDE DEF r
<1>6. /\ Has(k, main) <=> Holds(r.main, Index(hasher, k, r.main), k)
      /\ Rehashing /\ Has(k, rehashing) <=> InRehashing(hasher, k, r)
  <2>1. /\ Has(k, main) <=> InMain(hasher, k, AsDick)
        /\ Rehashing /\ Has(k, rehashing) <=> InRehashing(hasher, k, AsDick)
    BY <1>2, <1>3, <1>4, FoundOK
  <2> QED
    BY <1>3, <1>4, <2>1 DEF InMain
<1>7. TableTypeOK(M) /\ TableTypeOK(R)
  BY <1>4, <1>5, DickTypes
<1>8. ~BothEmpty(before)
  BY <1>2 DEF Deleting
\* A table whose entry of the key is unlinked.
<1>9. ASSUME NEW t, NEW o, Shape(heap, t, o), Has(k, t), TableTypeOK(AsSets(heap, t)),
             NEW u, u = Unlinked(t, Find(k, t)), heap' = Relinked(t, Find(k, t))
      PROVE  /\ Shape(heap', u, o) /\ AsSets(heap', o) = AsSets(heap, o)
             /\ AsSets(heap', u) = Remove(AsSets(heap, t),
                                          Index(hasher, k, AsSets(heap, t)), k)
  <2> DEFINE b == Index(hasher, k, t)
             x == Find(k, t)
  <2>1. /\ Index(hasher, k, AsSets(heap, t)) = b /\ b \in DOMAIN t.table /\ t.size # 0
        /\ x \in ChainIn(heap, t.table[b]) /\ heap[x].key = k
    BY <1>2, <1>9, SearchChain
  <2>2. PtrTable(t) /\ heap \in [Ptr -> Node] /\ Linking(heap)
    BY <1>9, HeapLinks DEF Shape
  <2> HIDE DEF x
  <2>3. x \in Ptr /\ heap[x].next \in Ptr \cup {nil}
    BY <2>1, <2>2, TableRoots DEF Linking
  <2>4. Chain(Bucket(k, t)) = ChainIn(heap, t.table[b])
    BY <2>1 DEF Chain, Bucket
  <2> DEFINE g(q) == IF q = x THEN NoEntry
                     ELSE IF q \in ChainIn(heap, t.table[b]) /\ heap[q].next = x
                     THEN [heap[q] EXCEPT !.next = heap[x].next] ELSE heap[q]
  <2>5. heap' = [q \in Ptr |-> g(q)]
    BY <1>9, <2>4 DEF Relinked, x
  <2>6. heap' \in [Ptr -> Node] /\ heap'[x].next = nil
    <3>1. ASSUME NEW q \in Ptr PROVE g(q) \in Node
      BY <2>2, <2>3 DEF Node, NoEntry
    <3>2. g(x).next = nil
      BY DEF NoEntry
    <3> HIDE DEF g
    <3> QED
      BY <2>3, <2>5, <3>1, <3>2
  <2>7. u = [t EXCEPT !.table[b] = IF @ = x THEN heap[x].next ELSE @, !.used = @ - 1]
    BY <1>9 DEF Unlinked, x
  <2>8. Passed(heap, t, b, x, heap', u)
    <3>1. \A q \in Ptr \ {x} :
            heap'[q] = IF q \in ChainIn(heap, t.table[b]) /\ heap[q].next = x
                       THEN [heap[q] EXCEPT !.next = heap[x].next] ELSE heap[q]
      BY <2>5
    <3> QED
      BY <2>6, <2>7, <3>1 DEF Passed
  <2> HIDE DEF b
  <2>9. /\ Shape(heap', u, o) /\ AsSets(heap', o) = AsSets(heap, o)
        /\ AsSets(heap', u) = Remove(AsSets(heap, t), b, heap[x].key)
    BY <1>9, <2>1, <2>8, UnlinkOK
  <2> QED
    BY <2>1, <2>9
<1>10. /\ AsDick' = d /\ Shape(heap', main', rehashing')
       /\ reply' = [op |-> "Del", key |-> k,
                    ret |-> IF delFinds(hasher, k, before) THEN "ok" ELSE "entry not found"]
  <2>0. call.op = "Del"
    BY <1>2 DEF Deleting
  <2>1. CASE Has(k, main)
    <3>1. /\ main' = Unlinked(main, Find(k, main)) /\ heap' = Relinked(main, Find(k, main))
          /\ UNCHANGED <<rehashing, rehashidx>>
          /\ reply' = [op |-> call.op, key |-> k, ret |-> "ok"]
      BY <2>1 DEF Unlink, Return
    <3>2. /\ Shape(heap', main', rehashing) /\ AsSets(heap', rehashing) = R
          /\ AsSets(heap', main') = Remove(M, Index(hasher, k, M), k)
      BY <1>3, <1>7, <1>9, <2>1, <3>1
    <3>3. d = [r EXCEPT !.main = Remove(@, Index(hasher, k, @), k)]
          /\ delFinds(hasher, k, before)
      BY <1>6, <1>8, <2>1 DEF del, delFinds, r
    <3>4. d = [main |-> Remove(M, Index(hasher, k, M), k), rehashing |-> R,
               rehashidx |-> rehashidx]
      BY <1>5, <3>3
    <3>5. AsDick' = [main |-> Remove(M, Index(hasher, k, M), k), rehashing |-> R,
                     rehashidx |-> rehashidx]
      BY <3>1, <3>2 DEF AsDick
    <3> QED
      BY <2>0, <3>1, <3>2, <3>3, <3>4, <3>5
  <2>2. CASE ~Has(k, main) /\ Rehashing /\ Has(k, rehashing)
    <3>1. /\ rehashing' = Unlinked(rehashing, Find(k, rehashing))
          /\ heap' = Relinked(rehashing, Find(k, rehashing))
          /\ UNCHANGED <<main, rehashidx>>
          /\ reply' = [op |-> call.op, key |-> k, ret |-> "ok"]
      BY <2>2 DEF Unlink, Return
    <3>2. /\ Shape(heap', rehashing', main) /\ AsSets(heap', main) = M
          /\ AsSets(heap', rehashing') = Remove(R, Index(hasher, k, R), k)
      BY <1>3, <1>7, <1>9, <2>2, <3>1
    <3>3. d = [r EXCEPT !.rehashing = Remove(@, Index(hasher, k, @), k)]
          /\ delFinds(hasher, k, before)
      BY <1>6, <1>8, <2>2 DEF del, delFinds, r
    <3>4. d = [main |-> M, rehashing |-> Remove(R, Index(hasher, k, R), k),
               rehashidx |-> rehashidx]
      BY <1>5, <3>3
    <3>5. AsDick' = [main |-> M, rehashing |-> Remove(R, Index(hasher, k, R), k),
                     rehashidx |-> rehashidx]
      BY <3>1, <3>2 DEF AsDick
    <3> QED
      BY <2>0, <3>1, <3>2, <3>3, <3>4, <3>5, ShapeTurns
  <2>3. CASE ~Has(k, main) /\ ~(Rehashing /\ Has(k, rehashing))
    <3>1. /\ UNCHANGED tables
          /\ reply' = [op |-> call.op, key |-> k, ret |-> "entry not found"]
      BY <2>3 DEF Unlink, Return
    <3>2. d = r /\ ~delFinds(hasher, k, before)
      BY <1>6, <1>8, <2>3 DEF del, delFinds, r
    <3>3. AsDick' = AsDick
      BY <3>1 DEF AsDick, tables
    <3> QED
      BY <1>3, <2>0, <3>1, <3>2, <3>3 DEF tables
  <2> QED
    BY <2>1, <2>2, <2>3
<1> HIDE DEF d
<1>11. DickOK(hasher, d)
  BY <1>2, DelOK DEF d
<1>12. Live' = main' /\ LiveDick' = AsDick' /\ PtrTable(main')
  BY <1>1, <1>10 DEF Live, LiveDick, AsDick, Shape
<1>13. IInv'
  BY <1>1, <1>2, <1>10, <1>11, <1>12 DEF IInv, Control
<1> QED
  BY <1>2, <1>10, <1>13 DEF d


----------------------------------------------------------------------------
(* Part 5: the invariant *)

LEMMA InitInv == Init => IInv
<1> SUFFICES ASSUME Init PROVE IInv
  OBVIOUS
<1> DEFINE z == NewTable(0)
<1>1. /\ heap = [p \in Ptr |-> NoEntry] /\ main = z /\ rehashing = z /\ rehashidx = -1
      /\ pc = "idle" /\ hasher \in Hash
  BY ChainAssumption DEF Init, Hash
<1>2. /\ PtrTable(z) /\ AsSets(heap, z) = NewDickTable(0)
      /\ NodesIn(heap, z) = {} /\ Apart(heap, z)
  BY NewTableEmpty
<1>3. heap \in [Ptr -> Node]
  BY <1>1 DEF NoEntry, Node
<1> HIDE DEF z
<1>4. Shape(heap, z, z)
  BY <1>2, <1>3 DEF Shape, Nodes
<1>5. Live = main
  BY <1>1 DEF Live
<1>6. LiveDick = NewSubDICK
  BY <1>1, <1>2, <1>5 DEF LiveDick, NewSubDICK
<1>7. DickOK(hasher, LiveDick)
  BY <1>1, <1>6, NewDickOK
<1> QED
  BY <1>1, <1>2, <1>4, <1>5, <1>7 DEF IInv, Control

LEMMA StepInv == IInv /\ [Next]_vars => IInv'
<1> SUFFICES ASSUME IInv, [Next]_vars PROVE IInv'
  OBVIOUS
<1>1. ASSUME NEW c \in Calls, Invoke(c) PROVE IInv'
  BY <1>1, InvokeStep
<1>2. CASE Step
  BY <1>2, GetStep, SetValueStep, ExpandStep, KeyIndexStep, DelStep, SkipStep,
     MoveEntryStep, MoveDoneStep, FinishRehashStep, AddStep, UnlinkStep DEF Step
<1>3. CASE UNCHANGED vars
  <2>1. /\ Live' = Live /\ LiveDick' = LiveDick /\ base' = base
        /\ UNCHANGED <<heap, main, rehashing, rehashidx, hasher, pc, call, X, before>>
    BY <1>3 DEF vars, Live, LiveDick, base
  <2>2. Control'
    BY <2>1 DEF IInv, Control, Adding, Searched, Deleting, Moves
  <2> QED
    BY <2>1, <2>2 DEF IInv
<1> QED
  BY <1>1, <1>2, <1>3 DEF Next

\* Wherever a call is, its chains end, share no entry and hold a key once, and
\* what it has made of the sub-dictionary is what SubDick makes of it so far.
THEOREM ChainInvariance == Spec => []IInv
<1>1. Init => IInv
  BY InitInv
<1>2. IInv /\ [Next]_vars => IInv'
  BY StepInv
<1> QED
  BY <1>1, <1>2, PTL DEF Spec

----------------------------------------------------------------------------
(* Part 6: an entry is pointed to once *)

BucketsAt(t, p)         == {b \in DOMAIN t.table : t.table[b] = p}
EntriesAt(h, t, o, p)   == {q \in Nodes(h, t, o) : h[q].next = p}
PointedOnce(h, t, o, p) ==
    /\ BucketsAt(o, p) = {}
    /\ \/ EntriesAt(h, t, o, p) = {} /\ \E b : BucketsAt(t, p) = {b}
       \/ BucketsAt(t, p) = {} /\ \E r : EntriesAt(h, t, o, p) = {r}

LEMMA OnePointer ==
    ASSUME NEW h, NEW t, NEW o, Shape(h, t, o), NEW p \in NodesIn(h, t)
    PROVE  PointedOnce(h, t, o, p)
<1>1. /\ h \in [Ptr -> Node] /\ PtrTable(t) /\ PtrTable(o) /\ Linking(h)
      /\ Apart(h, t) /\ NodesIn(h, t) \cap NodesIn(h, o) = {} /\ p \in Ptr
      /\ \A q \in Nodes(h, t, o) : q \notin ChainIn(h, h[q].next)
  BY HeapLinks, NodesClosed DEF Shape
<1>2. PICK b \in DOMAIN t.table : p \in ChainIn(h, t.table[b])
  BY DEF NodesIn
<1> DEFINE C == ChainIn(h, t.table[b])
<1>3. /\ t.table[b] \in Ptr \cup {nil} /\ C \subseteq Ptr /\ C \subseteq Nodes(h, t, o)
  BY <1>1, <1>2, TableRoots DEF Nodes
<1>4. p \in ChainIn(h, p)
  BY <1>1, ChainStep
<1>5. ASSUME NEW a \in DOMAIN t.table, p \in ChainIn(h, t.table[a]) PROVE a = b
  BY <1>1, <1>2, <1>5 DEF Apart
<1>6. ASSUME NEW c \in DOMAIN o.table PROVE o.table[c] # p
  <2>1. ChainIn(h, o.table[c]) \subseteq NodesIn(h, o)
    BY <1>1, TableRoots
  <2> QED
    BY <1>1, <1>4, <2>1
<1>7. ASSUME NEW q \in Nodes(h, t, o), h[q].next = p PROVE q \in C
  <2>1. q \notin NodesIn(h, o)
    BY <1>1, <1>4, <1>7, NodesClosed
  <2>2. PICK a \in DOMAIN t.table : q \in ChainIn(h, t.table[a])
    BY <2>1 DEF Nodes, NodesIn
  <2>3. t.table[a] \in Ptr \cup {nil}
    BY <1>1, TableRoots
  <2>4. p \in ChainIn(h, t.table[a])
    BY <1>1, <1>7, <2>2, <2>3, ChainWithin, NilIsNoEntry
  <2> QED
    BY <1>5, <2>2, <2>4
<1>8. CASE t.table[b] = p
  <2>1. ASSUME NEW q \in Nodes(h, t, o), h[q].next = p PROVE FALSE
    BY <1>1, <1>7, <1>8, <2>1
  <2>2. {a \in DOMAIN t.table : t.table[a] = p} = {b}
    BY <1>4, <1>5, <1>8
  <2> QED
    BY <1>6, <2>1, <2>2 DEF PointedOnce, BucketsAt, EntriesAt
<1>9. CASE t.table[b] # p
  <2>1. \A a \in DOMAIN t.table : t.table[a] # p
    BY <1>4, <1>5, <1>9
  <2>2. PICK r \in C : h[r].next = p
    BY <1>1, <1>2, <1>3, <1>9, ChainBefore
  <2>3. ASSUME NEW q \in Nodes(h, t, o), h[q].next = p PROVE q = r
    <3>1. q \in C /\ q \in Ptr /\ r \in Ptr
      BY <1>3, <1>7, <2>3
    <3>2. q \in ChainIn(h, r) \/ r \in ChainIn(h, q)
      BY <1>1, <1>3, <3>1, ChainTotal
    <3>3. ChainIn(h, r) = {r} \cup ChainIn(h, p) /\ ChainIn(h, q) = {q} \cup ChainIn(h, p)
      BY <1>1, <2>2, <2>3, <3>1, ChainStep
    <3>4. q \notin ChainIn(h, p) /\ r \notin ChainIn(h, p)
      BY <1>1, <1>3, <2>2, <2>3
    <3> QED
      BY <3>2, <3>3, <3>4
  <2>4. {q \in Nodes(h, t, o) : h[q].next = p} = {r}
    BY <1>3, <2>2, <2>3
  <2> QED
    BY <1>6, <2>1, <2>4 DEF PointedOnce, BucketsAt, EntriesAt
<1> QED
  BY <1>8, <1>9

LEMMA PointersCounted ==
    ASSUME NEW h, NEW t, NEW o, NEW p, PointedOnce(h, t, o, p)
    PROVE  Cardinality(BucketsAt(t, p)) + Cardinality(BucketsAt(o, p))
              + Cardinality(EntriesAt(h, t, o, p)) = 1
<1>1. Cardinality(BucketsAt(o, p)) = 0
  BY FS_EmptySet DEF PointedOnce
<1>2. \/ Cardinality(EntriesAt(h, t, o, p)) = 0 /\ Cardinality(BucketsAt(t, p)) = 1
      \/ Cardinality(BucketsAt(t, p)) = 0 /\ Cardinality(EntriesAt(h, t, o, p)) = 1
  BY FS_EmptySet, FS_Singleton DEF PointedOnce
<1> QED
  BY <1>1, <1>2

LEMMA OnceInv == IInv => PointedToOnce
<1> SUFFICES ASSUME IInv, pc = "idle", NEW p \in Used
             PROVE  Cardinality({b \in DOMAIN main.table : main.table[b] = p})
                       + Cardinality({b \in DOMAIN rehashing.table : rehashing.table[b] = p})
                       + Cardinality({q \in Used : heap[q].next = p}) = 1
  BY DEF PointedToOnce
<1>1. Shape(heap, main, rehashing) /\ Shape(heap, rehashing, main)
  BY NoMove, ShapeTurns DEF IInv
<1>2. Used = Nodes(heap, main, rehashing) /\ Used = Nodes(heap, rehashing, main)
  BY DEF Used, Nodes
<1> DEFINE A == BucketsAt(main, p)
           B == BucketsAt(rehashing, p)
           Q == EntriesAt(heap, main, rehashing, p)
<1>3. Cardinality(A) + Cardinality(B) + Cardinality(Q) = 1
  <2>1. CASE p \in NodesIn(heap, main)
    BY <1>1, <2>1, OnePointer, PointersCounted
  <2>2. CASE p \in NodesIn(heap, rehashing)
    <3>1. Q = EntriesAt(heap, rehashing, main, p)
      BY <1>2 DEF EntriesAt
    <3>2. PointedOnce(heap, rehashing, main, p)
      BY <1>1, <2>2, OnePointer
    <3>3. Cardinality(B) = 1 \/ Cardinality(B) = 0
      BY <3>2, FS_EmptySet, FS_Singleton DEF PointedOnce
    <3>4. Cardinality(A) = 0
      BY <3>2, FS_EmptySet DEF PointedOnce
    <3>5. Cardinality(B) + Cardinality(A) + Cardinality(Q) = 1
      BY <3>1, <3>2, PointersCounted
    <3> HIDE DEF A, B, Q
    <3> QED
      BY <3>3, <3>4, <3>5
  <2> QED
    BY <2>1, <2>2 DEF Used
<1> QED
  BY <1>2, <1>3, Zenon DEF BucketsAt, EntriesAt

\* Between calls an entry is pointed to by one bucket or by one entry, whatever
\* add, del and rehash have relinked (DickEntry.next, DickTable.table).
THEOREM EntriesPointedToOnce == Spec => []PointedToOnce
BY ChainInvariance, OnceInv, PTL

----------------------------------------------------------------------------
(* Part 7: the size of a table that has just been made *)

LEMMA LeastInv == IInv => LeastPowerThatHolds
<1> SUFFICES ASSUME IInv, pc = "index", Rehashing, ~isRehashing(before)
             PROVE  LeastPower(2 * main.used, rehashing.size)
  BY NextPowerIsLeast DEF LeastPowerThatHolds
<1> DEFINE n == 2 * before.main.used
           e == expandIfNeeded(before)
<1>1. hasher \in Hash /\ DickOK(hasher, before) /\ Searched /\ LiveDick = base
  BY DEF IInv, Control
<1>2. e = [main |-> AsSets(heap, main), rehashing |-> AsSets(heap, rehashing),
           rehashidx |-> rehashidx]
  BY <1>1 DEF base, Searched, LiveDick, Live
<1>3. /\ e.main.used = main.used /\ e.rehashing.size = rehashing.size
      /\ isRehashing(e)
  BY <1>2 DEF AsSets, Rehashing, isRehashing
<1>4. /\ before.main.used \in Nat /\ before.main.size \in Nat
      /\ before.main.used <= Cardinality(Key) /\ Cardinality(Key) \in Nat
  BY <1>1, Counters
<1> HIDE DEF e
<1>5. before.main.size # 0 /\ before.main.used >= before.main.size
  BY <1>3 DEF e, expandIfNeeded, expand, isRehashing
<1>6. e = [before EXCEPT !.rehashing = NewDickTable(nextPower(n)), !.rehashidx = 0]
  BY <1>3, <1>5 DEF e, expandIfNeeded, expand, isRehashing
<1>7. e.main.used = before.main.used /\ e.rehashing.size = nextPower(n)
  BY <1>1, <1>6 DEF NewDickTable, DickOK
<1>8. n \in 1..Pow2[MaxExponent]
  BY <1>4, <1>5, SizesAssumption, Pow2OK, Exponents
<1> QED
  BY <1>3, <1>7, <1>8, NextPowerIsLeast

\* A table that an expansion has just made is the least power of two that holds
\* twice the entries, by the shifts of nextPower, whatever has been stored.
THEOREM TablesLeast == Spec => []LeastPowerThatHolds
BY ChainInvariance, LeastInv, PTL

----------------------------------------------------------------------------
(* Part 8: the chains do what SubDick does with sets *)

LEMMA InitRefines == Init => S!Init
<1> SUFFICES ASSUME Init PROVE S!Init
  OBVIOUS
<1>1. AsDick = NewSubDICK
  BY NewTableEmpty DEF Init, AsDick, NewSubDICK
<1> QED
  BY <1>1, SameSearch DEF Init, S!Init

LEMMA StepRefines == IInv /\ [Next]_vars => [S!Next]_(S!vars)
<1> SUFFICES ASSUME IInv, [Next]_vars PROVE [S!Next]_(S!vars)
  OBVIOUS
<1> DEFINE D == IF pc = "idle" THEN AsDick ELSE before
           k == call.key
           v == call.value
<1>1. ASSUME UNCHANGED <<hasher, reply>>, D' = D PROVE UNCHANGED S!vars
  BY <1>1 DEF S!vars
<1>2. ASSUME NEW c \in Calls, Invoke(c) PROVE UNCHANGED S!vars
  BY <1>1, <1>2, InvokeStep DEF Invoke
<1>3. ASSUME pc # "idle", pc' # "idle", UNCHANGED <<hasher, reply, before>>
      PROVE  UNCHANGED S!vars
  BY <1>1, <1>3
<1>4. CASE Get
  <2>1. /\ D = before /\ D' = before /\ k \in Key /\ UNCHANGED hasher
        /\ reply' = [op |-> "Get", key |-> k,
                     ret |-> IF Finds(hasher, k, before) THEN get(hasher, k, before) ELSE Nil]
    BY <1>4, GetStep DEF Get, Return
  <2>2. S!Get(k)
    BY <2>1, SameSearch DEF S!Get
  <2> QED
    BY <2>1, <2>2 DEF S!Next
<1>5. CASE SetValue
  <2>1. /\ D = before /\ D' = overwrite(hasher, k, v, before) /\ k \in Key /\ v \in Value
        /\ UNCHANGED hasher /\ Finds(hasher, k, before)
        /\ reply' = [op |-> "Set", key |-> k, ret |-> "ok"]
    BY <1>5, SetValueStep, CallOK DEF SetValue, Return
  <2>2. S!Overwrite(k, v)
    BY <2>1, SameSearch DEF S!Overwrite
  <2> QED
    BY <2>1, <2>2 DEF S!Next, S!Set
<1>6. CASE Add
  <2>1. /\ D = before /\ D' = add(hasher, k, v, before) /\ k \in Key /\ v \in Value
        /\ UNCHANGED hasher /\ ~Finds(hasher, k, before) /\ ~addFails(hasher, k, before)
        /\ reply' = [op |-> "Set", key |-> k, ret |-> "ok"]
    <3>1. Searched /\ pc = "add" /\ pc' = "idle"
      BY <1>6, AddWhere DEF Add, Return
    <3> QED
      BY <1>6, <3>1, AddStep, CallOK DEF Searched, Add, Return
  <2>2. S!Add(k, v)
    BY <2>1, SameSearch, SameChanges DEF S!Add
  <2> QED
    BY <2>1, <2>2 DEF S!Next, S!Set
<1>7. ASSUME pc # "idle", pc' = "idle", AsDick' = del(hasher, k, before), k \in Key,
             UNCHANGED hasher,
             reply' = [op |-> "Del", key |-> k,
                       ret |-> IF delFinds(hasher, k, before) THEN "ok"
                               ELSE "entry not found"]
      PROVE  S!Next
  <2>1. S!Del(k)
    BY <1>7, SameChanges DEF S!Del
  <2> QED
    BY <1>7, <2>1 DEF S!Next
<1>8. CASE Del
  <2>1. CASE pc' = "idle"
    BY <1>7, <1>8, <2>1, DelStep DEF Del, Return
  <2>2. CASE pc' # "idle"
    BY <1>3, <1>8, <2>2, DelStep DEF Del, Return, Same
  <2> QED
    BY <2>1, <2>2
<1>9. CASE Unlink
  BY <1>7, <1>9, UnlinkStep DEF Unlink, Return
<1>10. CASE Expand
  BY <1>3, <1>10 DEF Expand, Goto, Same
<1>11. CASE KeyIndex
  BY <1>3, <1>11, KeyIndexStep DEF KeyIndex, Return, Same
<1>12. CASE Skip
  BY <1>3, <1>12, SkipStep DEF Skip, Same
<1>13. CASE MoveEntry
  BY <1>3, <1>13, MoveEntryStep DEF MoveEntry, Same
<1>14. CASE MoveDone
  BY <1>3, <1>14, MoveDoneStep DEF MoveDone, Goto, Same
<1>15. CASE FinishRehash
  BY <1>3, <1>15, FinishRehashStep DEF FinishRehash, Goto, Same
<1>16. CASE UNCHANGED vars
  BY <1>1, <1>16 DEF vars, AsDick
<1> QED
  BY <1>2, <1>4, <1>5, <1>6, <1>8, <1>9, <1>10, <1>11, <1>12, <1>13, <1>14, <1>15,
     <1>16 DEF Next, Step

\* Get, Set and Del with chains of pointers, one entry relinked at a time, are
\* SubDick's operations on sets of entries, in whatever order the chains are.
THEOREM ChainsRefine == Spec => ImplementsSubDick
<1>1. Init => S!Init
  BY InitRefines
<1>2. IInv /\ [Next]_vars => [S!Next]_(S!vars)
  BY StepRefines
<1> QED
  BY <1>1, <1>2, ChainInvariance, PTL DEF Spec, ImplementsSubDick, S!Spec

\* The map the chains stand for.
Map == INSTANCE KVStore WITH kv <- Contents(IF pc = "idle" THEN AsDick ELSE before)

LEMMA MapStepRefines == IInv /\ [S!Next]_(S!vars) => [Map!KVNext]_(Map!kvVars)
<1> DEFINE D == IF pc = "idle" THEN AsDick ELSE before
<1> SUFFICES ASSUME IInv, [S!Next]_(S!vars) PROVE [Map!KVNext]_(Map!kvVars)
  OBVIOUS
<1>1. hasher \in Hash /\ DickOK(hasher, D) /\ Absent \notin Value
  BY NoMove, ChainAssumption DEF IInv, Control
<1>2. ASSUME NEW k \in Key, S!Get(k) PROVE Map!KVGet(k)
  <2>1. /\ D' = D
        /\ reply' = [op |-> "Get", key |-> k,
                     ret |-> IF Finds(hasher, k, D) THEN get(hasher, k, D) ELSE Nil]
    BY <1>2, SameSearch DEF S!Get
  <2>2. UNCHANGED Contents(D)
    BY <2>1
  <2> HIDE DEF D
  <2>3. reply' = [op |-> "Get", key |-> k,
                  ret |-> IF Contents(D)[k] = Absent THEN Nil ELSE Contents(D)[k]]
    BY <1>1, <2>1, GetContents
  <2> QED
    BY <2>2, <2>3 DEF D, Map!KVGet
<1>3. ASSUME NEW k \in Key, S!Del(k) PROVE Map!KVDel(k)
  <2>1. /\ D' = del(hasher, k, D)
        /\ reply' = [op |-> "Del", key |-> k,
                     ret |-> IF delFinds(hasher, k, D) THEN "ok" ELSE "entry not found"]
    BY <1>3, SameChanges DEF S!Del
  <2> HIDE DEF D
  <2>2. /\ Contents(D') = [Contents(D) EXCEPT ![k] = Absent]
        /\ reply' = [op |-> "Del", key |-> k,
                     ret |-> IF Contents(D)[k] = Absent THEN "entry not found" ELSE "ok"]
    BY <1>1, <2>1, DelContents
  <2> QED
    BY <2>2 DEF D, Map!KVDel
<1>4. ASSUME NEW k \in Key, NEW v \in Value, S!Set(k, v) PROVE Map!KVSet(k, v)
  <2>1. CASE S!Overwrite(k, v)
    <3>1. /\ Finds(hasher, k, D) /\ D' = overwrite(hasher, k, v, D)
          /\ reply' = [op |-> "Set", key |-> k, ret |-> "ok"]
      BY <2>1, SameSearch DEF S!Overwrite
    <3> HIDE DEF D
    <3>2. Contents(D') = [Contents(D) EXCEPT ![k] = v]
      BY <1>1, <3>1, SetContents
    <3> QED
      BY <3>1, <3>2 DEF D, Map!KVSet
  <2>2. CASE S!Add(k, v)
    <3>1. /\ ~Finds(hasher, k, D) /\ D' = add(hasher, k, v, D)
          /\ reply' = [op |-> "Set", key |-> k,
                       ret |-> IF addFails(hasher, k, D) THEN "unexpectedly found"
                               ELSE "ok"]
      BY <2>2, SameSearch, SameChanges DEF S!Add
    <3> HIDE DEF D
    <3>2. ~addFails(hasher, k, D)
      BY <1>1, <3>1, AddOK
    <3>3. Contents(D') = [Contents(D) EXCEPT ![k] = v]
      <4>1. ~Finds(hasher, k, D) /\ D' = add(hasher, k, v, D)
        BY <3>1
      <4>2. Contents(add(hasher, k, v, D)) = [Contents(D) EXCEPT ![k] = v]
        BY <1>1, <4>1, SetContents
      <4> QED
        BY <4>1, <4>2
    <3> QED
      BY <3>1, <3>2, <3>3 DEF D, Map!KVSet
  <2> QED
    BY <1>4, <2>1, <2>2 DEF S!Set
<1>5. CASE UNCHANGED S!vars
  BY <1>5 DEF S!vars, Map!kvVars
<1> QED
  BY <1>2, <1>3, <1>4, <1>5 DEF S!Next, Map!KVNext

\* Both refinements composed: what calls that relink chains of pointers promise
\* is one map, through every expansion and every partial move.
THEOREM ChainsAreAMap == Spec => Map!KVSpec
<1>1. Init => Map!KVInit
  <2> SUFFICES ASSUME Init PROVE Map!KVInit
    OBVIOUS
  <2>1. IInv /\ pc = "idle"
    BY InitInv DEF Init
  <2>2. hasher \in Hash /\ DickOK(hasher, AsDick) /\ AsDick = NewSubDICK
    BY <2>1, NoMove, NewTableEmpty DEF IInv, Control, Init, AsDick, NewSubDICK
  <2>3. Contents(AsDick) = [k \in Key |-> Absent]
    BY <2>2, NewDickOK, ContentsValue, ChainAssumption
  <2> QED
    BY <2>1, <2>3 DEF Map!KVInit, Map!NoReply, Init, S!NoReply
<1>2. IInv /\ [Next]_vars => [Map!KVNext]_(Map!kvVars)
  BY StepRefines, MapStepRefines
<1> QED
  BY <1>1, <1>2, ChainInvariance, PTL DEF Spec, Map!KVSpec
=============================================================================

------------------------- MODULE ClientPoolProofs -------------------------
(***************************************************************************)
(* ClientPool for any rounds, any Parallel and any random strings: the     *)
(* connections are bounded, each has one owner, the slice of the handler   *)
(* holds them all, the comparisons are just and the test ends.             *)
(***************************************************************************)
EXTENDS ClientPool, FiniteSetTheorems, TLAPS

WorkerPC == {"none", "start", "select", "dial", "dialing", "work", "report",
             "second", "release", "end", "failed"}

PT == /\ wpc \in [Worker -> WorkerPC]
      /\ conn \in [Worker -> Nat]
      /\ parChan \in SUBSET Worker
      /\ cliChan \in Seq(Nat)
      /\ id \in Nat

Busy(w) == wpc[w] \notin {"none", "start", "end"}

\* Who is between Acquire and Release has a token, a failed goroutine too.
Tokens == /\ \A w \in Worker : Busy(w) => w \in parChan
          /\ Cardinality(parChan) <= Parallel

NoChecks == mpc \in {"insert", "maps"} =>
                \A r \in Round : wpc[<<"check", r>>] = "none"

\* Every connection is in use or in cliChan.
Counted == id = Len(cliChan) + Cardinality(Owners)

Ids == /\ \A w \in Owners : conn[w] \in 1..id
       /\ \A i \in 1..Len(cliChan) : cliChan[i] \in 1..id

Slice == /\ slots \in Nat /\ slots > id
         /\ Clients = [i \in DOMAIN Clients |-> Clients[i]]
         /\ DOMAIN Clients = 0..(IF slots = 1 THEN 1 ELSE slots - 1)
         /\ SliceHoldsConns

PInv == PT /\ Tokens /\ NoChecks /\ Counted /\ Ids /\ OneOwner
           /\ ConnsBounded /\ Slice

----------------------------------------------------------------------------
LEMMA Finite == IsFiniteSet(Worker)
<1>1. IsFiniteSet({"insert"} \cup {"check"})
  BY FS_EmptySet, FS_Singleton, FS_AddElement
<1>2. {"insert"} \cup {"check"} = {"insert", "check"}
  OBVIOUS
<1> QED BY <1>1, <1>2, FS_Product, PoolAssumption DEF Worker

LEMMA CheckWorker == \A r \in Round : <<"check", r>> \in Worker
BY DEF Worker

LEMMA FiniteParts ==
    ASSUME NEW S \in SUBSET Worker
    PROVE  IsFiniteSet(S) /\ Cardinality(S) \in Nat
BY Finite, FS_Subset, FS_CardinalityType

LEMMA Counts ==
    ASSUME NEW S \in SUBSET Worker, NEW w \in Worker
    PROVE  /\ Cardinality(S) \in Nat
           /\ w \notin S => Cardinality(S \cup {w}) = Cardinality(S) + 1
           /\ w \in S => Cardinality(S \ {w}) = Cardinality(S) - 1
<1>1. IsFiniteSet(S) /\ Cardinality(S) \in Nat
  BY FiniteParts
<1>2. w \notin S => Cardinality(S \cup {w}) = Cardinality(S) + 1
  BY <1>1, FS_AddElement
<1>3. w \in S => Cardinality(S \ {w}) = Cardinality(S) - 1
  BY <1>1, FS_RemoveElement
<1> QED BY <1>1, <1>2, <1>3

LEMMA Parts == Owners \in SUBSET Worker /\ Dialing \in SUBSET Worker
BY DEF Owners, Dialing

\* What moving one goroutine does to the two sets that are counted.
LEMMA Moved ==
    ASSUME PT, NEW w \in Worker, NEW to \in WorkerPC,
           wpc' = [wpc EXCEPT ![w] = to]
    PROVE  /\ to = "work" => Owners' = Owners \cup {w}
           /\ to # "work" => Owners' = Owners \ {w}
           /\ to \in {"dial", "dialing"} => Dialing' = Dialing \cup {w}
           /\ to \notin {"dial", "dialing"} => Dialing' = Dialing \ {w}
           /\ to # "work" /\ w \notin Owners => Owners' = Owners
           /\ to \notin {"dial", "dialing"} /\ w \notin Dialing => Dialing' = Dialing
BY DEF PT, Owners, Dialing

\* A step that touches no connection and moves nobody in or out of the sets.
LEMMA Quiet ==
    ASSUME PInv, PT', Tokens', NoChecks', Owners' = Owners, Dialing' = Dialing,
           UNCHANGED <<conn, cliChan, id, slots, Clients>>
    PROVE  PInv'
BY DEF PInv, Counted, Ids, OneOwner, ConnsBounded, Slice, SliceHoldsConns

\* ... a goroutine that goes on, holding its token.
LEMMA GoesOn ==
    ASSUME PInv, NEW w \in Worker, NEW to \in {"report", "second", "release"},
           Busy(w), w \notin Owners \cup Dialing, wpc' = [wpc EXCEPT ![w] = to],
           UNCHANGED <<mpc, conn, parChan, cliChan, id, slots, Clients>>
    PROVE  PInv'
<1> USE DEF PInv
<1>1. PT' BY DEF PT, WorkerPC
<1>2. Tokens' BY DEF Tokens, PT, Busy
<1>3. NoChecks' BY CheckWorker DEF NoChecks, PT, Busy
<1>4. Owners' = Owners /\ Dialing' = Dialing
  BY Moved DEF WorkerPC, Owners, Dialing
<1> QED BY <1>1, <1>2, <1>3, <1>4, Quiet

LEMMA StaysPut ==
    ASSUME PInv, UNCHANGED <<wpc, conn, pool, id, slots, Clients>>,
           mpc' \in {"insert", "maps"} => mpc \in {"insert", "maps"}
    PROVE  PInv'
<1> USE DEF PInv, pool
<1>1. PT' BY DEF PT, WorkerPC
<1>2. Tokens' BY DEF Tokens, Busy
<1>3. NoChecks' BY DEF NoChecks
<1>4. Owners' = Owners /\ Dialing' = Dialing BY DEF Owners, Dialing
<1> QED BY <1>1, <1>2, <1>3, <1>4, Quiet

----------------------------------------------------------------------------
(* Steps that move connections *)

LEMMA AcquireOK ==
    ASSUME PInv, NEW w \in Worker, Acquire(w)
    PROVE  PInv'
<1> USE DEF PInv, Acquire, Goto, main, local, handler
<1>1. PT' BY DEF PT, WorkerPC
<1>2. Tokens'
  <2>1. IsFiniteSet(parChan) /\ Cardinality(parChan) \in Nat
    BY FiniteParts DEF PT
  <2>2. Cardinality(parChan \cup {w}) \in {Cardinality(parChan), Cardinality(parChan) + 1}
    BY <2>1, FS_AddElement
  <2>3. Cardinality(parChan') <= Parallel
    BY <2>1, <2>2, PoolAssumption
  <2> QED BY <2>3 DEF Tokens, PT, Busy
<1>3. NoChecks' BY CheckWorker DEF NoChecks, PT
<1>4. Owners' = Owners /\ Dialing' = Dialing BY Moved DEF Owners, Dialing, WorkerPC
<1> QED BY <1>1, <1>2, <1>3, <1>4, Quiet

LEMMA TakeOpenOK ==
    ASSUME PInv, NEW w \in Worker, TakeOpen(w)
    PROVE  PInv'
<1> USE DEF PInv, TakeOpen, Goto, main, handler
<1>0. /\ Len(cliChan) \in Nat /\ Len(cliChan) > 0
      /\ Len(cliChan') = Len(cliChan) - 1
      /\ \A i \in 1..Len(cliChan') : cliChan'[i] = cliChan[i + 1]
      /\ Head(cliChan) = cliChan[1]
  BY DEF PT
<1>1. PT' BY DEF PT, WorkerPC
<1>2. Tokens' BY DEF Tokens, PT, Busy
<1>3. NoChecks' BY CheckWorker DEF NoChecks, PT
<1>4. w \notin Owners /\ w \notin Dialing BY DEF Owners, Dialing
<1>m. Owners' = Owners \cup {w} /\ Dialing' = Dialing
  BY <1>4, Moved DEF WorkerPC
<1>5. /\ Owners' = Owners \cup {w} /\ Dialing' = Dialing
      /\ Cardinality(Owners') = Cardinality(Owners) + 1
      /\ Cardinality(Owners) \in Nat
  BY <1>4, <1>m, Counts, Parts
<1>6. Counted' BY <1>0, <1>5 DEF Counted, PT
<1>7. conn'[w] = cliChan[1] /\ \A v \in Owners : conn'[v] = conn[v]
  BY <1>0, <1>4 DEF PT, Owners
<1>8. Ids' BY <1>0, <1>5, <1>7 DEF Ids, PT
<1>9. OneOwner'
  <2>1. \A u, v \in Owners' : conn'[u] = conn'[v] => u = v
    BY <1>0, <1>5, <1>7 DEF OneOwner
  <2>2. \A v \in Owners', i \in 1..Len(cliChan') : cliChan'[i] # conn'[v]
    BY <1>0, <1>5, <1>7 DEF OneOwner
  <2>3. \A i, j \in 1..Len(cliChan') : cliChan'[i] = cliChan'[j] => i = j
    BY <1>0 DEF OneOwner
  <2> QED BY <2>1, <2>2, <2>3 DEF OneOwner
<1>10. ConnsBounded' BY <1>5 DEF ConnsBounded
<1>11. Slice' BY DEF Slice, SliceHoldsConns
<1> QED BY <1>1, <1>2, <1>3, <1>6, <1>8, <1>9, <1>10, <1>11

\* No connection is open, so all are in use, each by a holder of a token.
LEMMA NoneOpenOK ==
    ASSUME PInv, NEW w \in Worker, NoneOpen(w)
    PROVE  PInv'
<1> USE DEF PInv, NoneOpen, Goto, main, local, pool, handler
<1>1. PT' BY DEF PT, WorkerPC
<1>2. Tokens' BY DEF Tokens, PT, Busy
<1>3. NoChecks' BY CheckWorker DEF NoChecks, PT
<1>4. w \notin Owners /\ w \notin Dialing BY DEF Owners, Dialing
<1>5. Owners' = Owners /\ Dialing' = Dialing \cup {w} /\ id' = id
  BY <1>4, Moved DEF WorkerPC
<1>6. Counted' BY <1>5 DEF Counted
<1>7. Ids' BY <1>5 DEF Ids
<1>8. OneOwner' BY <1>5 DEF OneOwner
<1>9. ConnsBounded'
  <2>1. id = Cardinality(Owners)
    <3>1. Len(cliChan) = 0 BY DEF PT
    <3>2. Cardinality(Owners) \in Nat BY FiniteParts DEF Owners
    <3> QED BY <3>1, <3>2 DEF Counted
  <2>2. Owners \cup Dialing' \subseteq parChan
    BY <1>4, <1>5 DEF Tokens, Busy, Owners, Dialing
  <2>3. Owners \cap Dialing' = {}
    BY <1>4, <1>5 DEF Owners, Dialing
  <2>4. IsFiniteSet(parChan) /\ Cardinality(parChan) \in Nat
    BY FiniteParts DEF PT
  <2>5. /\ Owners \in SUBSET Worker /\ Dialing' \in SUBSET Worker
        /\ Owners \cup Dialing' \in SUBSET Worker
    BY <1>5 DEF Owners, Dialing
  <2>6. /\ IsFiniteSet(Owners) /\ Cardinality(Owners) \in Nat
        /\ IsFiniteSet(Dialing') /\ Cardinality(Dialing') \in Nat
        /\ IsFiniteSet(Owners \cup Dialing')
        /\ Cardinality(Owners \cup Dialing') \in Nat
    BY <2>5, FiniteParts
  <2>7. Cardinality(Owners \cup Dialing') = Cardinality(Owners) + Cardinality(Dialing')
    <3>1. Cardinality(Owners \cup Dialing') =
              Cardinality(Owners) + Cardinality(Dialing') - Cardinality(Owners \cap Dialing')
      BY <2>6, FS_Union
    <3>2. Cardinality(Owners \cap Dialing') = 0
      BY <2>3, FS_EmptySet
    <3> QED BY <2>6, <3>1, <3>2
  <2>8. Cardinality(Owners \cup Dialing') <= Cardinality(parChan)
    BY <2>2, <2>4, FS_Subset
  <2> QED BY <1>5, <2>1, <2>4, <2>6, <2>7, <2>8, PoolAssumption DEF ConnsBounded, Tokens
<1>10. Slice' BY DEF Slice, SliceHoldsConns
<1> QED BY <1>1, <1>2, <1>3, <1>6, <1>7, <1>8, <1>9, <1>10

LEMMA LockHandlerOK ==
    ASSUME PInv, NEW w \in Worker, LockHandler(w)
    PROVE  PInv'
<1> USE DEF PInv, LockHandler, Goto, main, local, pool
<1>1. PT' BY DEF PT, WorkerPC
<1>2. Tokens' BY DEF Tokens, PT, Busy
<1>3. NoChecks' BY CheckWorker DEF NoChecks, PT
<1>4. Owners' = Owners /\ Dialing' = Dialing BY Moved DEF Owners, Dialing, WorkerPC
<1> QED BY <1>1, <1>2, <1>3, <1>4, Quiet

\* expandSlice makes room for the next id and keeps what is there.
LEMMA ExpandOK ==
    ASSUME Slice, id \in Nat, id' = id + 1, slots' = NewSlots(id'),
           Clients' = [expandSlice(id') EXCEPT ![id'] = id']
    PROVE  Slice'
<1>1. CASE slots > id'
  <2>1. slots' = slots /\ expandSlice(id') = Clients
    BY <1>1 DEF NewSlots, expandSlice
  <2>2. id' \in DOMAIN Clients BY <1>1 DEF Slice
  <2> QED BY <1>1, <2>1, <2>2 DEF Slice, SliceHoldsConns
<1>2. CASE ~(slots > id')
  <2>1. slots = id' /\ slots' = 2 * slots /\ slots' # slots
    BY <1>2 DEF NewSlots, Slice
  <2>2. expandSlice(id') = [i \in 0..2 * slots - 1 |->
                               IF i \in DOMAIN Clients THEN Clients[i] ELSE Nil]
    BY <2>1 DEF NewSlots, expandSlice
  <2>3. Clients' = [i \in 0..2 * slots - 1 |-> IF i = id' THEN id'
                       ELSE IF i \in DOMAIN Clients THEN Clients[i] ELSE Nil]
    BY <2>1, <2>2
  <2>4. DOMAIN Clients' = 0..slots' - 1 /\ slots' # 1
    BY <2>1, <2>3 DEF Slice
  <2>5. SliceHoldsConns'
    <3>1. \A i \in 1..id : i \in DOMAIN Clients /\ Clients[i] = i
      BY DEF Slice, SliceHoldsConns
    <3>2. \A i \in 1..id' : i \in 0..2 * slots - 1 /\ (i # id' => i \in 1..id)
      BY <2>1 DEF Slice
    <3>3. \A i \in 1..id' : i \in DOMAIN Clients' /\ Clients'[i] = i
      BY <2>3, <3>1, <3>2
    <3> QED BY <3>3 DEF SliceHoldsConns
  <2> QED BY <2>1, <2>3, <2>4, <2>5 DEF Slice
<1> QED BY <1>1, <1>2

LEMMA ConnectedOK ==
    ASSUME PInv, NEW w \in Worker, Connected(w)
    PROVE  PInv'
<1> USE DEF PInv, Connected, Goto, main, pool
<1>1. PT' BY DEF PT, WorkerPC
<1>2. Tokens' BY DEF Tokens, PT, Busy
<1>3. NoChecks' BY CheckWorker DEF NoChecks, PT
<1>4. w \notin Owners /\ w \in Dialing BY DEF Owners, Dialing
<1>m. Owners' = Owners \cup {w} /\ Dialing' = Dialing \ {w}
  BY <1>4, Moved DEF WorkerPC
<1>5. /\ Owners' = Owners \cup {w} /\ Dialing' = Dialing \ {w}
      /\ Cardinality(Owners') = Cardinality(Owners) + 1
      /\ Cardinality(Dialing') = Cardinality(Dialing) - 1
      /\ Cardinality(Owners) \in Nat /\ Cardinality(Dialing) \in Nat
  BY <1>4, <1>m, Counts, Parts
<1>6. Counted' BY <1>5 DEF Counted, PT
<1>7. conn'[w] = id + 1 /\ \A v \in Owners : conn'[v] = conn[v]
  BY <1>4 DEF PT, Owners
<1>u. /\ id \in Nat /\ id' = id + 1 /\ cliChan' = cliChan
      /\ Owners' = Owners \cup {w}
  BY <1>5 DEF PT
<1>8. Ids'
  <2>1. \A v \in Owners' : conn'[v] \in 1..id'
    BY <1>7, <1>u DEF Ids
  <2>2. \A i \in 1..Len(cliChan) : cliChan[i] \in 1..id'
    BY <1>u DEF Ids
  <2> QED BY <1>u, <2>1, <2>2 DEF Ids
<1>9. OneOwner'
  <2>1. \A u, v \in Owners' : conn'[u] = conn'[v] => u = v
    BY <1>7, <1>u DEF OneOwner, Ids
  <2>2. \A v \in Owners', i \in 1..Len(cliChan) : cliChan[i] # conn'[v]
    BY <1>7, <1>u DEF OneOwner, Ids
  <2> QED BY <1>u, <2>1, <2>2 DEF OneOwner
<1>10. ConnsBounded' BY <1>5, PoolAssumption DEF ConnsBounded, PT
<1>11. Slice' BY ExpandOK DEF PT
<1> QED BY <1>1, <1>2, <1>3, <1>6, <1>8, <1>9, <1>10, <1>11

LEMMA DialFailsOK ==
    ASSUME PInv, NEW w \in Worker, DialFails(w)
    PROVE  PInv'
<1> USE DEF PInv, DialFails, Goto, main, local, pool
<1>1. PT' BY DEF PT, WorkerPC
<1>2. Tokens' BY DEF Tokens, PT, Busy
<1>3. NoChecks' BY CheckWorker DEF NoChecks, PT
<1>4. w \notin Owners /\ w \in Dialing BY DEF Owners, Dialing
<1>m. Owners' = Owners /\ Dialing' = Dialing \ {w}
  BY <1>4, Moved DEF WorkerPC
<1>5. /\ Owners' = Owners /\ id' = id
      /\ Cardinality(Dialing') = Cardinality(Dialing) - 1
      /\ Cardinality(Dialing) \in Nat
  BY <1>4, <1>m, Counts, Parts
<1>6. Counted' /\ Ids' /\ OneOwner' BY <1>5 DEF Counted, Ids, OneOwner
<1>7. ConnsBounded' BY <1>5, PoolAssumption DEF ConnsBounded, PT
<1>8. Slice' BY DEF Slice, SliceHoldsConns
<1> QED BY <1>1, <1>2, <1>3, <1>6, <1>7, <1>8

LEMMA GiveBackOK ==
    ASSUME PInv, NEW w \in Worker, GiveBack(w)
    PROVE  PInv'
<1> USE DEF PInv, GiveBack, Goto, main, handler
<1>0. /\ conn[w] \in Nat /\ Len(cliChan) \in Nat
      /\ Len(cliChan') = Len(cliChan) + 1
      /\ \A i \in 1..Len(cliChan') : cliChan'[i] =
             IF i = Len(cliChan) + 1 THEN conn[w] ELSE cliChan[i]
  BY DEF PT
<1>1. PT' BY <1>0 DEF PT, NoConn, WorkerPC
<1>2. Tokens' BY DEF Tokens, PT, Busy
<1>3. NoChecks' BY CheckWorker DEF NoChecks, PT
<1>4. w \in Owners /\ w \notin Dialing BY DEF Owners, Dialing
<1>m. Owners' = Owners \ {w} /\ Dialing' = Dialing
  BY <1>4, Moved DEF WorkerPC
<1>5. /\ Owners' = Owners \ {w} /\ Dialing' = Dialing
      /\ Cardinality(Owners') = Cardinality(Owners) - 1
      /\ Cardinality(Owners) \in Nat
  BY <1>4, <1>m, Counts, Parts
<1>6. Counted' BY <1>0, <1>5 DEF Counted, PT
<1>7. \A v \in Owners' : conn'[v] = conn[v]
  BY <1>5 DEF PT, Owners
<1>8. Ids' BY <1>0, <1>4, <1>5, <1>7 DEF Ids, PT
<1>9. OneOwner'
  <2>1. \A u, v \in Owners' : conn'[u] = conn'[v] => u = v
    BY <1>5, <1>7 DEF OneOwner
  <2>2. \A v \in Owners', i \in 1..Len(cliChan') : cliChan'[i] # conn'[v]
    BY <1>0, <1>4, <1>5, <1>7 DEF OneOwner
  <2>3. \A i, j \in 1..Len(cliChan') : cliChan'[i] = cliChan'[j] => i = j
    BY <1>0, <1>4 DEF OneOwner
  <2> QED BY <2>1, <2>2, <2>3 DEF OneOwner
<1>10. ConnsBounded' BY <1>5 DEF ConnsBounded
<1>11. Slice' BY DEF Slice, SliceHoldsConns
<1> QED BY <1>1, <1>2, <1>3, <1>6, <1>8, <1>9, <1>10, <1>11

LEMMA ReleaseOK ==
    ASSUME PInv, NEW w \in Worker, Release(w)
    PROVE  PInv'
<1> USE DEF PInv, Release, Goto, main, local, handler
<1>1. PT' BY DEF PT, WorkerPC
<1>2. Tokens'
  <2>1. IsFiniteSet(parChan) /\ Cardinality(parChan) \in Nat
    BY FiniteParts DEF PT
  <2>2. Cardinality(parChan \ {w}) <= Cardinality(parChan)
    BY <2>1, FS_Subset
  <2>3. Cardinality(parChan') <= Parallel
    BY <2>1, <2>2, PoolAssumption, FiniteParts DEF Tokens, PT
  <2> QED BY <2>3 DEF Tokens, PT, Busy
<1>3. NoChecks' BY CheckWorker DEF NoChecks, PT
<1>4. Owners' = Owners /\ Dialing' = Dialing BY Moved DEF Owners, Dialing, WorkerPC
<1> QED BY <1>1, <1>2, <1>3, <1>4, Quiet

\* main starts the checks: none of them was there before.
LEMMA StartChecksOK ==
    ASSUME PInv, mpc \in {"insert", "maps"}, mpc' = "check", StartChecks,
           UNCHANGED <<conn, pool, id, slots, Clients>>
    PROVE  PInv'
<1> USE DEF PInv, StartChecks, pool
<1>1. PT' BY DEF PT, WorkerPC
<1>0. \A w \in Worker : w[1] = "check" => wpc[w] = "none"
  BY DEF NoChecks, Worker
<1>2. Tokens' BY <1>0 DEF Tokens, PT, Busy
<1>3. NoChecks' BY DEF NoChecks
<1>4. Owners' = Owners /\ Dialing' = Dialing BY <1>0 DEF PT, Owners, Dialing
<1> QED BY <1>1, <1>2, <1>3, <1>4, Quiet

----------------------------------------------------------------------------
LEMMA Initially == Init => PInv
<1> SUFFICES ASSUME Init PROVE PInv
  OBVIOUS
<1> USE DEF Init
<1>1. PT BY DEF PT, NoConn, WorkerPC
<1>2. Tokens BY FS_EmptySet, PoolAssumption DEF Tokens, Busy, Worker
<1>3. NoChecks BY DEF NoChecks, Worker
<1>4. Owners = {} /\ Dialing = {} BY DEF Owners, Dialing
<1>5. Counted /\ Ids /\ OneOwner BY <1>4, FS_EmptySet DEF Counted, Ids, OneOwner
<1>6. ConnsBounded BY <1>4, FS_EmptySet, PoolAssumption DEF ConnsBounded
<1>7. Slice BY DEF Slice, SliceHoldsConns
<1> QED BY <1>1, <1>2, <1>3, <1>5, <1>6, <1>7 DEF PInv

LEMMA GetConnOK ==
    ASSUME PInv, NEW w \in Worker, GetConn(w)
    PROVE  PInv'
<1>1. CASE ConnectedDaemon(w)
  BY <1>1, StaysPut DEF ConnectedDaemon, local, handler
<1> QED BY <1>1, AcquireOK, TakeOpenOK, NoneOpenOK, LockHandlerOK, ConnectedOK,
           DialFailsOK DEF GetConn

LEMMA WorkerOK ==
    ASSUME PInv, NEW w \in Worker, WorkerStep(w) \/ CallFails(w)
    PROVE  PInv'
<1>0. w[2] \in Round BY DEF Worker
<1>w. w[1] = "insert" => w = <<"insert", w[2]>> BY DEF Worker
<1>c. w[1] = "check" => w = <<"check", w[2]>> BY DEF Worker
<1> DEFINE r == w[2]
<1>1. CASE Insert(r)
  BY <1>1, StaysPut DEF Insert, main, handler
<1>2. CASE Verify(r)
  BY <1>2, StaysPut DEF Verify, main, Fatalf, handler
<1>3. CASE CallFails(w)
  BY <1>3, StaysPut DEF CallFails, Fatalf, local, handler
<1>4. CASE w[1] = "insert" /\ SendMap(r)
  BY <1>4, <1>w, GoesOn DEF SendMap, First, unreported, main, local, pool,
                            handler, Busy, Owners, Dialing
<1>5. CASE w[1] = "insert" /\ SendSetDone(r)
  BY <1>5, <1>w, GoesOn DEF SendSetDone, Only, Second, unreported, main, local,
                            pool, handler, Busy, Owners, Dialing
<1>6. CASE w[1] = "check" /\ SendInt(r)
  BY <1>6, <1>c, GoesOn DEF SendInt, First, Second, unreported, main, local,
                            pool, handler, Busy, Owners, Dialing
<1>7. CASE w[1] = "check" /\ SendGetDone(r)
  BY <1>7, <1>c, GoesOn DEF SendGetDone, First, Second, unreported, main, local,
                            pool, handler, Busy, Owners, Dialing
<1> QED BY <1>1, <1>2, <1>3, <1>4, <1>5, <1>6, <1>7, GetConnOK, GiveBackOK,
           ReleaseOK DEF WorkerStep

LEMMA MainOK ==
    ASSUME PInv, MainStep
    PROVE  PInv'
<1>1. CASE MainSetDone /\ StartChecks /\ mpc' = "check"
  BY <1>1, StartChecksOK DEF MainSetDone, handler
<1>2. CASE MainSetDone /\ UNCHANGED wpc
  BY <1>2, StaysPut DEF MainSetDone, handler
<1>3. CASE MainMaps /\ StartChecks /\ mpc' = "check"
  BY <1>3, StartChecksOK DEF MainMaps, handler
<1>4. CASE MainMaps /\ UNCHANGED wpc
  BY <1>4, StaysPut DEF MainMaps, handler
<1>5. CASE MainGetDone
  BY <1>5, StaysPut DEF MainGetDone, local, handler
<1>6. CASE MainSum
  BY <1>6, StaysPut DEF MainSum, local, handler
<1> QED BY <1>1, <1>2, <1>3, <1>4, <1>5, <1>6
        DEF MainStep, MainSetDone, MainMaps

LEMMA NextKeeps == PInv /\ [Next]_vars => PInv'
<1> SUFFICES ASSUME PInv, [Next]_vars PROVE PInv'
  OBVIOUS
<1>1. CASE UNCHANGED vars
  BY <1>1, StaysPut DEF vars, main, local, pool, handler
<1> QED BY <1>1, WorkerOK, MainOK DEF Next, Work

\* The inductive invariant of the pool, for any number of rounds.
THEOREM PoolInvariance == Spec => []PInv
BY NextKeeps, Initially, PTL DEF Spec

\* A goroutine that returns its connection is never blocked by a full cliChan:
\* the connections, with those being dialled, are at most Parallel.
THEOREM PoolBounded == Spec => []ConnsBounded
<1>1. PInv => ConnsBounded BY DEF PInv
<1> QED BY <1>1, PoolInvariance, PTL

\* No two goroutines ever use the same connection of the unlocked socket client.
THEOREM PoolOwners == Spec => []OneOwner
<1>1. PInv => OneOwner BY DEF PInv
<1> QED BY <1>1, PoolInvariance, PTL

\* expandSlice always leaves room for the next id and keeps every connection.
THEOREM PoolSlice == Spec => []SliceHoldsConns
<1>1. PInv => SliceHoldsConns BY DEF PInv, Slice
<1> QED BY <1>1, PoolInvariance, PTL

\* Every connection there is, or is being dialled, is bounded and has its place.
THEOREM PoolTracked == Spec => []ConnsTracked
<1>1. ConnsBounded /\ SliceHoldsConns => ConnsTracked BY DEF ConnsTracked
<1> QED BY <1>1, PoolBounded, PoolSlice, PTL
----------------------------------------------------------------------------
(* The comparison: what the checks expect is on the server *)

\* The goroutine of round r that inserts is past its loop, or has reported.
AtEnd(r) == wpc[<<"insert", r>>] \in {"report", "second", "release", "end"}
Over(r)  == wpc[<<"insert", r>>] \in {"release", "end"}
Reported == {r \in Round : Over(r)}

Checking(r) == wpc[<<"check", r>>] # "none"

RT == /\ set \in [Round -> 0..Items]
      /\ DOMAIN testmap = Round /\ DOMAIN todo = Round
      /\ setdone \in Nat /\ SetDoneChan \in Nat
      /\ randomize \in BOOLEAN

\* main has been told, or is being told, of those that have reported.
Told == setdone + SetDoneChan = Cardinality(Reported)

\* No check before the last insertion.
InsertsOver == mpc = "maps" \/ (\E r \in Round : Checking(r)) => Reported = Round

AllInserted == \A r \in Round : AtEnd(r) => set[r] = Items

\* f[k] is v.
Has(f, k, v) == k \in DOMAIN f /\ f[k] = v

\* The server has what was inserted; of random keys, unless two rounds share one.
Held == IF randomize
        THEN Collision \/ \A r \in Round : \A k \in DOMAIN testmap[r] : Has(kv, k, testmap[r][k])
        ELSE \A r \in Round : \A i \in 1..set[r] : Has(kv, <<r, i>>, <<r, i>>)

Expected == \A r \in Round : Checking(r) => todo[r] \subseteq Wanted(r)

FInv == /\ PInv /\ RT /\ Told /\ InsertsOver /\ AllInserted /\ Held /\ Expected
        /\ FatalMeansCollision

LEMMA InsertWorker == \A r \in Round : <<"insert", r>> \in Worker
BY DEF Worker

LEMMA ReportedCounts ==
    /\ IsFiniteSet(Round) /\ Rounds \in Nat
    /\ IsFiniteSet(Reported) /\ Cardinality(Reported) \in Nat
    /\ Cardinality(Reported) = Rounds => Reported = Round
<1>1. IsFiniteSet(Round) /\ Reported \subseteq Round
  BY PoolAssumption DEF Reported
<1> QED BY <1>1, FS_Subset, FS_CardinalityType DEF Rounds

\* A step that inserts nothing, compares nothing and reports no insertion.
LEMMA Apart ==
    ASSUME FInv, PInv',
           UNCHANGED <<randomize, kv, testmap, set, todo, setdone, SetDoneChan>>,
           faulty => faulty',
           mpc' = "fatal" => mpc = "fatal" \/ faulty',
           mpc' = "maps" => mpc = "maps",
           \A r \in Round : /\ Over(r)' <=> Over(r)
                            /\ AtEnd(r)' => AtEnd(r) \/ set[r] = Items
                            /\ Checking(r)' => Checking(r)
    PROVE  FInv'
<1> USE DEF FInv
<1>1. Reported' = Reported /\ Collision' = Collision
  BY DEF Reported, Collision
<1>2. RT' /\ Told' /\ AllInserted' BY <1>1 DEF RT, Told, AllInserted
<1>3. InsertsOver' BY <1>1 DEF InsertsOver
<1>4. Held' BY <1>1 DEF Held, Has, Collision
<1>5. Expected' BY DEF Expected, Wanted, Numbered
<1>6. FatalMeansCollision' BY <1>1 DEF FatalMeansCollision
<1> QED BY <1>2, <1>3, <1>4, <1>5, <1>6

\* One goroutine moves.
LEMMA OneMoves ==
    ASSUME PT, NEW w \in Worker, NEW to \in WorkerPC, wpc' = [wpc EXCEPT ![w] = to]
    PROVE  \A r \in Round :
              /\ w = <<"insert", r>> =>
                    /\ wpc'[<<"insert", r>>] = to
                    /\ wpc'[<<"check", r>>] = wpc[<<"check", r>>]
              /\ w = <<"check", r>> =>
                    /\ wpc'[<<"check", r>>] = to
                    /\ wpc'[<<"insert", r>>] = wpc[<<"insert", r>>]
              /\ w \notin {<<"insert", r>>, <<"check", r>>} =>
                    /\ wpc'[<<"check", r>>] = wpc[<<"check", r>>]
                    /\ wpc'[<<"insert", r>>] = wpc[<<"insert", r>>]
<1> TAKE r \in Round
<1>1. <<"insert", r>> # <<"check", r>>
  OBVIOUS
<1> QED BY <1>1, InsertWorker, CheckWorker DEF PT

LEMMA GoesApart ==
    ASSUME FInv, PInv', NEW w \in Worker, NEW to \in WorkerPC \ {"none"},
           wpc[w] # "none", wpc' = [wpc EXCEPT ![w] = to],
           wpc[w] = "release" <=> to = "end",
           wpc[w] # "end", to # "release" \/ w[1] # "insert",
           to \in {"report", "second"} => wpc[w] = "report" \/ Finished(w),
           UNCHANGED <<randomize, kv, testmap, set, todo, setdone, SetDoneChan, mpc>>,
           faulty => faulty'
    PROVE  FInv'
<1>0. PT BY DEF FInv, PInv
<1>1. ASSUME NEW r \in Round
      PROVE  /\ Over(r)' <=> Over(r)
             /\ AtEnd(r)' => AtEnd(r) \/ set[r] = Items
             /\ Checking(r)' => Checking(r)
  <2>0. /\ <<"insert", r>> \in Worker /\ <<"check", r>> \in Worker
        /\ <<"insert", r>> # <<"check", r>>
    BY InsertWorker, CheckWorker
  <2>1. CASE w = <<"insert", r>>
    <3>1. w[1] = "insert" /\ w[2] = r BY <2>1
    <3>2. wpc'[<<"insert", r>>] = to /\ wpc'[<<"check", r>>] = wpc[<<"check", r>>]
      BY <1>0, <2>0, <2>1 DEF PT
    <3> QED BY <2>1, <3>1, <3>2 DEF Over, AtEnd, Checking, Finished
  <2>2. CASE w = <<"check", r>>
    <3>2. wpc'[<<"check", r>>] = to /\ wpc'[<<"insert", r>>] = wpc[<<"insert", r>>]
      BY <1>0, <2>0, <2>2 DEF PT
    <3> QED BY <2>2, <3>2 DEF Over, AtEnd, Checking
  <2>3. CASE w \notin {<<"insert", r>>, <<"check", r>>}
    BY <1>0, <2>3, OneMoves DEF Over, AtEnd, Checking
  <2> QED BY <2>1, <2>2, <2>3
<1> QED BY <1>1, Apart

LEMMA PoolStepsApart ==
    ASSUME FInv, PInv', NEW w \in Worker, GetConn(w) \/ GiveBack(w) \/ Release(w)
    PROVE  FInv'
<1> USE DEF Goto, WorkerPC, flags, main, local, pool, reports
<1>1. CASE Acquire(w) BY <1>1, GoesApart DEF Acquire
<1>2. CASE TakeOpen(w) BY <1>2, GoesApart DEF TakeOpen
<1>3. CASE NoneOpen(w) BY <1>3, GoesApart DEF NoneOpen
<1>4. CASE LockHandler(w) BY <1>4, GoesApart DEF LockHandler
<1>5. CASE Connected(w) BY <1>5, GoesApart DEF Connected
<1>6. CASE ConnectedDaemon(w)
  BY <1>6, Apart DEF ConnectedDaemon, Over, AtEnd, Checking
<1>7. CASE DialFails(w) BY <1>7, GoesApart DEF DialFails
<1>8. CASE GiveBack(w) BY <1>8, GoesApart DEF GiveBack
<1>9. CASE Release(w) BY <1>9, GoesApart DEF Release
<1> QED BY <1>1, <1>2, <1>3, <1>4, <1>5, <1>6, <1>7, <1>8, <1>9 DEF GetConn

LEMMA ReportsApart ==
    ASSUME FInv, PInv', NEW r \in Round, SendMap(r) \/ SendInt(r) \/ SendGetDone(r)
    PROVE  FInv'
<1> USE DEF First, Second, WorkerPC, unreported, flags, main, local, pool, handler
<1>1. <<"insert", r>> \in Worker /\ <<"check", r>> \in Worker
  BY InsertWorker, CheckWorker
<1>2. <<"insert", r>>[1] = "insert" /\ <<"check", r>>[1] = "check"
  OBVIOUS
<1>3. CASE SendMap(r) BY <1>1, <1>2, <1>3, GoesApart DEF SendMap
<1>4. CASE SendInt(r) BY <1>1, <1>2, <1>4, GoesApart DEF SendInt
<1>5. CASE SendGetDone(r) BY <1>1, <1>2, <1>5, GoesApart DEF SendGetDone
<1> QED BY <1>3, <1>4, <1>5

\* One more has reported, and main is being told.
LEMMA SendSetDoneCounts ==
    ASSUME FInv, PInv', NEW r \in Round, SendSetDone(r)
    PROVE  FInv'
<1> USE DEF FInv
<1>0. PT BY DEF PInv
<1>1. /\ wpc[<<"insert", r>>] \in {"report", "second"}
      /\ wpc' = [wpc EXCEPT ![<<"insert", r>>] = "release"]
      /\ SetDoneChan' = SetDoneChan + 1
      /\ UNCHANGED <<randomize, kv, faulty, mpc, setdone, testmap, set, todo>>
  BY DEF SendSetDone, Only, Second, unreported, flags, main, local
<1>2. /\ wpc'[<<"insert", r>>] = "release"
      /\ \A s \in Round : wpc'[<<"check", s>>] = wpc[<<"check", s>>]
      /\ \A s \in Round \ {r} : wpc'[<<"insert", s>>] = wpc[<<"insert", s>>]
  <2>1. /\ \A s \in Round : <<"insert", r>> # <<"check", s>>
        /\ \A s \in Round \ {r} : <<"insert", r>> # <<"insert", s>>
    OBVIOUS
  <2> QED BY <2>1, <1>0, <1>1, InsertWorker, CheckWorker DEF PT
<1>3. Reported' = Reported \cup {r} /\ r \notin Reported
  BY <1>1, <1>2 DEF Reported, Over
<1>4. Cardinality(Reported') = Cardinality(Reported) + 1
  BY <1>3, ReportedCounts, FS_AddElement
<1>5. Told' BY <1>1, <1>4, ReportedCounts DEF Told, RT
<1>6. RT' BY <1>1 DEF RT
<1>7. InsertsOver' BY <1>1, <1>2, <1>3 DEF InsertsOver, Checking, Reported
<1>8. AllInserted' BY <1>1, <1>2 DEF AllInserted, AtEnd
<1>9. Held' /\ FatalMeansCollision'
  BY <1>1 DEF Held, Has, FatalMeansCollision, Collision
<1>10. Expected' BY <1>1, <1>2 DEF Expected, Wanted, Numbered, Checking
<1> QED BY <1>5, <1>6, <1>7, <1>8, <1>9, <1>10

LEMMA WithKeeps ==
    ASSUME NEW f, NEW k, NEW v
    PROVE  /\ Has(With(f, k, v), k, v)
           /\ \A j, u : j # k /\ Has(f, j, u) => Has(With(f, k, v), j, u)
BY DEF With, Has

\* An insertion is on the server, and leaves those of other keys there.
LEMMA InsertHolds ==
    ASSUME FInv, PInv', NEW r \in Round, Insert(r), ~Ended
    PROVE  FInv'
<1> USE DEF FInv
<1>0. /\ wpc[<<"insert", r>>] = "work" /\ set[r] < Items /\ set[r] \in 0..Items
      /\ set' = [set EXCEPT ![r] = @ + 1]
      /\ UNCHANGED <<randomize, faulty, mpc, setdone, SetDoneChan, wpc, todo>>
  BY DEF Insert, RT, main, flags, reports
<1>1. Reported' = Reported /\ r \notin Reported
  BY <1>0 DEF Reported, Over
<1>2. mpc' \notin {"maps", "fatal"} /\ \A s \in Round : ~Checking(s)'
  BY <1>0, <1>1 DEF InsertsOver, Checking, Ended
<1>3. RT'
  <2>1. DOMAIN testmap' = Round
    BY DEF Insert, RT
  <2> QED BY <2>1, <1>0, PoolAssumption DEF RT
<1>4. Told' BY <1>0, <1>1 DEF Told
<1>5. InsertsOver' /\ Expected' /\ FatalMeansCollision'
  BY <1>2 DEF InsertsOver, Expected, FatalMeansCollision
<1>6. AllInserted' BY <1>0 DEF AllInserted, AtEnd, RT
<1>7. Held'
  <2>1. CASE randomize
    <3>1. PICK k \in RandKey, v \in RandVal :
              /\ kv' = With(kv, k, v)
              /\ testmap' = [testmap EXCEPT ![r] = With(@, k, v)]
      BY <2>1 DEF Insert
    <3>2. /\ DOMAIN testmap'[r] = DOMAIN testmap[r] \cup {k}
          /\ testmap'[r][k] = v
          /\ \A j \in DOMAIN testmap[r] : j # k => testmap'[r][j] = testmap[r][j]
          /\ \A s \in Round : s # r => testmap'[s] = testmap[s]
      BY <3>1 DEF RT, With
    <3>3. Collision => Collision'
      BY <3>2 DEF Collision
    <3>4. ASSUME ~Collision', NEW s \in Round, NEW j \in DOMAIN testmap'[s]
          PROVE  Has(kv', j, testmap'[s][j])
      <4>1. CASE s = r /\ j = k
        BY <3>1, <3>2, <4>1, WithKeeps
      <4>2. CASE s = r /\ j # k
        <5>1. Has(kv, j, testmap[s][j]) /\ testmap'[s][j] = testmap[s][j]
          BY <2>1, <3>2, <3>3, <3>4, <4>2 DEF Held
        <5> QED BY <3>1, <4>2, <5>1, WithKeeps
      <4>3. CASE s # r
        <5>1. j # k
          BY <3>2, <3>4, <4>3 DEF Collision
        <5>2. Has(kv, j, testmap[s][j]) /\ testmap'[s][j] = testmap[s][j]
          BY <2>1, <3>2, <3>3, <3>4, <4>3 DEF Held
        <5> QED BY <3>1, <5>1, <5>2, WithKeeps
      <4> QED BY <4>1, <4>2, <4>3
    <3> QED BY <2>1, <1>0, <3>4 DEF Held
  <2>2. CASE ~randomize
    <3>1. kv' = With(kv, <<r, set[r] + 1>>, <<r, set[r] + 1>>)
      BY <2>2 DEF Insert
    <3>2. ASSUME NEW s \in Round, NEW i \in 1..set'[s]
          PROVE  Has(kv', <<s, i>>, <<s, i>>)
      <4>1. CASE s = r /\ i = set[r] + 1
        BY <3>1, <4>1, WithKeeps
      <4>2. CASE ~(s = r /\ i = set[r] + 1)
        <5>1. i \in 1..set[s]
          BY <1>0, <3>2, <4>2 DEF RT
        <5>2. Has(kv, <<s, i>>, <<s, i>>)
          BY <2>2, <5>1 DEF Held
        <5>3. <<s, i>> # <<r, set[r] + 1>>
          BY <4>2
        <5> QED BY <3>1, <5>2, <5>3, WithKeeps
      <4> QED BY <4>1, <4>2
    <3> QED BY <2>2, <1>0, <3>2 DEF Held
  <2> QED BY <2>1, <2>2
<1> QED BY <1>3, <1>4, <1>5, <1>6, <1>7

\* A comparison finds what it expects, unless two rounds share a key.
LEMMA VerifyHolds ==
    ASSUME FInv, PInv', NEW r \in Round, Verify(r)
    PROVE  FInv'
<1> USE DEF FInv
<1>0. wpc[<<"check", r>>] = "work" /\ Checking(r)
  BY DEF Verify, Checking
<1>1. PICK p \in todo[r] :
          IF p[1] \in DOMAIN kv /\ kv[p[1]] = p[2]
          THEN todo' = [todo EXCEPT ![r] = @ \ {p}] /\ UNCHANGED main
          ELSE Fatalf /\ UNCHANGED todo
  BY DEF Verify
<1>2. UNCHANGED <<randomize, kv, faulty, wpc, testmap, set, SetDoneChan>>
  BY DEF Verify, flags, reports
<1>3. Has(kv, p[1], p[2]) \/ Collision
  <2>1. p \in Wanted(r) /\ set[r] = Items
    BY <1>0, <1>1 DEF Expected, InsertsOver, Reported, Over, AllInserted, AtEnd
  <2>2. CASE randomize
    <3>1. PICK k \in DOMAIN testmap[r] : p = <<k, testmap[r][k]>>
      BY <2>1, <2>2 DEF Wanted
    <3> QED BY <2>2, <3>1 DEF Held
  <2>3. CASE ~randomize
    <3>1. PICK i \in 1..Items : p = <<<<r, i>>, <<r, i>>>>
      BY <2>1, <2>3 DEF Wanted, Numbered
    <3> QED BY <2>1, <2>3, <3>1 DEF Held
  <2> QED BY <2>2, <2>3
<1>4. /\ setdone' = setdone /\ mpc' \in {mpc, "fatal"}
      /\ mpc' = "fatal" => mpc = "fatal" \/ Collision
      /\ DOMAIN todo' = Round /\ \A s \in Round : todo'[s] \subseteq todo[s]
  BY <1>1, <1>3 DEF Has, Fatalf, main, RT
<1>5. Reported' = Reported /\ Collision' = Collision
  BY <1>2 DEF Reported, Over, Collision
<1>6. RT' /\ Told' BY <1>2, <1>4, <1>5 DEF RT, Told
<1>7. InsertsOver' /\ AllInserted'
  BY <1>2, <1>4, <1>5 DEF InsertsOver, AllInserted, Checking, AtEnd
<1>8. Held' BY <1>2, <1>5 DEF Held, Has
<1>9. Expected' BY <1>2, <1>4 DEF Expected, Checking, Wanted, Numbered
<1>10. FatalMeansCollision' BY <1>2, <1>4, <1>5 DEF FatalMeansCollision
<1> QED BY <1>6, <1>7, <1>8, <1>9, <1>10

\* main has counted: with the last report all insertions are over.
LEMMA MainCounts ==
    ASSUME FInv, PInv', MainSetDone \/ MainMaps
    PROVE  FInv'
<1> USE DEF FInv
<1>0. /\ UNCHANGED <<randomize, kv, faulty, testmap, set>>
      /\ setdone' + SetDoneChan' = setdone + SetDoneChan
      /\ setdone' \in Nat /\ SetDoneChan' \in Nat
      /\ mpc \in {"insert", "maps"} /\ mpc' \in {"insert", "maps", "check"}
  BY DEF MainSetDone, MainMaps, flags, RT
<1>1. mpc' = "insert" \/ Reported = Round
  <2>1. CASE MainSetDone
    <3>1. mpc' = "insert" \/ setdone' = Rounds
      BY <2>1 DEF MainSetDone
    <3>2. Cardinality(Reported) <= Rounds
      BY PoolAssumption, FS_Subset DEF Reported, Rounds
    <3>3. setdone' = Rounds => Cardinality(Reported) = Rounds
      BY <1>0, <3>2, ReportedCounts DEF Told, RT
    <3> QED BY <3>1, <3>3, ReportedCounts
  <2>2. CASE MainMaps
    BY <2>2 DEF MainMaps, InsertsOver
  <2> QED BY <2>1, <2>2
<1>2. CASE UNCHANGED <<wpc, todo>>
  <2>1. Reported' = Reported /\ Collision' = Collision
    BY <1>0, <1>2 DEF Reported, Over, Collision
  <2>2. RT' /\ Told' /\ AllInserted' BY <1>0, <1>2, <2>1 DEF RT, Told, AllInserted, AtEnd
  <2>3. InsertsOver' BY <1>1, <1>2, <2>1, <1>0 DEF InsertsOver, Checking
  <2>4. Held' BY <1>0, <2>1 DEF Held, Has
  <2>5. Expected' BY <1>0, <1>2 DEF Expected, Wanted, Numbered, Checking
  <2>6. FatalMeansCollision' BY <1>0 DEF FatalMeansCollision
  <2> QED BY <2>2, <2>3, <2>4, <2>5, <2>6
<1>3. CASE StartChecks /\ mpc' = "check"
  <2>1. \A r \in Round : wpc'[<<"insert", r>>] = wpc[<<"insert", r>>]
    BY <1>3, InsertWorker DEF StartChecks
  <2>2. Reported' = Reported /\ Collision' = Collision
    BY <1>0, <2>1 DEF Reported, Over, Collision
  <2>3. DOMAIN todo' = Round /\ \A r \in Round : todo'[r] = Wanted(r)
    BY <1>3 DEF StartChecks
  <2>4. RT' /\ Told' /\ AllInserted'
    BY <1>0, <2>1, <2>2, <2>3 DEF RT, Told, AllInserted, AtEnd
  <2>5. InsertsOver' BY <1>1, <1>3, <2>2 DEF InsertsOver
  <2>6. Held' BY <1>0, <2>2 DEF Held, Has
  <2>7. Expected' BY <1>0, <2>3 DEF Expected, Wanted, Numbered
  <2>8. FatalMeansCollision' BY <1>3 DEF FatalMeansCollision
  <2> QED BY <2>4, <2>5, <2>6, <2>7, <2>8
<1> QED BY <1>2, <1>3 DEF MainSetDone, MainMaps

LEMMA FInitHolds == Init => FInv
<1> SUFFICES ASSUME Init PROVE FInv
  OBVIOUS
<1> USE DEF Init
<1>1. PInv BY Initially
<1>2. RT BY PoolAssumption DEF RT
<1>3. \A r \in Round : ~Over(r) /\ ~AtEnd(r) /\ ~Checking(r)
  BY InsertWorker, CheckWorker DEF Over, AtEnd, Checking
<1>4. Reported = {} BY <1>3 DEF Reported
<1>5. Told BY <1>4, FS_EmptySet DEF Told
<1>6. InsertsOver /\ AllInserted /\ Expected /\ FatalMeansCollision
  BY <1>3 DEF InsertsOver, AllInserted, Expected, FatalMeansCollision
<1>7. Held
  <2>1. \A r \in Round : DOMAIN testmap[r] = {} /\ 1..set[r] = {}
    BY DEF NoMap
  <2> QED BY <2>1 DEF Held
<1> QED BY <1>1, <1>2, <1>5, <1>6, <1>7 DEF FInv

LEMMA FNextKeeps == FInv /\ PInv' /\ [Next]_vars => FInv'
<1> SUFFICES ASSUME FInv, PInv', [Next]_vars PROVE FInv'
  OBVIOUS
<1>1. CASE UNCHANGED vars
  BY <1>1, Apart DEF vars, flags, main, local, reports, Over, AtEnd, Checking
<1>2. ASSUME NEW w \in Worker, WorkerStep(w) \/ CallFails(w), ~Ended PROVE FInv'
  <2>0. w[2] \in Round BY DEF Worker
  <2>1. CASE CallFails(w)
    BY <2>1, Apart DEF CallFails, Fatalf, flags, local, reports, Over, AtEnd, Checking
  <2>2. CASE WorkerStep(w)
    BY <1>2, <2>0, <2>2, PoolStepsApart, ReportsApart, SendSetDoneCounts, InsertHolds,
       VerifyHolds DEF WorkerStep
  <2> QED BY <1>2, <2>1, <2>2
<1>3. CASE MainSetDone \/ MainMaps
  BY <1>3, MainCounts
<1>4. CASE MainGetDone
  BY <1>4, Apart DEF MainGetDone, flags, local, Over, AtEnd, Checking
<1>5. CASE MainSum
  BY <1>5, Apart DEF MainSum, flags, local, Over, AtEnd, Checking
<1> QED BY <1>1, <1>2, <1>3, <1>4, <1>5 DEF Next, Work, MainStep

LEMMA DataInvariance == Spec => [](PInv /\ FInv)
BY PoolInvariance, FInitHolds, FNextKeeps, NextKeeps, PTL DEF Spec

\* A comparison of the test client fails only if a call or a dial had failed or
\* two rounds drew the same random key: for any number of rounds, insertions,
\* connections and keys, every insertion is on the server before the first
\* comparison and is still there when its own comparison comes.
THEOREM ComparisonsJust == Spec => []FatalMeansCollision
<1>1. FInv => PInv /\ FatalMeansCollision BY DEF FInv
<1> QED BY <1>1, DataInvariance, PTL
----------------------------------------------------------------------------
(* The test ends *)

\* No dial or call has failed, and no random key was drawn twice.
Undisturbed == ~faulty /\ ~daemon /\ AllDistinct

\* The goroutines of one kind that are at one of some places.
At(kind, places) == {r \in Round : wpc[<<kind, r>>] \in places}

\* Where those are that have made their reports.
MapSent == {"second", "release", "end"}
IntSent(random) == IF random THEN {"second", "release", "end"} ELSE {"release", "end"}
GetSent(random) == IF random THEN {"release", "end"} ELSE {"second", "release", "end"}

Given(kind, places) == Cardinality(At(kind, places))
GivenMaps == Given("insert", MapSent)
GivenInts == Given("check", IntSent(randomize))
GivenGets == Given("check", GetSent(randomize))

TokensInUse == \A w \in parChan : Busy(w)
HandlerInUse == mux # <<>> => mux \in Worker /\ wpc[mux] = "dialing"

Stages == /\ mpc \in {"insert", "maps", "check", "sum", "wait"}
          /\ \A w \in Worker : wpc[w] # "failed"
          /\ \A r \in Round :
                /\ wpc[<<"insert", r>>] # "none"
                /\ wpc[<<"insert", r>>] = "second" => randomize
                /\ wpc[<<"check", r>>] = "none" <=> mpc \in {"insert", "maps"}

\* Each report was counted by main or waits to be.
Reports == /\ maps \in Nat /\ MapRetChan \in Nat
           /\ getdone \in Nat /\ GetDoneChan \in Nat
           /\ randomize => maps + MapRetChan = GivenMaps
           /\ getdone + GetDoneChan = GivenGets

\* main has added what was reported and read, and not all of it before its last step.
Sums == /\ RetIntChan \in Seq({Items}) /\ Len(RetIntChan) <= GivenInts
        /\ checked = Items * (GivenInts - Len(RetIntChan))
        /\ mpc # "wait" => GivenInts - Len(RetIntChan) < Rounds
        /\ mpc \notin {"sum", "wait"} => GivenInts = Len(RetIntChan)

Phases == /\ mpc = "insert" => setdone < Rounds /\ maps = 0
          /\ mpc # "insert" => setdone = Rounds
          /\ mpc = "maps" => randomize /\ maps < Rounds
          /\ mpc \in {"insert", "maps", "check"} => getdone < Rounds
          /\ mpc \in {"sum", "wait"} => getdone = Rounds

FiniteMaps == \A r \in Round : IsFiniteSet(DOMAIN testmap[r])

TInv == /\ TokensInUse /\ HandlerInUse /\ Stages /\ Reports /\ Sums /\ Phases
        /\ FiniteMaps

LEMMA AtFinite ==
    ASSUME NEW kind, NEW places
    PROVE  /\ IsFiniteSet(At(kind, places)) /\ Given(kind, places) \in Nat
           /\ Given(kind, places) <= Rounds
           /\ Given(kind, places) = Rounds => At(kind, places) = Round
<1>1. IsFiniteSet(Round) /\ At(kind, places) \subseteq Round
  BY PoolAssumption DEF At
<1> QED
  BY <1>1, FS_Subset, FS_CardinalityType DEF Rounds, Given

\* A goroutine that moves is not counted otherwise unless it enters the places.
LEMMA AtSame ==
    ASSUME PT, NEW w \in Worker, NEW to, wpc' = [wpc EXCEPT ![w] = to],
           NEW kind \in {"insert", "check"}, NEW places,
           w[1] = kind => (to \in places <=> wpc[w] \in places)
    PROVE  At(kind, places)' = At(kind, places)
<1>1. ASSUME NEW r \in Round
      PROVE  wpc'[<<kind, r>>] \in places <=> wpc[<<kind, r>>] \in places
  <2>1. <<kind, r>> \in Worker /\ <<kind, r>>[1] = kind
    BY DEF Worker
  <2>2. CASE w = <<kind, r>>
    BY <2>1, <2>2 DEF PT
  <2>3. CASE w # <<kind, r>>
    BY <2>1, <2>3 DEF PT
  <2> QED
    BY <2>2, <2>3
<1> QED
  BY <1>1 DEF At

LEMMA AtEnters ==
    ASSUME PT, NEW kind \in {"insert", "check"}, NEW r \in Round, NEW to, NEW places,
           wpc' = [wpc EXCEPT ![<<kind, r>>] = to],
           to \in places, wpc[<<kind, r>>] \notin places
    PROVE  Given(kind, places)' = Given(kind, places) + 1 /\ Given(kind, places) < Rounds
<1>1. ASSUME NEW s \in Round
      PROVE  wpc'[<<kind, s>>] \in places <=> wpc[<<kind, s>>] \in places \/ s = r
  <2>1. <<kind, s>> \in Worker /\ <<kind, r>> \in Worker
    BY DEF Worker
  <2>2. CASE s = r
    BY <2>1, <2>2 DEF PT
  <2>3. CASE s # r
    <3>1. <<kind, s>> # <<kind, r>>
      BY <2>3
    <3> QED
      BY <2>1, <2>3, <3>1 DEF PT
  <2> QED
    BY <2>2, <2>3
<1>2. At(kind, places)' = At(kind, places) \cup {r} /\ r \notin At(kind, places)
  BY <1>1 DEF At
<1>3. Given(kind, places)' = Given(kind, places) + 1
  BY <1>2, AtFinite, FS_AddElement DEF Given
<1>4. At(kind, places)' \subseteq Round
  BY DEF At
<1>5. Given(kind, places)' <= Rounds
  BY <1>4, PoolAssumption, FS_Subset DEF Given, Rounds
<1> QED
  BY <1>3, <1>5, AtFinite, FS_CardinalityType, PoolAssumption DEF Rounds

\* A step of main's, or of nobody who reports.
LEMMA NobodyMoves ==
    ASSUME TInv, UNCHANGED <<wpc, parChan, mux>>, FiniteMaps', randomize' = randomize,
           mpc' \in {"insert", "maps", "check", "sum", "wait"},
           mpc' \in {"insert", "maps"} <=> mpc \in {"insert", "maps"}
    PROVE  /\ TokensInUse' /\ HandlerInUse' /\ Stages' /\ FiniteMaps'
           /\ GivenMaps' = GivenMaps /\ GivenInts' = GivenInts /\ GivenGets' = GivenGets
BY DEF TInv, TokensInUse, HandlerInUse, Stages, Busy, GivenMaps, GivenInts, GivenGets,
       Given, At

\* A goroutine goes on, between its reports.
LEMMA GoesOnUnreported ==
    ASSUME PT, TInv, NEW w \in Worker, NEW to \in WorkerPC \ {"none", "second", "failed"},
           wpc' = [wpc EXCEPT ![w] = to], wpc[w] \notin {"none", "second"},
           to \in {"release", "end"} <=> wpc[w] \in {"release", "end"},
           TokensInUse', HandlerInUse',
           UNCHANGED <<randomize, mpc, setdone, getdone, checked, maps, testmap,
                       GetDoneChan, RetIntChan, MapRetChan>>
    PROVE  TInv'
<1>1. /\ to \in MapSent <=> wpc[w] \in MapSent
      /\ to \in IntSent(randomize) <=> wpc[w] \in IntSent(randomize)
      /\ to \in GetSent(randomize) <=> wpc[w] \in GetSent(randomize)
  BY DEF MapSent, IntSent, GetSent
<1>2. /\ At("insert", MapSent)' = At("insert", MapSent)
      /\ \A b : (to \in IntSent(b) <=> wpc[w] \in IntSent(b)) =>
                    At("check", IntSent(b))' = At("check", IntSent(b))
      /\ \A b : (to \in GetSent(b) <=> wpc[w] \in GetSent(b)) =>
                    At("check", GetSent(b))' = At("check", GetSent(b))
  BY <1>1, AtSame
<1>3. GivenMaps' = GivenMaps /\ GivenInts' = GivenInts /\ GivenGets' = GivenGets
  BY <1>1, <1>2 DEF GivenMaps, GivenInts, GivenGets, Given
<1>4. Stages'
  BY InsertWorker, CheckWorker DEF TInv, Stages, PT
<1> QED
  BY <1>3, <1>4 DEF TInv, Reports, Sums, Phases, FiniteMaps

LEMMA TokensKept ==
    ASSUME PT, TInv, NEW w \in Worker, NEW to \in WorkerPC, wpc' = [wpc EXCEPT ![w] = to],
           \/ to \notin {"none", "start", "end"} /\ parChan' \subseteq parChan \cup {w}
           \/ parChan' = parChan \ {w}
    PROVE  TokensInUse'
<1>1. ASSUME NEW v \in parChan' PROVE Busy(v)'
  <2>1. v = w \/ (v \in parChan /\ wpc'[v] = wpc[v])
    BY <1>1 DEF PT
  <2>2. v = w => to \notin {"none", "start", "end"} /\ wpc'[v] = to
    BY <1>1 DEF PT
  <2> QED
    BY <2>1, <2>2 DEF TInv, TokensInUse, Busy
<1> QED
  BY <1>1 DEF TokensInUse

LEMMA HandlerKept ==
    ASSUME PT, TInv, NEW w \in Worker, NEW to \in WorkerPC, wpc' = [wpc EXCEPT ![w] = to],
           \/ mux' = <<>>
           \/ mux' = w /\ to = "dialing"
           \/ mux' = mux /\ wpc[w] # "dialing"
    PROVE  HandlerInUse'
BY DEF PT, TInv, HandlerInUse

LEMMA PoolStepsUnreported ==
    ASSUME FInv, TInv, NEW w \in Worker, Undisturbed, Undisturbed',
           GetConn(w) \/ GiveBack(w) \/ Release(w)
    PROVE  TInv'
<1> USE DEF Goto, WorkerPC, flags, main, local, pool, reports, handler
<1>0. PT
  BY DEF FInv, PInv
<1>1. CASE Acquire(w)
  BY <1>0, <1>1, TokensKept, HandlerKept, GoesOnUnreported DEF Acquire
<1>2. CASE TakeOpen(w)
  BY <1>0, <1>2, TokensKept, HandlerKept, GoesOnUnreported DEF TakeOpen, TInv, TokensInUse
<1>3. CASE NoneOpen(w)
  BY <1>0, <1>3, TokensKept, HandlerKept, GoesOnUnreported DEF NoneOpen
<1>4. CASE LockHandler(w)
  BY <1>0, <1>4, TokensKept, HandlerKept, GoesOnUnreported DEF LockHandler
<1>5. CASE Connected(w)
  BY <1>0, <1>5, TokensKept, HandlerKept, GoesOnUnreported DEF Connected
<1>6. CASE ConnectedDaemon(w) \/ DialFails(w)
  BY <1>6 DEF ConnectedDaemon, DialFails, Undisturbed
<1>7. CASE GiveBack(w)
  BY <1>0, <1>7, TokensKept, HandlerKept, GoesOnUnreported DEF GiveBack
<1>8. CASE Release(w)
  BY <1>0, <1>8, TokensKept, HandlerKept, GoesOnUnreported DEF Release
<1> QED
  BY <1>1, <1>2, <1>3, <1>4, <1>5, <1>6, <1>7, <1>8 DEF GetConn

LEMMA WorkUnreported ==
    ASSUME FInv, FInv', TInv, Undisturbed, Undisturbed', NEW r \in Round,
           Insert(r) \/ Verify(r)
    PROVE  TInv'
<1>1. UNCHANGED <<randomize, wpc, pool, mux, setdone, getdone, checked, maps,
                  GetDoneChan, RetIntChan, MapRetChan>>
  BY DEF Insert, Verify, flags, main, pool, reports, handler, Fatalf
<1>2. mpc' = mpc
  <2>1. mpc' \in {mpc, "fatal"}
    BY DEF Insert, Verify, main, Fatalf
  <2>2. mpc' # "fatal"
    BY DEF FInv, FatalMeansCollision, Undisturbed, AllDistinct
  <2> QED
    BY <2>1, <2>2
<1>3. FiniteMaps'
  <2>1. CASE testmap' = testmap
    BY <2>1 DEF TInv, FiniteMaps
  <2>2. ASSUME NEW k, NEW v, testmap' = [testmap EXCEPT ![r] = With(@, k, v)]
        PROVE  FiniteMaps'
    <3>1. DOMAIN testmap'[r] = DOMAIN testmap[r] \cup {k}
      BY <2>2 DEF FInv, RT, With
    <3>2. \A q \in Round : q # r => testmap'[q] = testmap[q]
      BY <2>2 DEF FInv, RT
    <3> QED
      BY <3>1, <3>2, FS_AddElement DEF TInv, FiniteMaps
  <2> QED
    BY <2>1, <2>2 DEF Insert, Verify
<1>4. mpc \in {"insert", "maps", "check", "sum", "wait"}
  BY DEF TInv, Stages
<1>5. /\ TokensInUse' /\ HandlerInUse' /\ Stages' /\ FiniteMaps'
      /\ GivenMaps' = GivenMaps /\ GivenInts' = GivenInts /\ GivenGets' = GivenGets
  BY <1>1, <1>2, <1>3, <1>4, NobodyMoves DEF pool
<1> QED
  BY <1>1, <1>2, <1>5 DEF TInv, Reports, Sums, Phases

\* What a check reports is Items.
LEMMA WantedCount ==
    ASSUME NEW r \in Round, set[r] = Items, randomize \in BOOLEAN, AllDistinct, FiniteMaps
    PROVE  IsFiniteSet(Wanted(r)) /\ Cardinality(Wanted(r)) = Items
<1>1. CASE randomize
  <2> DEFINE D == DOMAIN testmap[r]
             f == [k \in D |-> <<k, testmap[r][k]>>]
  <2>1. Wanted(r) = {<<k, testmap[r][k]>> : k \in D}
    BY <1>1 DEF Wanted
  <2>2. f \in Bijection(D, Wanted(r))
    BY <2>1 DEF Bijection, Injection, Surjection, IsInjective
  <2>3. IsFiniteSet(D) /\ Cardinality(D) = Items
    BY <1>1 DEF FiniteMaps, AllDistinct
  <2> HIDE DEF D, f
  <2> QED
    BY <2>2, <2>3, FS_Bijection DEF ExistsBijection
<1>2. CASE ~randomize
  <2> DEFINE f == [i \in 1..Items |-> <<<<r, i>>, <<r, i>>>>]
  <2>1. Wanted(r) = {<<<<r, i>>, <<r, i>>>> : i \in 1..Items}
    BY <1>2 DEF Wanted, Numbered
  <2>2. f \in Bijection(1..Items, Wanted(r))
    BY <2>1 DEF Bijection, Injection, Surjection, IsInjective
  <2>3. IsFiniteSet(1..Items) /\ Cardinality(1..Items) = Items
    BY FS_Interval, PoolAssumption
  <2> HIDE DEF f
  <2> QED
    BY <2>2, <2>3, FS_Bijection DEF ExistsBijection
<1> QED
  BY <1>1, <1>2

\* A goroutine that reports keeps its place and its token.
LEMMA ReportKeeps ==
    ASSUME FInv, TInv, NEW kind \in {"insert", "check"}, NEW r \in Round,
           NEW to \in {"second", "release"},
           wpc[<<kind, r>>] \in {"report", "second"},
           wpc' = [wpc EXCEPT ![<<kind, r>>] = to],
           to = "second" /\ kind = "insert" => randomize,
           UNCHANGED <<randomize, mpc, testmap, parChan, mux>>
    PROVE  TokensInUse' /\ HandlerInUse' /\ Stages' /\ FiniteMaps'
<1>0. PT /\ <<kind, r>> \in Worker /\ to \in WorkerPC
  BY DEF FInv, PInv, Worker, WorkerPC
<1>1. TokensInUse' /\ HandlerInUse'
  BY <1>0, TokensKept, HandlerKept
<1>2. FiniteMaps'
  BY DEF TInv, FiniteMaps
<1>3. Stages'
  <2>1. \A v \in Worker : wpc'[v] = IF v = <<kind, r>> THEN to ELSE wpc[v]
    BY <1>0 DEF PT
  <2>2. ASSUME NEW q \in Round
        PROVE  /\ wpc'[<<"insert", q>>] # "none"
               /\ wpc'[<<"insert", q>>] = "second" => randomize
               /\ wpc'[<<"check", q>>] = "none" <=> mpc \in {"insert", "maps"}
    <3>1. wpc[<<"check", q>>] = "none" => <<"check", q>> # <<kind, r>>
      OBVIOUS
    <3>2. <<"insert", q>> = <<kind, r>> => kind = "insert"
      OBVIOUS
    <3> QED
      BY <2>1, <3>1, <3>2, InsertWorker, CheckWorker DEF TInv, Stages
  <2>3. \A v \in Worker : wpc'[v] # "failed"
    BY <2>1 DEF TInv, Stages
  <2>4. mpc' \in {"insert", "maps", "check", "sum", "wait"}
    BY DEF TInv, Stages
  <2> QED
    BY <2>2, <2>3, <2>4 DEF Stages
<1> QED
  BY <1>1, <1>2, <1>3

LEMMA InsertReports ==
    ASSUME FInv, TInv, NEW r \in Round, SendMap(r) \/ SendSetDone(r)
    PROVE  TInv'
<1> DEFINE w == <<"insert", r>>
<1>0. PT /\ w \in Worker /\ w[1] = "insert" /\ randomize \in BOOLEAN
  BY InsertWorker DEF FInv, PInv, RT
<1>1. UNCHANGED <<randomize, mpc, testmap, parChan, mux, setdone, getdone, checked, maps,
                  GetDoneChan, RetIntChan>>
  BY DEF SendMap, SendSetDone, unreported, flags, main, local, pool, handler
<1>2. PICK to \in {"second", "release"} :
          /\ wpc[w] \in {"report", "second"} /\ wpc' = [wpc EXCEPT ![w] = to]
          /\ to = "second" => randomize
          /\ IF to = "second" THEN wpc[w] = "report" /\ MapRetChan' = MapRetChan + 1
             ELSE MapRetChan' = MapRetChan /\ (randomize => wpc[w] = "second")
  BY <1>0 DEF SendMap, SendSetDone, First, Second, Only
<1>3. TokensInUse' /\ HandlerInUse' /\ Stages' /\ FiniteMaps'
  BY <1>1, <1>2, ReportKeeps
<1>4. GivenInts' = GivenInts /\ GivenGets' = GivenGets
  <2>1. \A places : At("check", places)' = At("check", places)
    BY <1>0, <1>2, AtSame
  <2> QED
    BY <1>1, <2>1 DEF GivenInts, GivenGets, Given, At
<1>5. randomize => maps + MapRetChan' = GivenMaps'
  <2>1. CASE to = "second"
    <3>1. GivenMaps' = GivenMaps + 1
      BY <1>2, <2>1, <1>0, AtEnters DEF GivenMaps, MapSent
    <3> QED
      BY <1>2, <2>1, <3>1, AtFinite DEF TInv, Reports, GivenMaps
  <2>2. CASE to = "release" /\ randomize
    <3>1. to \in MapSent <=> wpc[w] \in MapSent
      BY <1>2, <2>2 DEF MapSent
    <3>2. At("insert", MapSent)' = At("insert", MapSent)
      BY <1>0, <1>2, <3>1, AtSame
    <3> QED
      BY <1>2, <2>2, <3>2 DEF TInv, Reports, GivenMaps, Given
  <2> QED
    BY <2>1, <2>2
<1>6. MapRetChan' \in Nat
  BY <1>2 DEF TInv, Reports
<1> QED
  BY <1>1, <1>3, <1>4, <1>5, <1>6 DEF TInv, Reports, Sums, Phases

LEMMA CheckGetReports ==
    ASSUME FInv, TInv, NEW r \in Round, SendGetDone(r)
    PROVE  TInv'
<1> DEFINE w == <<"check", r>>
<1>0. PT /\ w \in Worker /\ w[1] = "check" /\ randomize \in BOOLEAN
  BY CheckWorker DEF FInv, PInv, RT
<1>1. /\ UNCHANGED <<randomize, mpc, testmap, parChan, mux, setdone, getdone, checked, maps,
                     RetIntChan, MapRetChan>>
      /\ GetDoneChan' = GetDoneChan + 1
  BY DEF SendGetDone, unreported, flags, main, local, pool, handler
<1>2. PICK to \in {"second", "release"} :
          /\ wpc' = [wpc EXCEPT ![w] = to]
          /\ IF randomize THEN wpc[w] = "second" /\ to = "release"
             ELSE wpc[w] = "report" /\ to = "second"
  BY <1>0 DEF SendGetDone, First, Second
<1>3. TokensInUse' /\ HandlerInUse' /\ Stages' /\ FiniteMaps'
  BY <1>1, <1>2, ReportKeeps
<1>4. GivenMaps' = GivenMaps
  BY <1>0, <1>2, AtSame DEF GivenMaps, Given
<1>5. GivenInts' = GivenInts
  <2>1. to \in IntSent(randomize) <=> wpc[w] \in IntSent(randomize)
    BY <1>2 DEF IntSent
  <2>2. \A b : (to \in IntSent(b) <=> wpc[w] \in IntSent(b)) =>
                    At("check", IntSent(b))' = At("check", IntSent(b))
    BY <1>0, <1>2, AtSame
  <2> QED
    BY <1>1, <2>1, <2>2 DEF GivenInts, Given
<1>6. GivenGets' = GivenGets + 1
  <2>1. to \in GetSent(randomize) /\ wpc[w] \notin GetSent(randomize)
    BY <1>2 DEF GetSent
  <2>2. \A b : to \in GetSent(b) /\ wpc[w] \notin GetSent(b) =>
                    Given("check", GetSent(b))' = Given("check", GetSent(b)) + 1
    BY <1>0, <1>2, AtEnters
  <2> QED
    BY <1>1, <2>1, <2>2 DEF GivenGets
<1> QED
  BY <1>1, <1>3, <1>4, <1>5, <1>6, AtFinite DEF TInv, Reports, Sums, Phases, GivenGets

\* What a check has compared are the Items its round inserted.
LEMMA ChecksAll ==
    ASSUME FInv, TInv, Undisturbed, NEW r \in Round, Checking(r)
    PROVE  IsFiniteSet(Wanted(r)) /\ Cardinality(Wanted(r)) = Items
<1>1. set[r] = Items
  BY DEF FInv, InsertsOver, Reported, Over, AllInserted, AtEnd
<1> QED
  BY <1>1, WantedCount DEF FInv, RT, TInv, Undisturbed

LEMMA CheckIntReports ==
    ASSUME FInv, TInv, Undisturbed, NEW r \in Round, SendInt(r)
    PROVE  TInv'
<1> DEFINE w == <<"check", r>>
<1>0. PT /\ w \in Worker /\ w[1] = "check" /\ randomize \in BOOLEAN
  BY CheckWorker DEF FInv, PInv, RT
<1>1. /\ UNCHANGED <<randomize, mpc, testmap, parChan, mux, setdone, getdone, checked, maps,
                     GetDoneChan, MapRetChan>>
      /\ RetIntChan' = Append(RetIntChan, Cardinality(Wanted(r)))
  BY DEF SendInt, unreported, flags, main, local, pool, handler
<1>2. PICK to \in {"second", "release"} :
          /\ wpc' = [wpc EXCEPT ![w] = to]
          /\ IF randomize THEN wpc[w] = "report" /\ to = "second"
             ELSE wpc[w] = "second" /\ to = "release"
  BY <1>0 DEF SendInt, First, Second
<1>3. TokensInUse' /\ HandlerInUse' /\ Stages' /\ FiniteMaps'
  BY <1>1, <1>2, ReportKeeps
<1>4. GivenMaps' = GivenMaps
  BY <1>0, <1>2, AtSame DEF GivenMaps, Given
<1>5. GivenGets' = GivenGets
  <2>1. to \in GetSent(randomize) <=> wpc[w] \in GetSent(randomize)
    BY <1>2 DEF GetSent
  <2>2. \A b : (to \in GetSent(b) <=> wpc[w] \in GetSent(b)) =>
                    At("check", GetSent(b))' = At("check", GetSent(b))
    BY <1>0, <1>2, AtSame
  <2> QED
    BY <1>1, <2>1, <2>2 DEF GivenGets, Given
<1>6. GivenInts' = GivenInts + 1
  <2>1. to \in IntSent(randomize) /\ wpc[w] \notin IntSent(randomize)
    BY <1>2 DEF IntSent
  <2>2. \A b : to \in IntSent(b) /\ wpc[w] \notin IntSent(b) =>
                    Given("check", IntSent(b))' = Given("check", IntSent(b)) + 1
    BY <1>0, <1>2, AtEnters
  <2> QED
    BY <1>1, <2>1, <2>2 DEF GivenInts
<1>7. Cardinality(Wanted(r)) = Items
  BY <1>2, ChecksAll DEF Checking
<1>8. RetIntChan' \in Seq({Items}) /\ Len(RetIntChan') = Len(RetIntChan) + 1
  BY <1>1, <1>7 DEF TInv, Sums
<1>9. GivenInts' - Len(RetIntChan') = GivenInts - Len(RetIntChan)
  BY <1>6, <1>8, AtFinite DEF GivenInts, TInv, Sums
<1>10. Sums'
  BY <1>1, <1>6, <1>8, <1>9, AtFinite DEF GivenInts, TInv, Sums
<1> QED
  BY <1>1, <1>3, <1>4, <1>5, <1>10 DEF TInv, Reports, Phases

\* main counts.
LEMMA Rest ==
    ASSUME NEW i \in Nat, NEW n \in Nat
    PROVE  i * n + i = i * (n + 1)
OBVIOUS

LEMMA MainSumCounts ==
    ASSUME FInv, TInv, MainSum
    PROVE  TInv'
<1>1. /\ mpc = "sum" /\ RetIntChan # <<>> /\ RetIntChan' = Tail(RetIntChan)
      /\ checked' = checked + Head(RetIntChan)
      /\ mpc' = IF checked' = Items * Rounds THEN "wait" ELSE mpc
      /\ UNCHANGED <<randomize, wpc, testmap, parChan, mux, setdone, getdone, maps,
                     SetDoneChan, GetDoneChan, MapRetChan>>
  BY DEF MainSum, flags, local, pool, handler
<1>2. FiniteMaps' /\ mpc' \in {"sum", "wait"}
  BY <1>1 DEF TInv, FiniteMaps
<1>3. /\ TokensInUse' /\ HandlerInUse' /\ Stages' /\ FiniteMaps'
      /\ GivenMaps' = GivenMaps /\ GivenInts' = GivenInts /\ GivenGets' = GivenGets
  BY <1>1, <1>2, NobodyMoves
<1>4. /\ RetIntChan' \in Seq({Items}) /\ Head(RetIntChan) = Items
      /\ Len(RetIntChan) \in Nat /\ Len(RetIntChan') \in Nat
      /\ Len(RetIntChan') = Len(RetIntChan) - 1
  <2>1. RetIntChan \in Seq({Items}) /\ RetIntChan # <<>>
    BY <1>1 DEF TInv, Sums
  <2>2. Head(RetIntChan) \in {Items} /\ Tail(RetIntChan) \in Seq({Items})
    BY <2>1
  <2> QED
    BY <1>1, <2>1, <2>2
<1> DEFINE n == GivenInts - Len(RetIntChan)
<1>5. n \in Nat /\ n < Rounds /\ checked = Items * n /\ GivenInts \in Nat
  BY <1>1, <1>4, AtFinite DEF TInv, Sums, GivenInts
<1>6. n' = n + 1
  BY <1>3, <1>4, <1>5
<1>7. checked' = Items * n'
  BY <1>1, <1>4, <1>5, <1>6, Rest, PoolAssumption
<1> HIDE DEF n
<1>8. mpc' # "wait" => n' < Rounds
  <2>1. n' \in Nat /\ n' <= Rounds
    BY <1>5, <1>6, ReportedCounts
  <2>2. n' = Rounds => checked' = Items * Rounds
    BY <1>7
  <2> QED
    BY <1>1, <2>1, <2>2, ReportedCounts
<1>9. Len(RetIntChan') <= GivenInts'
  <2>1. Len(RetIntChan) <= GivenInts /\ GivenInts' = GivenInts /\ GivenInts \in Nat
    BY <1>3, <1>5 DEF TInv, Sums
  <2> QED
    BY <1>4, <2>1
<1>10. Sums'
  BY <1>1, <1>2, <1>4, <1>7, <1>8, <1>9 DEF Sums, n
<1> QED
  BY <1>1, <1>2, <1>3, <1>10 DEF TInv, Reports, Phases

LEMMA MainGetDoneCounts ==
    ASSUME FInv, TInv, MainGetDone
    PROVE  TInv'
<1>1. /\ mpc = "check" /\ GetDoneChan > 0 /\ GetDoneChan' = GetDoneChan - 1
      /\ getdone' = getdone + 1
      /\ mpc' = IF getdone' = Rounds THEN "sum" ELSE mpc
      /\ UNCHANGED <<randomize, wpc, testmap, parChan, mux, setdone, checked, maps,
                     SetDoneChan, RetIntChan, MapRetChan>>
  BY DEF MainGetDone, flags, local, pool, handler
<1>2. FiniteMaps' /\ mpc' \in {"check", "sum"}
  BY <1>1 DEF TInv, FiniteMaps
<1>3. /\ TokensInUse' /\ HandlerInUse' /\ Stages' /\ FiniteMaps'
      /\ GivenMaps' = GivenMaps /\ GivenInts' = GivenInts /\ GivenGets' = GivenGets
  BY <1>1, <1>2, NobodyMoves
<1>4. Sums'
  BY <1>1, <1>2, <1>3 DEF TInv, Sums
<1>5. Reports'
  BY <1>1, <1>3 DEF TInv, Reports
<1>6. Phases'
  <2>1. getdone \in Nat /\ getdone < Rounds /\ setdone = Rounds /\ Rounds \in Nat
    BY <1>1, ReportedCounts DEF TInv, Phases, Reports
  <2> QED
    BY <1>1, <2>1 DEF Phases
<1> QED
  BY <1>3, <1>4, <1>5, <1>6 DEF TInv

\* The checks are started, and none of them has reported.
LEMMA ChecksStart ==
    ASSUME FInv, TInv, mpc \in {"insert", "maps"}, mpc' = "check", StartChecks,
           UNCHANGED <<randomize, testmap, parChan, mux>>
    PROVE  /\ TokensInUse' /\ HandlerInUse' /\ Stages' /\ FiniteMaps'
           /\ GivenMaps' = GivenMaps /\ GivenInts' = GivenInts /\ GivenGets' = GivenGets
<1>0. PT
  BY DEF FInv, PInv
<1>1. \A r \in Round : /\ wpc[<<"check", r>>] = "none" /\ wpc'[<<"check", r>>] = "start"
                       /\ wpc'[<<"insert", r>>] = wpc[<<"insert", r>>]
                       /\ wpc[<<"insert", r>>] # "none"
                       /\ wpc[<<"insert", r>>] = "second" => randomize
  BY InsertWorker, CheckWorker DEF TInv, Stages, StartChecks
<1>2. \A w \in Worker : \E r \in Round : w = <<"insert", r>> \/ w = <<"check", r>>
  BY DEF Worker
<1>3. \A w \in Worker : wpc'[w] = wpc[w] \/ (wpc[w] = "none" /\ wpc'[w] = "start")
  BY <1>1, <1>2
<1>4. TokensInUse' /\ HandlerInUse'
  BY <1>0, <1>3 DEF TInv, TokensInUse, HandlerInUse, Busy, PT
<1>5. Stages'
  BY <1>1, <1>3 DEF TInv, Stages
<1>6. FiniteMaps'
  BY DEF TInv, FiniteMaps
<1>7. At("insert", MapSent)' = At("insert", MapSent)
  BY <1>1 DEF At
<1>8. \A b : /\ At("check", IntSent(b))' = At("check", IntSent(b))
             /\ At("check", GetSent(b))' = At("check", GetSent(b))
  BY <1>1 DEF At, IntSent, GetSent
<1> QED
  BY <1>4, <1>5, <1>6, <1>7, <1>8 DEF GivenMaps, GivenInts, GivenGets, Given

LEMMA MainStartsChecks ==
    ASSUME FInv, TInv, MainSetDone \/ MainMaps
    PROVE  TInv'
<1>1. /\ UNCHANGED <<randomize, testmap, parChan, mux, checked, getdone, GetDoneChan,
                     RetIntChan>>
      /\ mpc \in {"insert", "maps"} /\ mpc' \in {"insert", "maps", "check"}
      /\ IF mpc' = "check" THEN StartChecks ELSE UNCHANGED wpc
      /\ mpc = "maps" => mpc' # "insert"
  BY DEF MainSetDone, MainMaps, flags, pool, handler, TInv, Phases
<1>2. FiniteMaps'
  BY <1>1 DEF TInv, FiniteMaps
<1>3. /\ TokensInUse' /\ HandlerInUse' /\ Stages' /\ FiniteMaps'
      /\ GivenMaps' = GivenMaps /\ GivenInts' = GivenInts /\ GivenGets' = GivenGets
  <2>1. CASE mpc' = "check"
    BY <1>1, <2>1, ChecksStart
  <2>2. CASE mpc' # "check"
    BY <1>1, <1>2, <2>2, NobodyMoves
  <2> QED
    BY <2>1, <2>2
<1>4. Sums'
  BY <1>1, <1>3 DEF TInv, Sums
<1>5. Reports' /\ Phases'
  <2>0. /\ Rounds \in Nat /\ setdone \in Nat /\ maps \in Nat
        /\ SetDoneChan \in Nat /\ MapRetChan \in Nat /\ setdone + SetDoneChan <= Rounds
    <3>1. Cardinality(Reported) <= Rounds
      BY PoolAssumption, FS_Subset DEF Reported, Rounds
    <3> QED
      BY <3>1, ReportedCounts DEF FInv, RT, Told, TInv, Reports
  <2>1. CASE MainSetDone
    <3>1. /\ mpc = "insert" /\ SetDoneChan > 0 /\ setdone' = setdone + 1
          /\ UNCHANGED <<maps, MapRetChan>>
          /\ \/ mpc' = mpc /\ setdone' < Rounds
             \/ mpc' = "maps" /\ randomize /\ setdone' = Rounds
             \/ mpc' = "check" /\ setdone' = Rounds
      BY <2>1 DEF MainSetDone
    <3> QED
      BY <1>1, <1>3, <2>0, <3>1 DEF TInv, Reports, Phases
  <2>2. CASE MainMaps
    <3>1. /\ mpc = "maps" /\ MapRetChan > 0 /\ maps' = maps + 1
          /\ MapRetChan' = MapRetChan - 1 /\ UNCHANGED setdone
          /\ \/ mpc' = mpc /\ maps' < Rounds
             \/ mpc' = "check"
      BY <2>2 DEF MainMaps
    <3> QED
      BY <1>1, <1>3, <2>0, <3>1 DEF TInv, Reports, Phases
  <2> QED
    BY <2>1, <2>2
<1> QED
  BY <1>3, <1>4, <1>5 DEF TInv

LEMMA TStep ==
    ASSUME FInv, FInv', TInv, Undisturbed, Undisturbed', [Next]_vars
    PROVE  TInv'
<1>1. CASE UNCHANGED vars
  <2>1. UNCHANGED <<randomize, wpc, testmap, parChan, mux, mpc, setdone, getdone, checked,
                    maps, SetDoneChan, GetDoneChan, RetIntChan, MapRetChan>>
    BY <1>1 DEF vars, flags, main, local, pool, reports, handler
  <2>2. FiniteMaps' /\ mpc \in {"insert", "maps", "check", "sum", "wait"}
    BY <2>1 DEF TInv, FiniteMaps, Stages
  <2>3. /\ TokensInUse' /\ HandlerInUse' /\ Stages' /\ FiniteMaps'
        /\ GivenMaps' = GivenMaps /\ GivenInts' = GivenInts /\ GivenGets' = GivenGets
    BY <2>1, <2>2, NobodyMoves
  <2> QED
    BY <2>1, <2>3 DEF TInv, Reports, Sums, Phases
<1>2. ASSUME NEW w \in Worker, WorkerStep(w) \/ CallFails(w) PROVE TInv'
  <2>0. w[2] \in Round
    BY DEF Worker
  <2>1. CASE CallFails(w)
    BY <2>1 DEF CallFails, Undisturbed
  <2>2. CASE WorkerStep(w)
    BY <2>0, <2>2, PoolStepsUnreported, WorkUnreported, InsertReports, CheckGetReports,
       CheckIntReports DEF WorkerStep
  <2> QED
    BY <1>2, <2>1, <2>2
<1> QED
  BY <1>1, <1>2, MainStartsChecks, MainGetDoneCounts, MainSumCounts DEF Next, Work, MainStep

LEMMA TInit == ASSUME Init, Rounds > 0 PROVE TInv
<1>1. \A r \in Round : wpc[<<"insert", r>>] = "start" /\ wpc[<<"check", r>>] = "none"
  BY InsertWorker, CheckWorker DEF Init
<1>2. At("insert", MapSent) = {} /\ \A b : At("check", IntSent(b)) = {} /\ At("check", GetSent(b)) = {}
  BY <1>1 DEF At, MapSent, IntSent, GetSent
<1>3. GivenMaps = 0 /\ GivenInts = 0 /\ GivenGets = 0
  BY <1>2, FS_EmptySet DEF GivenMaps, GivenInts, GivenGets, Given
<1>4. Sums
  <2>1. RetIntChan = <<>> /\ checked = 0 /\ mpc = "insert"
    BY DEF Init
  <2>2. Items * (0 - 0) = 0
    BY PoolAssumption
  <2> QED
    BY <1>3, <2>1, <2>2 DEF Sums
<1>5. FiniteMaps
  BY FS_EmptySet DEF Init, FiniteMaps, NoMap
<1>6. TokensInUse /\ HandlerInUse
  BY DEF Init, TokensInUse, HandlerInUse
<1>7. Stages
  BY <1>1 DEF Init, Stages
<1>8. Reports /\ Phases
  BY <1>3, ReportedCounts DEF Init, Reports, Phases
<1> QED
  BY <1>4, <1>5, <1>6, <1>7, <1>8 DEF TInv

----------------------------------------------------------------------------
(* As long as main waits for something, somebody can go on *)

\* The channel of the report w is about to make has room.
Room(w) == IF w[1] = "insert"
           THEN IF wpc[w] = "report" /\ randomize THEN MapRetChan < Rounds
                ELSE SetDoneChan < Rounds
           ELSE IF (wpc[w] = "report") = randomize THEN Len(RetIntChan) < Rounds
                ELSE GetDoneChan < Rounds

WorkerCan(w) == /\ ~Ended
                /\ \/ wpc[w] = "start" /\ Cardinality(parChan) < Parallel
                   \/ wpc[w] \in {"select", "dialing", "release"}
                   \/ wpc[w] = "dial" /\ mux = <<>>
                   \/ wpc[w] = "work" /\ (~Finished(w) \/ Len(cliChan) < Parallel)
                   \/ wpc[w] \in {"report", "second"} /\ Room(w)

MainCan == \/ mpc = "insert" /\ SetDoneChan > 0
           \/ mpc = "maps" /\ MapRetChan > 0
           \/ mpc = "check" /\ GetDoneChan > 0
           \/ mpc = "sum" /\ RetIntChan # <<>>

LEMMA NotAll ==
    ASSUME NEW kind, NEW places, NEW r \in Round, wpc[<<kind, r>>] \notin places
    PROVE  Given(kind, places) < Rounds
<1>1. At(kind, places) # Round
  BY DEF At
<1> QED
  BY <1>1, AtFinite, ReportedCounts

\* No report finds its channel full: there is room for one of each round.
LEMMA ReportsHaveRoom ==
    ASSUME FInv, TInv, NEW w \in Worker, wpc[w] \in {"report", "second"}
    PROVE  Room(w)
<1>0. randomize \in BOOLEAN /\ Rounds \in Nat /\ Rounds = Cardinality(Round)
  BY ReportedCounts DEF FInv, RT, Rounds
<1>1. ASSUME NEW r \in Round, w = <<"insert", r>> PROVE Room(w)
  <2>1. w[1] = "insert"
    BY <1>1
  <2>2. SetDoneChan < Rounds
    <3>1. Given("insert", {"release", "end"}) < Rounds
      BY <1>1, NotAll
    <3>2. Given("insert", {"release", "end"}) = Cardinality(Reported)
      BY DEF Given, At, Reported, Over
    <3> QED
      BY <3>1, <3>2, <1>0, AtFinite DEF FInv, Told, RT
  <2>3. wpc[w] = "report" /\ randomize => MapRetChan < Rounds
    <3>1. wpc[w] = "report" => GivenMaps < Rounds
      BY <1>1, NotAll DEF GivenMaps, MapSent
    <3> QED
      BY <3>1, <1>0, AtFinite DEF TInv, Reports, GivenMaps
  <2> QED
    BY <2>1, <2>2, <2>3 DEF Room
<1>2. ASSUME NEW r \in Round, w = <<"check", r>> PROVE Room(w)
  <2>1. w[1] # "insert"
    BY <1>2
  <2>2. (wpc[w] = "report") = randomize => Len(RetIntChan) < Rounds
    <3>1. (wpc[w] = "report") = randomize => wpc[w] \notin IntSent(randomize)
      BY <1>0 DEF IntSent
    <3>2. \A b : wpc[w] \notin IntSent(b) => Given("check", IntSent(b)) < Rounds
      BY <1>2, NotAll
    <3>3. Len(RetIntChan) <= GivenInts /\ Len(RetIntChan) \in Nat
      BY DEF TInv, Sums
    <3> QED
      BY <3>1, <3>2, <3>3, <1>0, AtFinite DEF GivenInts
  <2>3. (wpc[w] = "report") # randomize => GetDoneChan < Rounds
    <3>1. (wpc[w] = "report") # randomize => wpc[w] \notin GetSent(randomize)
      BY <1>0 DEF GetSent
    <3>2. \A b : wpc[w] \notin GetSent(b) => Given("check", GetSent(b)) < Rounds
      BY <1>2, NotAll
    <3> QED
      BY <3>1, <3>2, <1>0, AtFinite DEF GivenGets, TInv, Reports
  <2> QED
    BY <2>1, <2>2, <2>3 DEF Room
<1> QED
  BY <1>1, <1>2 DEF Worker

\* A goroutine with a token goes on, or the one that dials does.
LEMMA HoldersGoOn ==
    ASSUME FInv, TInv, NEW w \in Worker, Busy(w)
    PROVE  \E v \in Worker : WorkerCan(v)
<1>0. PT /\ ~Ended
  BY DEF FInv, PInv, TInv, Stages, Ended
<1>1. CASE wpc[w] = "dial"
  <2>1. CASE mux = <<>>
    BY <1>0, <1>1, <2>1 DEF WorkerCan
  <2>2. CASE mux # <<>>
    BY <1>0, <2>2 DEF WorkerCan, TInv, HandlerInUse
  <2> QED
    BY <2>1, <2>2
<1>2. CASE wpc[w] = "work"
  <2>1. Cardinality(Owners) >= 1
    <3>1. w \in Owners
      BY <1>2 DEF Owners
    <3>2. IsFiniteSet(Owners) /\ Cardinality(Owners) \in Nat
      BY Parts, FiniteParts
    <3>3. Cardinality(Owners) # 0
      BY <3>1, <3>2, FS_EmptySet
    <3> QED
      BY <3>2, <3>3
  <2>2. Cardinality(Dialing) \in Nat /\ Cardinality(Owners) \in Nat
    BY Parts, FiniteParts
  <2>3. Len(cliChan) < Parallel
    BY <2>1, <2>2, <1>0, PoolAssumption DEF FInv, PInv, PT, Counted, ConnsBounded
  <2> QED
    BY <1>0, <1>2, <2>3 DEF WorkerCan
<1>3. CASE wpc[w] \in {"report", "second"}
  BY <1>0, <1>3, ReportsHaveRoom DEF WorkerCan
<1>4. CASE wpc[w] \in {"select", "dialing", "release"}
  BY <1>0, <1>4 DEF WorkerCan
<1> QED
  BY <1>0, <1>1, <1>2, <1>3, <1>4 DEF Busy, PT, WorkerPC, TInv, Stages

LEMMA GoroutinesGoOn ==
    ASSUME FInv, TInv, Parallel > 0, NEW w \in Worker, wpc[w] \notin {"none", "end"}
    PROVE  \E v \in Worker : WorkerCan(v)
<1>1. CASE wpc[w] = "start" /\ Cardinality(parChan) < Parallel
  BY <1>1 DEF WorkerCan, TInv, Stages, Ended
<1>2. CASE wpc[w] = "start" /\ ~(Cardinality(parChan) < Parallel)
  <2>1. parChan \subseteq Worker /\ parChan # {}
    BY <1>2, FS_EmptySet, PoolAssumption DEF FInv, PInv, PT
  <2> QED
    BY <2>1, HoldersGoOn DEF TInv, TokensInUse
<1>3. CASE wpc[w] # "start"
  BY <1>3, HoldersGoOn DEF Busy
<1> QED
  BY <1>1, <1>2, <1>3

\* Nobody is stuck before the end: with all goroutines at theirs, every report
\* is in its channel.
LEMMA NobodyStuck ==
    ASSUME FInv, TInv, Parallel > 0, mpc # "wait", \A w \in Worker : ~WorkerCan(w)
    PROVE  MainCan
<1>0. /\ \A w \in Worker : wpc[w] \in {"none", "end"}
      /\ Rounds \in Nat /\ setdone \in Nat /\ SetDoneChan \in Nat
  BY GoroutinesGoOn, ReportedCounts DEF FInv, RT
<1>1. \A r \in Round : wpc[<<"insert", r>>] = "end"
  BY <1>0, InsertWorker DEF TInv, Stages
<1>2. CASE mpc = "insert"
  <2>1. Reported = Round
    BY <1>1 DEF Reported, Over
  <2> QED
    BY <1>0, <1>2, <2>1 DEF MainCan, TInv, Phases, FInv, Told, Rounds
<1>3. CASE mpc = "maps"
  <2>1. At("insert", MapSent) = Round
    BY <1>1 DEF At, MapSent
  <2> QED
    BY <1>0, <1>3, <2>1 DEF MainCan, TInv, Phases, Reports, GivenMaps, Given, Rounds
<1>4. CASE mpc \in {"check", "sum"}
  <2>1. \A r \in Round : wpc[<<"check", r>>] = "end"
    BY <1>0, <1>4, CheckWorker DEF TInv, Stages
  <2>2. \A b : At("check", GetSent(b)) = Round /\ At("check", IntSent(b)) = Round
    BY <2>1 DEF At, GetSent, IntSent
  <2>3. GivenGets = Rounds /\ GivenInts = Rounds
    BY <2>2 DEF GivenGets, GivenInts, Given, Rounds
  <2>4. CASE mpc = "check"
    BY <1>0, <2>3, <2>4 DEF MainCan, TInv, Phases, Reports
  <2>5. CASE mpc = "sum"
    <3>1. GivenInts - Len(RetIntChan) < Rounds
      BY <2>5 DEF TInv, Sums
    <3>2. RetIntChan # <<>>
      BY <1>0, <2>3, <3>1
    <3> QED
      BY <2>5, <3>2 DEF MainCan
  <2> QED
    BY <1>4, <2>4, <2>5
<1> QED
  BY <1>2, <1>3, <1>4 DEF TInv, Stages

----------------------------------------------------------------------------
(* Every step leaves less to do *)

\* The steps a goroutine at p has left at most, twice: one of the two is for
\* main, which reads its report.
Stage(p) == CASE p = "none" -> 18   [] p = "start" -> 16  [] p = "select" -> 14
              [] p = "dial" -> 12   [] p = "dialing" -> 10 [] p = "work" -> 8
              [] p = "report" -> 6  [] p = "second" -> 4  [] p = "release" -> 2
              [] OTHER -> 0

ToGo     == {t \in Worker \X (1..18) : t[2] <= Stage(wpc[t[1]])}
ToInsert == {t \in Round \X (1..Items) : t[2] > set[t[1]]}
ToVerify == {t \in Round \X UNION {todo[r] : r \in Round} : t[2] \in todo[t[1]]}
ToCheck  == IF mpc \in {"insert", "maps"} THEN Round \X (1..Items) ELSE ToVerify
Unread   == SetDoneChan + MapRetChan + GetDoneChan + Len(RetIntChan)

Left == Cardinality(ToGo) + Cardinality(ToInsert) + Cardinality(ToCheck) + Unread

LInv == IsFiniteSet(ToCheck)

LEMMA StageType == \A p : Stage(p) \in 0..18
BY DEF Stage

LEMMA PairsCount ==
    ASSUME NEW S, IsFiniteSet(S), NEW n \in Nat
    PROVE  IsFiniteSet(S \X (1..n)) /\ Cardinality(S \X (1..n)) = Cardinality(S) * n
<1>1. IsFiniteSet(1..n) /\ Cardinality(1..n) = n
  BY FS_Interval
<1> QED
  BY <1>1, FS_Product

LEMMA ToGoFinite == IsFiniteSet(ToGo) /\ Cardinality(ToGo) \in Nat
<1>1. IsFiniteSet(Worker \X (1..18)) /\ ToGo \subseteq Worker \X (1..18)
  BY Finite, PairsCount DEF ToGo
<1> QED
  BY <1>1, FS_Subset, FS_CardinalityType

LEMMA ToInsertFinite == IsFiniteSet(ToInsert) /\ Cardinality(ToInsert) \in Nat
<1>1. IsFiniteSet(Round \X (1..Items)) /\ ToInsert \subseteq Round \X (1..Items)
  BY PoolAssumption, PairsCount DEF ToInsert
<1> QED
  BY <1>1, FS_Subset, FS_CardinalityType

LEMMA Shrunk ==
    ASSUME NEW S, NEW T, IsFiniteSet(S), T \subseteq S
    PROVE  /\ IsFiniteSet(T) /\ Cardinality(S) \in Nat /\ Cardinality(T) \in Nat
           /\ Cardinality(T) <= Cardinality(S)
           /\ \A x \in S \ T : Cardinality(T) <= Cardinality(S) - 1
           /\ \A x, y \in S \ T : x # y => Cardinality(T) <= Cardinality(S) - 2
<1>1. /\ IsFiniteSet(T) /\ Cardinality(S) \in Nat /\ Cardinality(T) \in Nat
      /\ Cardinality(T) <= Cardinality(S)
  BY FS_Subset, FS_CardinalityType
<1>2. ASSUME NEW x \in S \ T
      PROVE  /\ Cardinality(T) <= Cardinality(S) - 1
             /\ IsFiniteSet(S \ {x}) /\ Cardinality(S \ {x}) = Cardinality(S) - 1
  <2>1. IsFiniteSet(S \ {x}) /\ Cardinality(S \ {x}) = Cardinality(S) - 1
    BY <1>2, FS_RemoveElement
  <2> QED
    BY <1>2, <2>1, FS_Subset
<1>3. ASSUME NEW x \in S \ T, NEW y \in S \ T, x # y
      PROVE  Cardinality(T) <= Cardinality(S) - 2
  <2>1. IsFiniteSet(S \ {x}) /\ Cardinality(S \ {x}) = Cardinality(S) - 1
    BY <1>2
  <2>2. /\ IsFiniteSet((S \ {x}) \ {y})
        /\ Cardinality((S \ {x}) \ {y}) = Cardinality(S \ {x}) - 1
    BY <1>3, <2>1, FS_RemoveElement
  <2>3. Cardinality(T) <= Cardinality((S \ {x}) \ {y})
    BY <2>2, FS_Subset
  <2> QED
    BY <1>1, <2>1, <2>2, <2>3
<1> QED
  BY <1>1, <1>2, <1>3

LEMMA StageDown ==
    ASSUME PT, NEW w \in Worker, NEW to, wpc' = [wpc EXCEPT ![w] = to],
           Stage(to) + 2 <= Stage(wpc[w])
    PROVE  Cardinality(ToGo') <= Cardinality(ToGo) - 2
<1> DEFINE s == Stage(wpc[w])
<1>1. s \in 2..18 /\ Stage(to) \in 0..18
  BY StageType
<1>2. \A v \in Worker : wpc'[v] = IF v = w THEN to ELSE wpc[v]
  BY DEF PT
<1>3. ToGo' = {t \in Worker \X (1..18) : t[2] <= Stage(wpc'[t[1]])}
  BY DEF ToGo
<1> HIDE DEF s
<1>4. \A t \in Worker \X (1..18) : t[2] <= Stage(wpc'[t[1]]) => t[2] <= Stage(wpc[t[1]])
  BY <1>1, <1>2, StageType DEF s
<1>5. ToGo' \subseteq ToGo
  BY <1>3, <1>4 DEF ToGo
<1>6. /\ <<w, s>> \in ToGo /\ <<w, s>> \notin ToGo'
      /\ <<w, s - 1>> \in ToGo /\ <<w, s - 1>> \notin ToGo'
  BY <1>1, <1>2, <1>3 DEF ToGo, s
<1>7. <<w, s>> # <<w, s - 1>>
  BY <1>1
<1> QED
  BY <1>5, <1>6, <1>7, ToGoFinite, Shrunk

\* A step to the next place, while what there is to insert and to check stays.
LEMMA GoesLess ==
    ASSUME FInv, TInv, LInv, NEW w \in Worker, NEW to, wpc' = [wpc EXCEPT ![w] = to],
           Stage(to) + 2 <= Stage(wpc[w]),
           UNCHANGED <<mpc, set, todo>>,
           Unread \in Nat, Unread' \in Nat, Unread' <= Unread + 1
    PROVE  LInv' /\ Left' <= Left - 1
<1>1. Cardinality(ToGo') <= Cardinality(ToGo) - 2
  BY StageDown DEF FInv, PInv
<1>2. ToInsert' = ToInsert /\ ToCheck' = ToCheck
  BY DEF ToInsert, ToCheck, ToVerify
<1>3. LInv' /\ Cardinality(ToCheck) \in Nat
  BY <1>2, FS_CardinalityType DEF LInv
<1>4. Cardinality(ToGo) \in Nat /\ Cardinality(ToGo') \in Nat
  <2>1. ToGo' \subseteq Worker \X (1..18)
    BY DEF ToGo
  <2> QED
    BY <2>1, ToGoFinite, Finite, PairsCount, FS_Subset, FS_CardinalityType
<1> QED
  BY <1>1, <1>2, <1>3, <1>4, ToInsertFinite DEF Left

LEMMA UnreadType == ASSUME FInv, TInv PROVE Unread \in Nat
<1>1. Len(RetIntChan) \in Nat
  BY DEF TInv, Sums
<1> QED
  BY <1>1 DEF FInv, RT, TInv, Reports, Unread

LEMMA PoolStepsLess ==
    ASSUME FInv, FInv', TInv, TInv', LInv, NEW w \in Worker, Undisturbed, Undisturbed',
           GetConn(w) \/ GiveBack(w) \/ Release(w)
    PROVE  LInv' /\ Left' <= Left - 1
<1>1. PICK to : /\ wpc' = [wpc EXCEPT ![w] = to]
                /\ \/ wpc[w] = "start" /\ to = "select"
                   \/ wpc[w] = "select" /\ to \in {"work", "dial"}
                   \/ wpc[w] = "dial" /\ to = "dialing"
                   \/ wpc[w] = "dialing" /\ to = "work"
                   \/ wpc[w] = "work" /\ to = "report"
                   \/ wpc[w] = "release" /\ to = "end"
  BY DEF GetConn, Acquire, TakeOpen, NoneOpen, LockHandler, Connected, ConnectedDaemon,
         DialFails, GiveBack, Release, Goto, Undisturbed
<1>2. Stage(to) + 2 <= Stage(wpc[w])
  BY <1>1 DEF Stage
<1>3. UNCHANGED <<mpc, set, todo, SetDoneChan, MapRetChan, GetDoneChan, RetIntChan>>
  BY DEF GetConn, Acquire, TakeOpen, NoneOpen, LockHandler, Connected, ConnectedDaemon,
         DialFails, GiveBack, Release, Undisturbed, main, local, reports
<1>4. UNCHANGED <<mpc, set, todo>> /\ Unread' = Unread
  BY <1>3 DEF Unread
<1>5. Unread \in Nat /\ Unread' \in Nat /\ Unread' <= Unread + 1
  BY <1>4, UnreadType
<1> QED
  BY <1>1, <1>2, <1>4, <1>5, GoesLess

LEMMA ReportsLess ==
    ASSUME FInv, FInv', TInv, TInv', LInv, NEW r \in Round,
           SendMap(r) \/ SendSetDone(r) \/ SendGetDone(r) \/ SendInt(r)
    PROVE  LInv' /\ Left' <= Left - 1
<1>1. PICK kind \in {"insert", "check"}, to \in {"second", "release"} :
                /\ wpc' = [wpc EXCEPT ![<<kind, r>>] = to]
                /\ \/ wpc[<<kind, r>>] = "report"
                   \/ wpc[<<kind, r>>] = "second" /\ to = "release"
  BY DEF SendMap, SendSetDone, SendGetDone, SendInt, First, Second, Only
<1>2. Stage(to) + 2 <= Stage(wpc[<<kind, r>>])
  BY <1>1 DEF Stage
<1>3. UNCHANGED <<mpc, set, todo>>
  BY DEF SendMap, SendSetDone, SendGetDone, SendInt, unreported, main, local
<1>4. Unread' = Unread + 1
  <2>0. /\ SetDoneChan \in Nat /\ MapRetChan \in Nat /\ GetDoneChan \in Nat
        /\ RetIntChan \in Seq({Items}) /\ Len(RetIntChan) \in Nat
    BY DEF FInv, RT, TInv, Reports, Sums
  <2>1. CASE SendMap(r) \/ SendSetDone(r) \/ SendGetDone(r)
    BY <2>0, <2>1 DEF SendMap, SendSetDone, SendGetDone, Unread
  <2>2. CASE SendInt(r)
    <3>1. Len(RetIntChan') = Len(RetIntChan) + 1
      BY <2>0, <2>2 DEF SendInt
    <3> QED
      BY <2>0, <2>2, <3>1 DEF SendInt, Unread
  <2> QED
    BY <2>1, <2>2
<1>5. <<kind, r>> \in Worker
  BY DEF Worker
<1>6. Unread \in Nat /\ Unread' \in Nat /\ Unread' <= Unread + 1
  BY <1>4, UnreadType
<1> QED
  BY <1>1, <1>2, <1>3, <1>5, <1>6, GoesLess

LEMMA InsertLess ==
    ASSUME FInv, FInv', TInv, TInv', LInv, NEW r \in Round, Insert(r)
    PROVE  LInv' /\ Left' <= Left - 1
<1>1. /\ set[r] \in 0..Items /\ set[r] < Items
      /\ \A q \in Round : set'[q] = IF q = r THEN set[q] + 1 ELSE set[q]
      /\ UNCHANGED <<mpc, wpc, todo, SetDoneChan, MapRetChan, GetDoneChan, RetIntChan>>
  BY DEF Insert, FInv, RT, main, reports
<1>2. \A q \in Round : set[q] \in 0..Items
  BY DEF FInv, RT
<1>3. ToInsert' = {t \in Round \X (1..Items) : t[2] > set'[t[1]]}
  BY DEF ToInsert
<1>4. \A t \in Round \X (1..Items) : t[2] > set'[t[1]] => t[2] > set[t[1]]
  BY <1>1, <1>2
<1>5. ToInsert' \subseteq ToInsert
  BY <1>3, <1>4 DEF ToInsert
<1>6. <<r, set[r] + 1>> \in ToInsert /\ <<r, set[r] + 1>> \notin ToInsert'
  BY <1>1, <1>3, PoolAssumption DEF ToInsert
<1>7. /\ Cardinality(ToInsert') \in Nat
      /\ Cardinality(ToInsert') <= Cardinality(ToInsert) - 1
  BY <1>5, <1>6, ToInsertFinite, Shrunk
<1>8. ToGo' = ToGo /\ ToCheck' = ToCheck /\ Unread' = Unread
  BY <1>1 DEF ToGo, ToCheck, ToVerify, Unread
<1>9. LInv' /\ Cardinality(ToCheck) \in Nat
  BY <1>8, FS_CardinalityType DEF LInv
<1> QED
  BY <1>7, <1>8, <1>9, ToGoFinite, ToInsertFinite, UnreadType DEF Left

LEMMA VerifyLess ==
    ASSUME FInv, FInv', TInv, TInv', LInv, NEW r \in Round, Verify(r),
           Undisturbed, Undisturbed'
    PROVE  LInv' /\ Left' <= Left - 1
<1>1. PICK p \in todo[r] : todo' = [todo EXCEPT ![r] = @ \ {p}] /\ UNCHANGED main
  BY DEF Verify, Fatalf, TInv, Stages
<1>2. UNCHANGED <<mpc, wpc, set, SetDoneChan, MapRetChan, GetDoneChan, RetIntChan>>
  BY <1>1 DEF Verify, main, reports
<1>3. mpc \notin {"insert", "maps"}
  BY DEF Verify, TInv, Stages
<1>4. \A q \in Round : todo'[q] = IF q = r THEN todo[q] \ {p} ELSE todo[q]
  BY <1>1 DEF FInv, RT
<1>5. ToVerify' = {t \in Round \X UNION {todo'[q] : q \in Round} : t[2] \in todo'[t[1]]}
  BY DEF ToVerify
<1>6. ToVerify' \subseteq ToVerify
  <2>1. ASSUME NEW t \in ToVerify'
        PROVE  t[2] \in todo[t[1]] /\ t[1] \in Round /\ t = <<t[1], t[2]>>
    <3> DEFINE U == UNION {todo'[q] : q \in Round}
    <3>1. t \in Round \X U
      BY <1>5
    <3>2. t[2] \in todo'[t[1]]
      BY <1>5
    <3> HIDE DEF U
    <3>3. t[1] \in Round /\ t = <<t[1], t[2]>>
      BY <3>1
    <3> QED
      BY <1>4, <3>2, <3>3
  <2> QED
    BY <2>1 DEF ToVerify
<1>7. <<r, p>> \in ToVerify /\ <<r, p>> \notin ToVerify'
  BY <1>1, <1>4, <1>5 DEF ToVerify
<1>8. ToCheck = ToVerify /\ ToCheck' = ToVerify'
  BY <1>2, <1>3 DEF ToCheck
<1>9. /\ LInv' /\ Cardinality(ToCheck') \in Nat /\ Cardinality(ToCheck) \in Nat
      /\ Cardinality(ToCheck') <= Cardinality(ToCheck) - 1
  BY <1>6, <1>7, <1>8, Shrunk DEF LInv
<1>10. ToGo' = ToGo /\ ToInsert' = ToInsert /\ Unread' = Unread
  BY <1>2 DEF ToGo, ToInsert, Unread
<1> QED
  BY <1>9, <1>10, ToGoFinite, ToInsertFinite, UnreadType DEF Left

\* As many sets of n as there are rounds have no more members than rounds times n.
LEMMA UnionBound ==
    ASSUME NEW T, NEW n \in Nat,
           \A r \in Round : IsFiniteSet(T[r]) /\ Cardinality(T[r]) = n
    PROVE  LET V == {t \in Round \X UNION {T[r] : r \in Round} : t[2] \in T[t[1]]}
           IN  IsFiniteSet(V) /\ Cardinality(V) <= Cardinality(Round \X (1..n))
<1> DEFINE V == {t \in Round \X UNION {T[r] : r \in Round} : t[2] \in T[t[1]]}
           D == Round \X (1..n)
           b == [r \in Round |-> CHOOSE g : g \in Surjection(1..n, T[r])]
           f == [t \in D |-> <<t[1], b[t[1]][t[2]]>>]
<1>1. ASSUME NEW r \in Round PROVE b[r] \in Surjection(1..n, T[r])
  <2>1. \E g : g \in Surjection(1..n, T[r])
    BY FS_CardinalityType DEF ExistsBijection, Bijection
  <2> QED
    BY <2>1
<1>2. ASSUME NEW t \in D PROVE f[t] \in V
  <2>1. t[1] \in Round /\ t[2] \in 1..n
    OBVIOUS
  <2>2. b[t[1]][t[2]] \in T[t[1]]
    BY <2>1, <1>1 DEF Surjection
  <2>3. b[t[1]][t[2]] \in UNION {T[r] : r \in Round}
    BY <2>1, <2>2
  <2>4. f[t] = <<t[1], b[t[1]][t[2]]>>
    OBVIOUS
  <2> HIDE DEF f, b
  <2> DEFINE x == b[t[1]][t[2]]
             U == UNION {T[r] : r \in Round}
  <2>5. x \in T[t[1]] /\ x \in U /\ f[t] = <<t[1], x>>
    BY <2>2, <2>3, <2>4
  <2> HIDE DEF x, U
  <2>6. <<t[1], x>> \in Round \X U /\ <<t[1], x>>[2] \in T[<<t[1], x>>[1]]
    BY <2>1, <2>5
  <2> QED
    BY <2>5, <2>6 DEF V, U
<1>3. ASSUME NEW v \in V PROVE \E t \in D : f[t] = v
  <2> DEFINE U == UNION {T[r] : r \in Round}
  <2>0. v \in Round \X U /\ v[2] \in T[v[1]]
    BY DEF V
  <2> HIDE DEF U
  <2>1. v[1] \in Round /\ v[2] \in T[v[1]] /\ v = <<v[1], v[2]>>
    BY <2>0
  <2>2. PICK i \in 1..n : b[v[1]][i] = v[2]
    BY <2>1, <1>1 DEF Surjection
  <2>3. <<v[1], i>> \in D /\ f[<<v[1], i>>] = v
    BY <2>1, <2>2
  <2> QED
    BY <2>3
<1>4. f \in [D -> V]
  <2> HIDE DEF V, D
  <2>1. \A t \in D : f[t] = <<t[1], b[t[1]][t[2]]>>
    OBVIOUS
  <2>2. \A t \in D : <<t[1], b[t[1]][t[2]]>> \in V
    BY <1>2, <2>1
  <2> QED
    BY <2>2
<1> HIDE DEF V, b, f
<1>5. f \in Surjection(D, V)
  BY <1>2, <1>3, <1>4 DEF Surjection
<1>6. IsFiniteSet(D)
  BY PoolAssumption, PairsCount
<1> HIDE DEF D
<1>7. IsFiniteSet(V) /\ Cardinality(V) <= Cardinality(D)
  BY <1>5, <1>6, FS_Surjection
<1> QED
  BY <1>7 DEF V, D

LEMMA ChecksStartLess ==
    ASSUME FInv, FInv', TInv, TInv', LInv, Undisturbed, StartChecks,
           mpc \in {"insert", "maps"}, mpc' = "check", UNCHANGED <<randomize, testmap, set>>
    PROVE  /\ LInv' /\ Cardinality(ToGo') <= Cardinality(ToGo) /\ ToInsert' = ToInsert
           /\ Cardinality(ToCheck') <= Cardinality(ToCheck) /\ Cardinality(ToGo') \in Nat
<1>1. \A w \in Worker : wpc'[w] = wpc[w] \/ (wpc[w] = "none" /\ wpc'[w] = "start")
  <2>1. \A w \in Worker : \E r \in Round : w = <<"insert", r>> \/ w = <<"check", r>>
    BY DEF Worker
  <2> QED
    BY <2>1 DEF StartChecks, TInv, Stages
<1>2. ToGo' \subseteq ToGo
  <2>1. ToGo' = {t \in Worker \X (1..18) : t[2] <= Stage(wpc'[t[1]])}
    BY DEF ToGo
  <2>2. Stage("none") = 18 /\ Stage("start") = 16
    BY DEF Stage
  <2>3. \A t \in Worker \X (1..18) : t[2] <= Stage(wpc'[t[1]]) => t[2] <= Stage(wpc[t[1]])
    BY <1>1, <2>2
  <2> QED
    BY <2>1, <2>3 DEF ToGo
<1>3. ASSUME NEW r \in Round PROVE IsFiniteSet(todo'[r]) /\ Cardinality(todo'[r]) = Items
  <2>1. todo'[r] = Wanted(r) /\ Wanted(r)' = Wanted(r)
    BY DEF StartChecks, Wanted, Numbered
  <2>2. wpc'[<<"check", r>>] # "none"
    BY CheckWorker DEF StartChecks
  <2>3. Checking(r)'
    BY <2>2 DEF Checking
  <2>4. set[r] = Items
    BY <2>3 DEF FInv, InsertsOver, Reported, Over, AllInserted, AtEnd
  <2>5. randomize \in BOOLEAN /\ AllDistinct /\ FiniteMaps
    BY DEF FInv, RT, Undisturbed, TInv
  <2>6. IsFiniteSet(Wanted(r)) /\ Cardinality(Wanted(r)) = Items
    BY <2>4, <2>5, WantedCount
  <2> QED
    BY <2>1, <2>6
<1>4. ToCheck = Round \X (1..Items) /\ ToCheck' = ToVerify'
  BY DEF ToCheck
<1>5. ToVerify' = {t \in Round \X UNION {todo'[r] : r \in Round} : t[2] \in todo'[t[1]]}
  BY DEF ToVerify
<1>6. IsFiniteSet(ToVerify') /\ Cardinality(ToVerify') <= Cardinality(Round \X (1..Items))
  BY <1>3, <1>5, UnionBound, PoolAssumption
<1>7. ToInsert' = ToInsert
  BY DEF ToInsert
<1> QED
  BY <1>2, <1>4, <1>6, <1>7, ToGoFinite, Shrunk DEF LInv

\* main reads a report.
LEMMA MainLess ==
    ASSUME FInv, FInv', TInv, TInv', LInv, Undisturbed, MainStep
    PROVE  LInv' /\ Left' <= Left - 1
<1>0. /\ SetDoneChan \in Nat /\ MapRetChan \in Nat /\ GetDoneChan \in Nat
      /\ RetIntChan \in Seq({Items}) /\ Len(RetIntChan) \in Nat
  BY DEF FInv, RT, TInv, Reports, Sums
<1>1. Unread \in Nat /\ Unread' \in Nat /\ Unread' = Unread - 1
  <2>1. CASE MainSetDone \/ MainMaps \/ MainGetDone
    BY <1>0, <2>1 DEF MainSetDone, MainMaps, MainGetDone, Unread
  <2>2. CASE MainSum
    <3>1. Len(RetIntChan') = Len(RetIntChan) - 1 /\ Len(RetIntChan) > 0
      BY <1>0, <2>2 DEF MainSum
    <3> QED
      BY <1>0, <2>2, <3>1 DEF MainSum, Unread
  <2> QED
    BY <2>1, <2>2 DEF MainStep
<1>2. UNCHANGED <<randomize, testmap, set>>
  BY DEF MainStep, MainSetDone, MainMaps, MainGetDone, MainSum, flags, local
<1>3. CASE mpc' = "check" /\ mpc # "check"
  <2>1. mpc \in {"insert", "maps"} /\ StartChecks
    BY <1>3 DEF MainStep, MainSetDone, MainMaps, MainGetDone, MainSum
  <2>2. /\ LInv' /\ Cardinality(ToGo') <= Cardinality(ToGo) /\ ToInsert' = ToInsert
        /\ Cardinality(ToCheck') <= Cardinality(ToCheck) /\ Cardinality(ToGo') \in Nat
    BY <1>2, <1>3, <2>1, ChecksStartLess
  <2>3. Cardinality(ToCheck) \in Nat /\ Cardinality(ToCheck') \in Nat
    BY <2>2, FS_CardinalityType DEF LInv
  <2> QED
    BY <1>1, <2>2, <2>3, ToGoFinite, ToInsertFinite DEF Left
<1>4. CASE mpc' # "check" \/ mpc = "check"
  <2>1. UNCHANGED <<wpc, todo>> /\ (mpc \in {"insert", "maps"} <=> mpc' \in {"insert", "maps"})
    BY <1>4 DEF MainStep, MainSetDone, MainMaps, MainGetDone, MainSum, local
  <2>2. ToGo' = ToGo /\ ToInsert' = ToInsert /\ ToCheck' = ToCheck
    BY <1>2, <2>1 DEF ToGo, ToInsert, ToCheck, ToVerify
  <2>3. LInv' /\ Cardinality(ToCheck) \in Nat
    BY <2>2, FS_CardinalityType DEF LInv
  <2> QED
    BY <1>1, <2>2, <2>3, ToGoFinite, ToInsertFinite DEF Left
<1> QED
  BY <1>3, <1>4

LEMMA LeftType == ASSUME FInv, TInv, LInv PROVE Left \in Nat
BY ToGoFinite, ToInsertFinite, UnreadType, FS_CardinalityType DEF LInv, Left

LEMMA StepLess ==
    ASSUME FInv, FInv', TInv, TInv', LInv, Undisturbed, Undisturbed', Next
    PROVE  LInv' /\ Left' <= Left - 1
<1>1. ASSUME NEW w \in Worker, WorkerStep(w) \/ CallFails(w)
      PROVE  LInv' /\ Left' <= Left - 1
  <2>0. w[2] \in Round
    BY DEF Worker
  <2>1. ~CallFails(w)
    BY DEF CallFails, Undisturbed
  <2>2. WorkerStep(w)
    BY <1>1, <2>1
  <2> QED
    BY <2>0, <2>2, PoolStepsLess, ReportsLess, InsertLess, VerifyLess DEF WorkerStep
<1> QED
  BY <1>1, MainLess DEF Next, Work

LEMMA NoStepSame ==
    ASSUME LInv, UNCHANGED vars
    PROVE  LInv' /\ Left' = Left
BY DEF vars, main, local, reports, LInv, Left, ToGo, ToInsert, ToCheck, ToVerify, Unread

LEMMA LInit ==
    ASSUME Init
    PROVE  LInv /\ Left <= 36 * Rounds + 2 * (Rounds * Items)
<1>1. mpc = "insert" /\ Unread = 0
  BY DEF Init, Unread
<1>2. /\ IsFiniteSet(Round \X (1..Items)) /\ Cardinality(Round \X (1..Items)) = Rounds * Items
      /\ Rounds \in Nat /\ Rounds * Items \in Nat
  BY PoolAssumption, PairsCount, ReportedCounts, FS_CardinalityType DEF Rounds
<1>3. LInv /\ Cardinality(ToCheck) = Rounds * Items
  BY <1>1, <1>2 DEF LInv, ToCheck
<1>4. Cardinality(ToInsert) \in Nat /\ Cardinality(ToInsert) <= Rounds * Items
  <2>1. ToInsert \subseteq Round \X (1..Items)
    BY DEF ToInsert
  <2> QED
    BY <1>2, <2>1, Shrunk
<1>5. Cardinality(ToGo) \in Nat /\ Cardinality(ToGo) <= 36 * Rounds
  <2>1. Cardinality(Worker) = 2 * Rounds
    <3>1. "check" \notin {"insert"} /\ {"insert", "check"} = {"insert"} \cup {"check"}
      OBVIOUS
    <3>2. IsFiniteSet({"insert"}) /\ Cardinality({"insert"}) = 1
      BY FS_Singleton
    <3>3. /\ IsFiniteSet({"insert"} \cup {"check"})
          /\ Cardinality({"insert"} \cup {"check"}) = 2
      BY <3>1, <3>2, FS_AddElement
    <3> QED
      BY <3>1, <3>3, PoolAssumption, FS_Product DEF Worker, Rounds
  <2>2. IsFiniteSet(Worker \X (1..18)) /\ Cardinality(Worker \X (1..18)) = 2 * Rounds * 18
    BY <2>1, Finite, PairsCount
  <2>3. ToGo \subseteq Worker \X (1..18)
    BY DEF ToGo
  <2> QED
    BY <1>2, <2>2, <2>3, Shrunk
<1> HIDE DEF Left
<1> QED
  BY <1>1, <1>2, <1>3, <1>4, <1>5 DEF Left

----------------------------------------------------------------------------
(* There are finitely many steps *)

\* What always holds while nothing goes wrong.
KInv == Undisturbed /\ FInv /\ TInv /\ LInv

NothingWrong == Spec /\ []Undisturbed

LEMMA KInvariance == ASSUME Rounds > 0 PROVE NothingWrong => []KInv
<1>1. Init => TInv /\ LInv
  BY TInit, LInit
<1>2. FInv /\ FInv' /\ TInv /\ LInv /\ Undisturbed /\ Undisturbed' /\ [Next]_vars => TInv' /\ LInv'
  BY TStep, StepLess, NoStepSame
<1> QED
  BY <1>1, <1>2, DataInvariance, PTL DEF Spec, NothingWrong, KInv

KeepsOn == NothingWrong /\ []<><<Next>>_vars

AtMost(n)      == Left <= n
Lessens(n, m)  == KeepsOn => (AtMost(n) ~> AtMost(m))
AllLessen(d)   == \A n \in Int : Lessens(n, n - d)

LEMMA StepLessens == ASSUME Rounds > 0 PROVE AllLessen(1)
<1> SUFFICES ASSUME NEW n \in Int PROVE Lessens(n, n - 1)
  BY DEF AllLessen
<1>a. KInv => Left \in Nat
  BY LeftType DEF KInv
<1>b. KInv' => (Left \in Nat)'
  BY <1>a, PTL
<1>1. KInv /\ KInv' /\ AtMost(n) /\ Next => AtMost(n - 1)'
  BY <1>a, <1>b, StepLess DEF KInv, AtMost
<1>2. KInv /\ AtMost(n) /\ UNCHANGED vars => AtMost(n)'
  BY NoStepSame DEF KInv, AtMost
<1> QED
  BY <1>1, <1>2, KInvariance, PTL DEF Lessens, KeepsOn, NothingWrong, Spec

LEMMA Twofold == ASSUME NEW d \in Int, AllLessen(d) PROVE AllLessen(2 * d)
<1> SUFFICES ASSUME NEW n \in Int PROVE Lessens(n, n - 2 * d)
  BY DEF AllLessen
<1> DEFINE k == n - d
<1>1. k \in Int /\ k - d = n - 2 * d
  OBVIOUS
<1>2. Lessens(n, k) /\ Lessens(k, n - 2 * d)
  BY <1>1 DEF AllLessen
<1> HIDE DEF k
<1> QED
  BY <1>2, PTL DEF Lessens

LEMMA Sixteenfold == ASSUME NEW d \in Int, AllLessen(d) PROVE AllLessen(16 * d)
<1>1. AllLessen(2 * d)
  BY Twofold
<1>2. AllLessen(4 * d)
  BY <1>1, Twofold, 2 * d \in Int, 2 * (2 * d) = 4 * d
<1>3. AllLessen(8 * d)
  BY <1>2, Twofold, 4 * d \in Int, 2 * (4 * d) = 8 * d
<1> QED
  BY <1>3, Twofold, 8 * d \in Int, 2 * (8 * d) = 16 * d

LEMMA Manyfold == ASSUME NEW d \in Int, AllLessen(d) PROVE AllLessen(65536 * d)
<1>1. AllLessen(16 * d)
  BY Sixteenfold
<1>2. AllLessen(256 * d)
  BY <1>1, Sixteenfold, 16 * d \in Int, 16 * (16 * d) = 256 * d
<1>3. AllLessen(4096 * d)
  BY SMT, <1>2, Sixteenfold, 256 * d \in Int, 16 * (256 * d) = 4096 * d
<1> QED
  BY SMT, <1>3, Sixteenfold, 4096 * d \in Int, 16 * (4096 * d) = 65536 * d

\* The numbers main counts with, rounds and rounds times items, are ints.
MaxInt == 2147483648 * 4294967296 - 1

CountsFit == Rounds \in 1..MaxInt /\ Rounds * Items <= MaxInt

LEMMA FinitelyManySteps == ASSUME CountsFit PROVE NothingWrong => ~[]<><<Next>>_vars
<1> DEFINE a == 65536 * 1
           b == 65536 * a
           c == 65536 * b
           d == 65536 * c
           e == 65536 * d
<1>0. Rounds > 0 /\ Rounds <= MaxInt /\ Rounds * Items <= MaxInt /\ Rounds \in Nat
      /\ Rounds * Items \in Nat
  BY PoolAssumption, ReportedCounts DEF CountsFit
<1>1. a \in Int /\ b \in Int /\ c \in Int /\ d \in Int /\ e \in Int
  OBVIOUS
<1>2. 38 * MaxInt < e
  BY SMT DEF MaxInt
<1> HIDE DEF b, c, d, e
<1>3. AllLessen(a)
  BY <1>0, StepLessens, Manyfold
<1> HIDE DEF a
<1>4. AllLessen(b)
  BY <1>1, <1>3, Manyfold DEF b
<1>5. AllLessen(c)
  BY <1>1, <1>4, Manyfold DEF c
<1>6. AllLessen(d)
  BY <1>1, <1>5, Manyfold DEF d
<1>7. AllLessen(e)
  BY <1>1, <1>6, Manyfold DEF e
<1>8. e - 1 \in Int /\ (e - 1) - e = 0 - 1
  BY <1>1
<1>9. Lessens(e - 1, 0 - 1)
  BY <1>7, <1>8 DEF AllLessen
<1>10. Init /\ KInv => AtMost(e - 1)
  <2>1. MaxInt \in Int
    BY DEF MaxInt
  <2> QED
    BY <1>0, <1>1, <1>2, <2>1, LInit, LeftType DEF KInv, AtMost
<1>11. KInv => ~AtMost(0 - 1)
  BY LeftType DEF KInv, AtMost
<1> QED
  BY <1>0, <1>9, <1>10, <1>11, KInvariance, PTL DEF Lessens, KeepsOn, NothingWrong, Spec

----------------------------------------------------------------------------
\* As ENABLED is beyond the prover, its part is a hypothesis: where main or a
\* goroutine can go on, the action that is fair is enabled.
SomebodyCan == MainCan \/ \E w \in Worker : WorkerCan(w)

PoolEnabled == SomebodyCan => ENABLED <<Work>>_vars

\* The test ends, for any rounds, any random strings and any Parallel but 0.
THEOREM TestsEnd ==
    ASSUME CountsFit, Parallel > 0
    PROVE  Spec /\ []PoolEnabled => TestEnds
<1>0. Rounds > 0
  BY DEF CountsFit, MaxInt
<1>1. KInv /\ ~(mpc = "wait") => SomebodyCan
  BY NobodyStuck DEF KInv, SomebodyCan
<1>2. KInv /\ ~(mpc = "wait") /\ PoolEnabled => ENABLED <<Work>>_vars
  BY <1>1 DEF PoolEnabled
<1>3. <<Work>>_vars => <<Next>>_vars
  BY DEF Next
<1>4. NothingWrong => []KInv /\ ~[]<><<Next>>_vars
  BY <1>0, KInvariance, FinitelyManySteps, PTL
<1> QED
  BY <1>2, <1>3, <1>4, PTL DEF Spec, NothingWrong, TestEnds, Undisturbed
=============================================================================

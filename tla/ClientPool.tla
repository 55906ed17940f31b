---------------------------- MODULE ClientPool ----------------------------
(***************************************************************************)
(* The test client (src/client/main.go) and the connections it takes from  *)
(* the client library (NewCli, CliConnect, expandSlice in                  *)
(* src/client/clilib/client.go).  One goroutine per round inserts, and     *)
(* when all have reported another one per round reads back and compares.   *)
(* parChan limits how many of them work at a time, cliChan keeps the open  *)
(* connections of those that do not, the other channels report to main.    *)
(*                                                                         *)
(* A call on a connection is one step on the server's map (ClientSession   *)
(* looks inside); the order of the lookups of a round is free.             *)
(***************************************************************************)
EXTENDS Integers, Sequences, FiniteSets

CONSTANTS Round,             \* the rounds
          Items,             \* insertions per round
          Parallel,          \* capacity of parChan and cliChan
          RandKey, RandVal   \* what DevUrandomString may return

ASSUME PoolAssumption == /\ IsFiniteSet(Round)
                         /\ Items \in Nat /\ Parallel \in Nat

Rounds == Cardinality(Round)
Worker == {"insert", "check"} \X Round

VARIABLES
    randomize, daemon,                       \* the flags -random and -daemon
    kv,                                      \* the server's map
    faulty,                                  \* a dial or a call has failed
    mpc, setdone, getdone, checked, maps,    \* main
    wpc, conn, testmap, set, todo,           \* the goroutines
    parChan, cliChan,                        \* shared by the goroutines
    SetDoneChan, GetDoneChan, RetIntChan, MapRetChan,
    mux, id, slots, Clients                  \* CliHandler

flags   == <<randomize, daemon>>
main    == <<mpc, setdone, getdone, checked, maps>>
local   == <<conn, testmap, set, todo>>
pool    == <<parChan, cliChan>>
reports == <<SetDoneChan, GetDoneChan, RetIntChan, MapRetChan>>
handler == <<mux, id, slots, Clients>>
vars    == <<flags, kv, faulty, main, wpc, local, pool, reports, handler>>

Nil    == 0
NoMap  == <<>>
NoConn == 0

Ended == mpc \in {"fatal", "panic"}

\* parChan holds the tokens of those that put them there.
Init == /\ randomize \in BOOLEAN /\ daemon \in BOOLEAN
        /\ kv = NoMap /\ faulty = FALSE
        /\ mpc = "insert" /\ setdone = 0 /\ getdone = 0 /\ checked = 0
        /\ maps = 0
        /\ wpc = [w \in Worker |-> IF w[1] = "insert" THEN "start" ELSE "none"]
        /\ conn = [w \in Worker |-> NoConn]
        /\ testmap = [r \in Round |-> NoMap] /\ set = [r \in Round |-> 0]
        /\ todo = [r \in Round |-> {}]
        /\ parChan = {} /\ cliChan = <<>>
        /\ SetDoneChan = 0 /\ GetDoneChan = 0 /\ RetIntChan = <<>>
        /\ MapRetChan = 0
        /\ mux = <<>> /\ id = 0 /\ slots = 1
        /\ Clients = [i \in 0..1 |-> Nil]

Goto(w, from, to) == wpc[w] = from /\ wpc' = [wpc EXCEPT ![w] = to]

----------------------------------------------------------------------------
(* A goroutine gets a connection *)

\* parChan <- struct{}{}
Acquire(w) == /\ Goto(w, "start", "select")
              /\ Cardinality(parChan) < Parallel
              /\ parChan' = parChan \cup {w}
              /\ UNCHANGED <<flags, kv, faulty, main, local, cliChan,
                             reports, handler>>

\* Mutant: the connection is used while it stays in cliChan.
TakeOpenPeek(w) ==
    /\ Goto(w, "select", "work") /\ cliChan # <<>>
    /\ conn' = [conn EXCEPT ![w] = Head(cliChan)]
    /\ UNCHANGED <<flags, kv, faulty, main, testmap, set, todo, pool,
                   reports, handler>>

\* case netCli = <-cliChan
TakeOpen(w) ==
    /\ Goto(w, "select", "work") /\ cliChan # <<>>
    /\ conn' = [conn EXCEPT ![w] = Head(cliChan)]
    /\ cliChan' = Tail(cliChan)
    /\ UNCHANGED <<flags, kv, faulty, main, testmap, set, todo, parChan,
                   reports, handler>>

\* default: NewCli.
NoneOpen(w) == /\ Goto(w, "select", "dial") /\ cliChan = <<>>
               /\ UNCHANGED <<flags, kv, faulty, main, local, pool,
                              reports, handler>>

\* NewCli holds cliH.mux while it dials and waits for the banner.
LockHandler(w) == /\ Goto(w, "dial", "dialing") /\ mux = <<>>
                  /\ mux' = w
                  /\ UNCHANGED <<flags, kv, faulty, main, local, pool,
                                 reports, id, slots, Clients>>

\* expandSlice, n being the new cliH.id.
NewSlots(n) == IF slots > n THEN slots ELSE 2 * slots

expandSlice(n) == IF NewSlots(n) = slots THEN Clients
                  ELSE [i \in 0..NewSlots(n) - 1 |->
                           IF i \in DOMAIN Clients THEN Clients[i] ELSE Nil]

\* CliConnect succeeded.
Connected(w) == /\ Goto(w, "dialing", "work")
                /\ ~daemon
                /\ id' = id + 1
                /\ slots' = NewSlots(id')
                /\ Clients' = [expandSlice(id') EXCEPT ![id'] = id']
                /\ mux' = <<>>
                /\ conn' = [conn EXCEPT ![w] = id']
                /\ UNCHANGED <<flags, kv, faulty, main, testmap, set, todo,
                               pool, reports>>

\* In daemon mode CliConnect returns nil, nil, and NewCli dereferences it.
ConnectedDaemon(w) == /\ wpc[w] = "dialing" /\ daemon
                      /\ mpc' = "panic"
                      /\ UNCHANGED <<flags, kv, faulty, setdone, getdone,
                                     checked, maps, wpc, local, pool, reports,
                                     handler>>

\* The goroutine returns: it keeps its token and reports nothing.
DialFails(w) == /\ Goto(w, "dialing", "failed")
                /\ faulty' = TRUE /\ mux' = <<>>
                /\ UNCHANGED <<flags, kv, main, local, pool, reports, id,
                               slots, Clients>>

GetConn(w) == Acquire(w) \/ TakeOpen(w) \/ NoneOpen(w) \/ LockHandler(w)
                  \/ Connected(w) \/ ConnectedDaemon(w) \/ DialFails(w)

----------------------------------------------------------------------------
(* It works *)

\* The upcounting keys and values of round r; startint is a copy.
Numbered(r) == {<<<<r, i>>, <<r, i>>>> : i \in 1..Items}

\* What the check of round r expects.
Wanted(r) == IF randomize THEN {<<k, testmap[r][k]>> : k \in DOMAIN testmap[r]}
             ELSE Numbered(r)

With(f, k, v) == [x \in DOMAIN f \cup {k} |-> IF x = k THEN v ELSE f[x]]

Insert(r) ==
    /\ wpc[<<"insert", r>>] = "work" /\ set[r] < Items
    /\ \/ /\ randomize
          /\ \E k \in RandKey, v \in RandVal :
                /\ kv' = With(kv, k, v)
                /\ testmap' = [testmap EXCEPT ![r] = With(@, k, v)]
       \/ /\ ~randomize
          /\ kv' = With(kv, <<r, set[r] + 1>>, <<r, set[r] + 1>>)
          /\ UNCHANGED testmap
    /\ set' = [set EXCEPT ![r] = @ + 1]
    /\ UNCHANGED <<flags, faulty, main, wpc, conn, todo, pool, reports,
                   handler>>

Fatalf == mpc' = "fatal" /\ UNCHANGED <<setdone, getdone, checked, maps>>

\* Get and compare: a mismatch ends the process.
Verify(r) ==
    /\ wpc[<<"check", r>>] = "work"
    /\ \E p \in todo[r] :
          IF p[1] \in DOMAIN kv /\ kv[p[1]] = p[2]
          THEN todo' = [todo EXCEPT ![r] = @ \ {p}] /\ UNCHANGED main
          ELSE Fatalf /\ UNCHANGED todo
    /\ UNCHANGED <<flags, kv, faulty, wpc, conn, testmap, set, pool,
                   reports, handler>>

Finished(w) == IF w[1] = "insert" THEN set[w[2]] = Items ELSE todo[w[2]] = {}

\* A call returns an error: Fatalf.
CallFails(w) == /\ wpc[w] = "work" /\ ~Finished(w)
                /\ Fatalf /\ faulty' = TRUE
                /\ UNCHANGED <<flags, kv, wpc, local, pool, reports,
                               handler>>

----------------------------------------------------------------------------
(* It gives the connection back and reports *)

\* Mutant: parChan is released first.
GiveBackLockFirst(w) ==
    /\ Goto(w, "work", "report") /\ Finished(w)
    /\ parChan' = parChan \ {w}
    /\ UNCHANGED <<flags, kv, faulty, main, local, cliChan, reports,
                   handler>>

\* cliChan <- netCli
GiveBack(w) == /\ Goto(w, "work", "report") /\ Finished(w)
               /\ Len(cliChan) < Parallel
               /\ cliChan' = Append(cliChan, conn[w])
               /\ conn' = [conn EXCEPT ![w] = NoConn]
               /\ UNCHANGED <<flags, kv, faulty, main, testmap, set, todo,
                              parChan, reports, handler>>

\* The order of the two reports of a goroutine.
First(w)  == wpc[w] = "report"  /\ wpc' = [wpc EXCEPT ![w] = "second"]
Second(w) == wpc[w] = "second"  /\ wpc' = [wpc EXCEPT ![w] = "release"]
Only(w)   == wpc[w] = "report"  /\ wpc' = [wpc EXCEPT ![w] = "release"]

unreported == <<flags, kv, faulty, main, local, pool, handler>>

SendMap(r) == /\ First(<<"insert", r>>) /\ randomize
              /\ MapRetChan < Rounds
              /\ MapRetChan' = MapRetChan + 1
              /\ UNCHANGED <<unreported, SetDoneChan, GetDoneChan, RetIntChan>>

SendSetDone(r) == /\ IF randomize THEN Second(<<"insert", r>>)
                                  ELSE Only(<<"insert", r>>)
                  /\ SetDoneChan < Rounds
                  /\ SetDoneChan' = SetDoneChan + 1
                  /\ UNCHANGED <<unreported, GetDoneChan, RetIntChan, MapRetChan>>

SendGetDone(r) == /\ IF randomize THEN Second(<<"check", r>>)
                                  ELSE First(<<"check", r>>)
                  /\ GetDoneChan < Rounds
                  /\ GetDoneChan' = GetDoneChan + 1
                  /\ UNCHANGED <<unreported, SetDoneChan, RetIntChan, MapRetChan>>

SendInt(r) == /\ IF randomize THEN First(<<"check", r>>)
                              ELSE Second(<<"check", r>>)
              /\ Len(RetIntChan) < Rounds
              /\ RetIntChan' = Append(RetIntChan, Cardinality(Wanted(r)))
              /\ UNCHANGED <<unreported, SetDoneChan, GetDoneChan, MapRetChan>>

\* Mutant: the lock is not returned.
ReleaseForgotten(w) == /\ Goto(w, "release", "end")
                       /\ UNCHANGED <<flags, kv, faulty, main, local, pool,
                                      reports, handler>>

\* <-parChan
Release(w) == /\ Goto(w, "release", "end")
              /\ parChan' = parChan \ {w}
              /\ UNCHANGED <<flags, kv, faulty, main, local, cliChan,
                             reports, handler>>

WorkerStep(w) == \/ GetConn(w) \/ GiveBack(w) \/ Release(w)
                 \/ w[1] = "insert" /\ (Insert(w[2]) \/ SendMap(w[2])
                                            \/ SendSetDone(w[2]))
                 \/ w[1] = "check" /\ (Verify(w[2]) \/ SendInt(w[2])
                                            \/ SendGetDone(w[2]))

----------------------------------------------------------------------------
(* main *)

StartChecks == /\ wpc' = [w \in Worker |-> IF w[1] = "check" THEN "start"
                                           ELSE wpc[w]]
               /\ todo' = [r \in Round |-> Wanted(r)]

\* Mutant: the checks start while one round still inserts.
MainSetDoneEarly ==
    /\ mpc = "insert" /\ SetDoneChan > 0
    /\ SetDoneChan' = SetDoneChan - 1
    /\ setdone' = setdone + 1
    /\ IF setdone' < Rounds - 1 THEN UNCHANGED <<mpc, wpc, todo>>
       ELSE mpc' = "check" /\ StartChecks
    /\ UNCHANGED <<flags, kv, faulty, getdone, checked, maps, conn,
                   testmap, set, pool, GetDoneChan, RetIntChan, MapRetChan,
                   handler>>

MainSetDone ==
    /\ mpc = "insert" /\ SetDoneChan > 0
    /\ SetDoneChan' = SetDoneChan - 1
    /\ setdone' = setdone + 1
    /\ \/ setdone' < Rounds /\ UNCHANGED <<mpc, wpc, todo>>
       \/ setdone' = Rounds /\ randomize /\ mpc' = "maps"
              /\ UNCHANGED <<wpc, todo>>
       \/ setdone' = Rounds /\ ~randomize /\ mpc' = "check" /\ StartChecks
    /\ UNCHANGED <<flags, kv, faulty, getdone, checked, maps, conn,
                   testmap, set, pool, GetDoneChan, RetIntChan, MapRetChan,
                   handler>>

MainMaps ==
    /\ mpc = "maps" /\ MapRetChan > 0
    /\ MapRetChan' = MapRetChan - 1
    /\ maps' = maps + 1
    /\ \/ maps' < Rounds /\ UNCHANGED <<mpc, wpc, todo>>
       \/ maps' = Rounds /\ mpc' = "check" /\ StartChecks
    /\ UNCHANGED <<flags, kv, faulty, setdone, getdone, checked, conn,
                   testmap, set, pool, SetDoneChan, GetDoneChan, RetIntChan,
                   handler>>

MainGetDone ==
    /\ mpc = "check" /\ GetDoneChan > 0
    /\ GetDoneChan' = GetDoneChan - 1
    /\ getdone' = getdone + 1
    /\ mpc' = IF getdone' = Rounds THEN "sum" ELSE mpc
    /\ UNCHANGED <<flags, kv, faulty, setdone, checked, maps, wpc, local,
                   pool, SetDoneChan, RetIntChan, MapRetChan, handler>>

\* Only the expected sum ends the loop; then main waits for ever.
MainSum ==
    /\ mpc = "sum" /\ RetIntChan # <<>>
    /\ RetIntChan' = Tail(RetIntChan)
    /\ checked' = checked + Head(RetIntChan)
    /\ mpc' = IF checked' = Items * Rounds THEN "wait" ELSE mpc
    /\ UNCHANGED <<flags, kv, faulty, setdone, getdone, maps, wpc, local,
                   pool, SetDoneChan, GetDoneChan, MapRetChan, handler>>

MainStep == MainSetDone \/ MainMaps \/ MainGetDone \/ MainSum

Work == ~Ended /\ (MainStep \/ \E w \in Worker : WorkerStep(w))

Next == Work \/ (~Ended /\ \E w \in Worker : CallFails(w))

\* As long as main or a goroutine can go on, one does; whichever it is, there is
\* less left to do.  A dial ends, in one way or the other.
Spec == Init /\ [][Next]_vars /\ WF_vars(Work)

----------------------------------------------------------------------------
(* Properties *)

Dialing == {w \in Worker : wpc[w] \in {"dial", "dialing"}}
Owners  == {w \in Worker : wpc[w] = "work"}

\* There are never more connections than Parallel, counting those being
\* dialled: returning one to cliChan (capacity Parallel) never blocks a
\* goroutine that still holds its parChan token.  It rests on the order of the
\* two returns at the end of a goroutine.
ConnsBounded == id + Cardinality(Dialing) <= Parallel

\* A connection is used by one goroutine at a time and is not offered in
\* cliChan meanwhile: SOCK_Set, SOCK_Get and SOCK_Del take no lock of their own.
OneOwner ==
    /\ \A v, w \in Owners : conn[v] = conn[w] => v = w
    /\ \A w \in Owners, i \in 1..Len(cliChan) : cliChan[i] # conn[w]
    /\ \A i, j \in 1..Len(cliChan) : cliChan[i] = cliChan[j] => i = j

\* "we count ids from 1! beware of the off-by-one error": the slice has a place
\* for every id and expanding loses none of the connections in it.
SliceHoldsConns == \A i \in 1..id : i \in DOMAIN Clients /\ Clients[i] = i

\* Connections are counted, bounded and kept.
ConnsTracked == ConnsBounded /\ SliceHoldsConns

\* Two rounds inserted the same key.
Collision == \E r, s \in Round : r # s /\ DOMAIN testmap[r] \cap DOMAIN testmap[s] # {}

\* The comparison fails only if a call failed or two rounds drew the same key:
\* every insertion happened before the first comparison.
FatalMeansCollision == mpc = "fatal" => faulty \/ Collision

\* Every key was drawn once.
AllDistinct == /\ ~Collision
               /\ randomize => \A r \in Round : Cardinality(DOMAIN testmap[r]) = set[r]

\* The test ends, every report counted, if no dial or call fails and no random
\* key is drawn twice (one drawn twice leaves main waiting for the exact sum),
\* and without -daemon, with which the first connection ends the process.
TestEnds == [](~faulty /\ ~daemon /\ AllDistinct) => <>(mpc = "wait")
=============================================================================

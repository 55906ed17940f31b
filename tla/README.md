# noDare-DB in TLA+

A verification development for the in-memory key-value server of this
repository and its clients: TLA+ modules of their parts, TLC configurations that
check them on small instances, and TLAPS proofs of what matters most for every
instance.

    tlc -config MCSubDick.cfg MCSubDick.tla
    tlapm SubDickProofs.tla

`PROJECT.json` maps each definition to the lines it models, and lists the runs,
the hazards they are aimed at, the theorems, and for each property a mutant:
operators marked *Mutant* in the modules are plausible mistakes in the definition
that follows. Exchanging the two must break the property; no specification uses
them.

## The system

| part | source | state | operations |
|---|---|---|---|
| sub-dictionary | `database/dick.go`, `dickTable.go`, `DickEntry.go` | two hash tables, `rehashidx` | `get`, `add`, `del`, `expand`, `rehash` |
| database | `database/operations.go`, `db.go` | `SubDICKs`, one `submux` each | `Get`, `Set`, `Del` |
| key hashing | `pcas_hash/hasher.go`, `hash.go` | a pool of hashers with a 4-byte buffer | `String`, `Write`, `Hash` |
| socket session | `server/socket.go` (`handleSocketConn`) | `mode`, `state`, `key`, `keys`, `vals` | one line at a time: commands, keys, values, delimiters |
| HTTP handlers | `server/ndb-server.go` | the request | `/get/{key}`, `/set`, `/del/{key}` |
| accept loops | `server/socket.go` | `sock.id`, the access control list | accept, check, count, start a session |
| profiling | `server/socket.go` | `CPUfile`, two mutexes | the commands `1` and `2` of the unix socket |
| start and shutdown | `main.go`, `server/factory.go`, `server/web-server.go`, `server/socket.go` | `stop_chan`, copies of `wg`, listeners, the socket's file | boot, signal, stop |
| configuration, logger | `server/configuration.go`, `logger/logger.go` | settings, level, log file | flag, environment, file, default |
| client library | `client/clilib/client.go` | one connection per client, slots | `SOCK_*`, `HTTP_*`, `NewCli`, `Escape` |
| test client | `client/main.go` | a pool of connections, channels | insert, read back, compare |

A key belongs to the sub-dictionary `pcas.String(key) % SubCount`. Every
session and every HTTP request is a goroutine that calls `Get`, `Set` and `Del`;
each call holds the `submux` of its sub-dictionary from start to return, and
nothing is held between two calls. Sessions talk to clients in lines without
names or deadlines, and a batch of a session (the keys up to an ETB line) is one
database call and one reply after the other, with other callers in between. A
peer that does not read blocks its session in a write, for ever if it stays.
Values are `interface{}`: a socket stores strings, HTTP whatever JSON holds.
`main` sends one token through `stop_chan`; who takes it stops and puts it back
for the next.

### What is hard here, and what makes each part correct

* **Sub-dictionary.** A table that is full is replaced by one twice as large, and
  its entries move a bucket at a time inside later `add` and `del` calls, by
  relinking them in place. For most of its life the store is in two tables. It is
  correct when it behaves as one map through all of that; when no index leaves a
  table (Go would end the process); and when a rehash ends before the table being
  filled is full.
* **Database.** `Set` looks a key up and then acts on what it saw. Correct: the
  calls are linearizable and all return, and a key has the same hash whatever
  the pooled hasher did before.
* **Session.** Four variables must agree in whatever order commands, refusals,
  lost connections and failed writes come. Correct: no nil map or missing value
  is dereferenced, the state matches what was collected, every ETB is answered.
* **Socket client and session.** Nothing but the order says which reply answers
  which request. Correct: they stay in step, a call does to the database what it
  says, and returns.
* **HTTP.** A `/set` of several pairs is not atomic, a request may outlive
  the call it was made for, and the library escapes neither keys nor values.
  Correct: an answer, and what the library makes of it, is true at some moment of
  the call, of what the server was asked.
* **Pool of the test client.** Two channels of one capacity and a lock must keep
  connections bounded and owned. Correct: also that the test ends, and fails only
  for a reason.
* **Accept loops, profiles.** Counters, lists and the profiler are shared by
  goroutines that read after an unlock, or write to a peer with a lock held.
* **Start and shutdown.** Two waiters share one token and a channel of capacity
  one; the `WaitGroup` is passed by value. Correct: the token is conserved, the
  process ends on a signal, those that wait for the token stop first (they do
  not). A start may be killed while it writes its configuration, or leave a part
  of it that parses.

## Modules

| module | models | against the code |
|---|---|---|
| `KVStore` | what the database promises | one map; `Get`, `Set`, `Del` are one step each |
| `DickOps` | the functions of `dick.go` | operators from a sub-dictionary to the next; `main` and `rehashing` are `hashTables[0]` and `[1]`; a chain is the set of its entries |
| `SubDick` | one sub-dictionary | one action per operation: `submux` is held throughout |
| `ChainDick` | the same, with its linked chains | a bucket is a pointer into a heap; one action per entry moved, per search and per unlinking; implements `SubDick` |
| `NextPower` | `nextPower` | the subtraction, the shifts and the addition; a word is the set of its bits, a shift and `\|` are what they do to that set; `DickOps` sizes its tables with it |
| `KVService` | what concurrent callers are promised | calls that take effect once between invocation and return |
| `XDick` | `XDICK` with goroutines | the calls split at `Lock`, the lookup of `Set`, its effect and `Unlock` |
| `PcasHash` | `String` with a hasher from the pool | byte by byte; `Combine` is uninterpreted, so words stand for hash values |
| `Routing` | the hash as `XDick` uses it | puts the two together: a call finds its sub-dictionary with whatever hasher the pool gives it |
| `SocketSession` | `handleSocketConn` | one action per kind of line, one per database call and reply of a batch, which may block |
| `ClientSession` | `SOCK_Set`, `SOCK_Get`, `SOCK_Del` and a session | the session of `SocketSession`, with two queues of lines between it and the client, and a connection that may break |
| `LineEscape` | `Escape`, `UnEscape` | on sequences of characters |
| `HttpHandlers` | the three handlers | one action per database call and answer |
| `HttpClient` | `HTTP_Get`, `HTTP_Set`, `HTTP_Del` and the handlers | `FromUrl` and `FromBody` are what the server makes of a URL and a body; what a call makes of the answer; a broken connection leaves its request to the server |
| `ClientPool` | the test client, `NewCli`, `CliConnect`, `expandSlice` | one action per channel operation, lock and call of each goroutine |
| `AcceptLoops` | the loops of `SOCKET.Start` | one action per `Accept`, check, count and session start |
| `Profiles` | the commands `1` and `2` | one action per lock, toggle, reply and unlock |
| `ServerConfig` | starts of the server | one action per step of `main`, `NewViperConf`, `initDB`; a kill between any two |
| `Lifecycle` | boot, stop, crash, restart | one action per blocking step of each goroutine |
| `DickOpsProofs`, `SubDickProofs`, `ChainDickProofs`, `XDickProofs` | theorems and lemmas about the store | |
| `SessionProofs` | about `SocketSession`, `ClientSession`, `LineEscape` | |
| `HttpProofs` | about `HttpHandlers`, `HttpClient` | |
| `ServerProofs` | about `AcceptLoops`, `Profiles`, `Lifecycle`, `ServerConfig` | |
| `ClientPoolProofs` | about `ClientPool` | |
| `MC...` | instances for TLC | |

How they stand on each other:

    ChainDick  --implements-->  SubDick  --implements-->  KVStore
    XDick (DickOps under submux)         --implements-->  KVService
    ClientSession = SocketSession + client + lines on their way
    HttpClient    = HttpHandlers  + clients + broken connections

`SocketSession` and `HttpHandlers` rest on the two refinements: they take a
database call as one step on one map and let others act between any two of them.
`ClientPool` takes a whole call on a connection as one step, as `ClientSession`
justifies for the keys and values the test client uses.

Abstractions. The hash of a key is any function (`Hashers`, `HashOf`, `Route`),
so all of `HASHER`'s values and salts are covered; sizes do not overflow: int64
holds every power of two to 2^62 (`WordAssumption`), and no store holds the 2^61
entries that would ask for a larger table (`SizesAssumption`).
A key, a line or a value is an opaque member of a small set, except in
`PcasHash` and `LineEscape`, whose data is their subject. In `ClientSession`,
`Lines` says how many lines a text is on the wire; in `HttpClient`, `FromUrl` and
`FromBody` say what an unescaped text comes to, any functions in the proofs. In
`ServerConfig` one number, one level, one file name, one password and one timeout
stand for the settings of their kind, and the environment gives the first three,
the others being read by nothing here or decided by the same rule; a variable may
be unset, or set to nothing, which is not the same. Log output and statistics are
left out.

## Runs

| run | instance | distinct states |
|---|---|---|
| `subdick` | 5 keys, 2 values (one `nil`), hashes spread, colliding and splitting, tables 2 -> 4 -> 8 | 29,204 |
| `chains` | 3 keys, 2 values, one heap cell each, tables 1 -> 2 -> 4 | 97,988 |
| `xdick` | 2 goroutines, 4 keys, 1 value, 2 sub-dictionaries, one of them rehashing | 61,127 |
| `session` | 1 key that is text, 1 that is the ETB line, 2 strings, 1 number, batches of 2 keys | 558,208 |
| `client` | keys and values that are ordinary, empty or the ETB line; others store a string or a number and delete; connections break | 173,544 |
| `http` | 2 requests, 1 library client and others, 2 keys, one of them with a `?`; URLs that are cut at it, decoded, routed nowhere or no URL; bodies with a number, `null`, nothing, an escape, a pair too many, or broken | 897,042 |
| `pool` | 3 rounds of 1 insertion, 2 at a time; keys counted or random | 1,108,954 |
| `accept` | 3 loops, a listed and an unlisted address, 3 connections, any `Accept` fails | 483,146 |
| `profiles` | 2 sessions that toggle the CPU profile, 3 memory profiles | 11,520 |
| `config` | valid and invalid settings, 2 passwords, 2 log files of which any may fail to open; variables unset, empty or set; a file cut anywhere | 241,194 |
| `lifecycle` | any number of processes in turn, 2 requests | 2,248 |
| `waiters` | as `lifecycle`; ends in a violation (below) | |

What they show:

* `subdick`: `TypeOK`, `HashTableOK` (entries where a search looks for them, one
  per key, exact counters, the cursor in range), `LoadFactor`; every adding or
  removing call advances a rehash (`RehashAdvances`) and it ends
  (`RehashEnds`); the sub-dictionary is a map (`ImplementsKVStore`).
* `chains`: relinking a bucket loses or shares no entry (`PointedToOnce`), the
  shifts give the least power of two (`LeastPowerThatHolds`), and the loops do
  what `SubDick` says of sets (`ImplementsSubDick`).
* `xdick`: what `Set` looked up is still so when it acts (`LookupStaysTrue`),
  calls return, and `Linearizable`; `SameKeySameHash`.
* `session`: `BatchAgrees`, `RepliesMatchKeys`, and `EtbAnswered`, which excepts
  a write whose peer neither reads nor goes.
* `client`: between calls nothing is under way (`RepliesInStep`), a call has the
  effects it asked for and no others (`EffectsOfCall`), a GET returns what its
  key had (`GetReturnsHeld`), a call returns (`CallReturns`), with an error when a
  number others stored has ended the server, and an escaped value comes back
  (`EscapeRoundTrip`).
* `http`: `GetAnswersSeen`, `SetTookEffect`, `DelTookEffect`, `RequestAnswered`,
  and for the library `HttpReturnHolds`: a call without an error did what the
  server makes of its text, which is what was meant if nothing in it needed
  escaping.
* `pool`: `ConnsTracked`, `OneOwner`, `FatalMeansCollision`, `TestEnds`.
* `accept`: `OnlyListedServed`; the ids of one loop grow (`LoopIdsGrow`), so at
  most three sessions share one.
* `profiles`: `ToggleAgrees`, `QueuedProfileRuns`, `CpuCommandEnds`.
* `config`: `SettingsInForce`, `CredentialsKept`.
* `lifecycle`: `OneToken`, `FileWhileServing`, `SignalEndsProcess`.

The bounds. Five keys with first tables of two buckets need two expansions, and
`EMPTY_VISITS = 2` lets a rehash step stop in the middle of empty buckets (10 in
the code), so every branch of `rehash`, `keyIndex` and `del` is taken, with an
unfinished rehash around it. `chains` has three keys in one bucket, the shortest
chain with an inner entry. In `xdick` one sub-dictionary has three keys in a
table of two buckets and `EMPTY_VISITS = 1`, so a rehash begun by one goroutine
is left unfinished for the other; its keys are spelt with 4, 6, 9 and 10 bytes,
on both sides of where the hasher's buffer fills. Batches of two keys are the
shortest in which a reply can be about the wrong key; a `SET` batch never gets a
second pair (see below). Two requests are enough to interleave, since a handler
holds no state but its own; with one client they are also a request that has
outlived its call and the next one. Three rounds over two places make a worker
wait for a place and take over a connection. Three connections let each loop
count between another's unlock and read. At each expansion `LeastPowerThatHolds`
asks `nextPower` for the size, for every power of two times it up to 2^28, which
is as far as TLC's integers allow, and for one more and one less; texts to be escaped have up to five of
the characters that matter.

Where bounds are guards: `MaxKeys` (length of a batch), `MaxRequests`,
`MaxConns`, `Items`, `MaxExponent`. `Request`, `Job` and `Ptr` bound by their
size.

Fairness.

* `XDick`: a goroutine that can run runs (weak fairness of its steps), and a
  `Lock` is not overtaken for ever, which is the starvation mode of `sync.Mutex`:
  strong fairness of `Lock`. `Profiles` the same for `sock.cpu` and `sock.mem`;
  nothing makes a stalled peer read, so `CpuCommandEnds` excepts it.
* `SocketSession`: the goroutine goes on with a batch (weak fairness of
  `BatchStep`) while it does not wait for its peer. Nothing is assumed of the
  peer: no write has a deadline, any may block (`"blocked"`), and nothing makes a
  blocked one end (`WriteEnds` has no fairness). `ClientSession`: weak fairness of
  the client in a call and of the session. Its peer is the library, which reads
  the one reply it waits for, so that no write of the session blocks for long.
  Neither has to begin anything, connections need not break, and a server that
  panicked is not dialled again.
* `HttpHandlers`, `HttpClient`, `Lifecycle`: goroutines run; clients need not
  read, requests not be finished, nor signals come.
* `ClientPool`: as long as `main` or a goroutine can go on, one of them does (weak
  fairness of `Work`, all of them together): nothing is said of who. `TestEnds`
  holds when no dial or call ever fails, no random key repeats, and without
  `-daemon`.
* `SubDick` has none: `RehashEnds` assumes in its own statement that entries keep
  being added. `ChainDick`, `AcceptLoops` and `ServerConfig` have none either.

`CHECK_DEADLOCK FALSE` appears where the process ends (a panic, `Fatalf`), where
the bound on connections stops the loops, and where `main` of the test client
waits for ever after its test.

### Where the code differs from what it says

`waiters` ends in a violation of `WaitersStopped`: main waits on its own copy of
the `WaitGroup` and returns before those it told to stop ("force waiters to
stop", `main.go:72`) have stopped. A unix socket's file may stay, and then the
next start fails. Passing `wg` by pointer alone would not do: no one closes the
TCP listener, and main would wait for ever (mutant `ExitAfterAll`).

The models do what the code does in these places too, where its words say
otherwise. No property states the words; those that hold are stated around them.
(Paths are below `src/`.)

| where | the code | the words |
|---|---|---|
| `database/operations.go:46` | `Set` overwrites an existing key | `:39` promises an error |
| `database/dick.go:448` | `nextPower(n)` is n for a power of two | `:440` "greater than the given size" |
| `pcas_hash/hasher.go:46` | `Write` drops every fifth byte | `:44` hashes all; costs spreading, no correctness |
| `server/socket.go:403` | BEL leaves `modeSET` at 2: a batch of two pairs is refused | `:327` flips to 0 |
| `server/socket.go:536` | the ETB of a DEL keeps mode and keys: the next command is refused, a second ETB deletes again | `:484` leaves the mode |
| `server/socket.go:510` | DEL answers NUL when it deleted and ACK when it did not | `client/clilib/client.go:367` |
| `server/socket.go:449` | a GET of several keys names no key it did not find | `client/clilib/client.go:331` expects the name |
| `server/socket.go:460` | a socket GET of a value that HTTP stored as a number ends the process | `:586` |
| `server/socket.go:460`, `client/clilib/client.go:278` | values are neither escaped nor unescaped: one with a line break is two lines | `server/socket.go:265` |
| `server/socket.go:147` | a failed `Accept` of TCP or TLS asks a nil connection for its address | `:153` handles the error |
| `client/clilib/client.go:337` | `SOCK_Get` says found after a NUL for its one key | `:330` |
| `client/clilib/client.go:513` | `Escape` leaves a backslash: `\n` in a text comes back as a line break | `:497` |
| `client/clilib/client.go:214` | with `-daemon`, `NewCli` returns neither client nor error, and the first user ends the process | `client/main.go:40` |
| `client/clilib/client.go:394`, `:442` | keys go unescaped into the URL: `?` and `#` cut them, `%xx` is decoded, a slash leads elsewhere, and the call returns no error | `README.md:122` |
| `client/clilib/client.go:421` | key and value go unescaped into JSON: backslashes are decoded, a quote may add pairs | `README.md:132` |
| `client/clilib/client.go:406` | `HTTP_Get` takes the page of a 404 for a value | `README.md:122` |
| `client/clilib/client.go:421` | `HTTP_Set` ignores a 406 | `README.md:132` |
| `server/configuration.go:165` | a valid `sub_dicks` returns before the web server's timeouts are read: they stay 0 | `:33` |

What values of two lines cost: in `MCClientSession.cfg`, with `HttpVal = {"t;u"}`
`RepliesInStep` does not hold, and with `ClientVal = {"t;x"}` `EffectsOfCall`
does not. `EscapeRoundTrip` says for which texts escaping helps.

## Proofs

Assumptions on constants: `WordAssumption` (int64: `MaxExponent` is at most 62; the
first size is a power of two), `SizesAssumption` (finitely many keys, and no more
than half as many as the largest table has buckets), `HashersAssumption`,
`AbsentAssumption`, `ChainAssumption` (as many addresses as keys),
`XDickAssumption`, `SpellingAssumption` (keys are spelt in bytes),
`PcasAssumption`, `SessionAssumption`, `HandlersAssumption`, `ClientAssumption` (of
`ClientSession` and of `HttpClient`), `AcceptAssumption`, `ProfilesAssumption`,
`PoolAssumption`, `LifecycleAssumption`, `ConfigAssumption`. TLC evaluates each in a run. The
theorems about a client library on a socket have the hypothesis `SingleLines`
besides (no key or value has a line break), which `MCClientSession` asserts, and
which is needed (see above); `EscapedIsOneLine` says how an application gets it.
`TestsEnd` has that `Parallel` is not 0 (with 0 nobody gets a place) and `CountsFit`,
that the numbers of rounds and of all insertions are Go ints.

`SubDickProofs`, for any keys, values, hash functions, first size and limit:

* `Invariance`: `Spec => []IInv`. `IInv` is `DickOK`, the conjunction of the
  checked invariants. None is inductive alone. `add` indexes in range because
  the cursor is in range; the cursor is, because `used` counts what is ahead of
  it exactly; `used` is exact because no key occurs twice; no key occurs twice
  because every entry is at home, where the search before the add would have met
  it; and the table being filled has room because each add moved the cursor.
* `TypeCorrect`, `HashTableSafe` and its parts, `TablesHaveRoom`: the invariants
  `subdick` checks.
* `RehashProgress`: the action property `RehashAdvances`.
* `Refinement`: `Spec => Store!KVSpec`, the map. Initial states map to the empty
  map; `Overwrite` and `Add` to `KVSet`, `Get` and `Del` to `KVGet` and `KVDel`,
  whatever a rehash step does to the tables on the way.
* `RehashesEnd`: `RehashEnds`, liveness without fairness. Each add advances the
  cursor by at least a bucket, so no more adds fall into one rehash than its table
  has buckets; from one add, two are proved, four, and so on 62 times, which is
  as large as a table gets.

`DickOpsProofs` begins with `NextPowerIsLeast`: for every size up to the largest
table the shifts give the least power of two that holds it. After the shifts by
1, 2, 4, ... each bit of `size - 1` has been copied to the 1, 3, 7, ..., 63 places
below it, so all bits up to the highest are set (`Smeared`), and one more than
their number is the next power; that it is the least is what the highest bit
says of `size`. Then it has one lemma per operator (`InsertOK`, `RemoveOK`, `ExpandOK`,
`MoveBucketOK`, `RehashStepOK`, `SearchOK`, `AddOK`, `DelOK`, ...), each from
`DickOK` before to `DickOK` after with what happened to the entries, and what
that is for the map (`ContentsPut`, `ContentsRemove`).

`ChainDickProofs`, for any number of entries, addresses, hash functions and sizes:

* `ChainInvariance`: `Spec => []IInv`, with `IInv` the conjunction of `Shape` and
  `Control`. `Shape` is about pointers: each chain ends, two buckets share no
  entry, and two entries have different keys. It is false of the tables in the
  middle of a rehash step, when the old bucket still points to an entry that has
  become the first of another chain; it is true of `Live`, which is the main
  table with that bucket at the loop variable `entry`. `Control` says which sets
  are behind the chains at each `pc`: those the call found (`before`), those with
  a part of one bucket moved (`PartMoved`), or what `DickOps` makes of them in
  one step. Shape needs Control to know that a searched bucket is the key's and
  that the cursor is in the table; Control needs Shape, since relinking one entry
  leaves other chains as they are only because none shares it.
* A chain is the least set that holds its first entry and is closed under `next`;
  so what it contains is proved by giving a set that is closed (`ChainLeast`),
  without induction over its length. `ChainStep`, `ChainFrame` and `ChainUnlink`
  are what a step to the next entry, a write elsewhere and an unlinking do to it;
  `PushOK`, `PopOK`, `RewriteOK` and `UnlinkOK` are the same of a table.
* `EntriesPointedToOnce` (`PointedToOnce`) and `ChainsRefine`
  (`ImplementsSubDick`): the step that returns from a call is the one step
  `SubDick` has for it, all others stutter.
* `ChainsAreAMap`: those two refinements composed, `Spec` of `ChainDick` implies
  the map of `KVStore`. `TablesLeast` is `LeastPowerThatHolds`.

`XDickProofs`, for any goroutines and any number of sub-dictionaries:

* `XInvariance`: `XSpec => []XInv`. `XInv` is the types, `LockHeld`,
  `LookupStaysTrue`, `DickOK` of every sub-dictionary with the routing of its
  keys, and what each `pc` says of its call (`CallsMatch`). The argument:
  `LockHeld` makes a goroutine in its section alone with its sub-dictionary
  (`MutualExclusion`), so what its lookup saw is still so when it overwrites or
  adds, and `AddOK` needs just that: the key is absent (`CriticalStep`).
* `XSafe` gives `LookupStaysTrue`; other parts of `XInv` have theorems of their own.
* `LinearizableSafety`: `XSpec => Service!SInit /\ [][Service!SNext]_(Service!svars)`.
  `Enter` is `Invoke`, `Unlock` is `Return`, `Lock` and `SetLookup` stutter, and
  the four steps that end the work of a call are its `TakeEffect`.

* `HashOfTheKey`: what a pooled hasher returns is made of the words of four bytes
  that `Write` cuts the key into, dropping each fifth, for keys of any length and
  whatever it wrote before. `HasTaken` is the invariant of the loop of
  `Write`: what the buffer, its index and the state are after n bytes.
  `SameHash` is `SameKeySameHash` of the run.

`SessionProofs`:

* The session alone, for any lines, keys, values and `MaxKeys`: `SInv` has the
  types, `ValsOK` (in `modeSET` vals is a made map of exactly the collected keys;
  elsewhere it is empty or nil), `Collected` (what `state` says of `keys`, for
  each mode, with `mode` pinned by `pc` in a batch), and the replies match.
  `ValsOK` is not inductive without `Collected`: the line after a key is a value
  only because `state` says so. From it `ValuesPresent`, `StateTruthful`,
  `BatchTruthful`, `RepliesTruthful`.
* `ClientIsAPeer`: `ClientSession` implements `SocketSession`.
* Library and session, for any keys and values of one line: `CInv` lists where the
  two ends can be at the same time (`Connecting`, `Idle`, `Waiting`), and within a
  call how much of the request is on its way, collected, carried out
  (`Unread`, `Collecting`, `Running`) or answered. The session's variables do not
  say whose call it is at, and the library's not how far it got: `RepliesInStep`,
  `EffectsOfCall` and `GetReturnsHeld` follow only from the two together.
* `CallsReturn`: while a call waits with nothing to read (`Pending`), the session
  still has at most seven lines to handle (`LinesLeft`), counted by
  `LinesToAnswer`: what rests of the batch before it, its own three or four, and
  the two steps of its batch. Every step of the session leaves less or gives the
  client something to read (`ReadLineShortens`, `AnswerShortens`); a connection
  that breaks, or a value that is no string and ends the server, lets the client
  read an error (`PeerGone`); and what others do changes neither.
* `Escape` and `UnEscape`, for texts of any length over any characters:
  `EscapedIsOneLine`; `UnEscapeUndoesEscape`, which has `EscapeRoundTrip`
  as its bounded form. Unescaping one character can be exchanged with
  escaping the other (`UnEscapeCommutes`), so that the two passes of each meet
  in pairs; a pair leaves `UnEscape` alone (`UnEscapeEscape`); and that changes a
  text exactly if it shortens it (`UnEscapeShortens`).

`HttpProofs`:

* For any requests and bodies, `HInv` has `TypeOK`, a per-request part, `Watched`
  (what the database holds now for a request's key is among what the request has
  seen), `Stored` (a `/set` has seen the pairs it stored) and `Answered`. A step
  of one request changes what another has seen; `StoreWatched` says that every
  store is seen by all it concerns. From it `GetTruthful`, `SetTruthful`,
  `DelTruthful`.
* For any clients of the library, `LibraryIsACaller` (the server is the same) and
  `KInv`, which adds `Served`: a call waits for one request, which asks what the
  server makes of the call's text (`ToQuery`), and no other call waits for that. It has to survive that requests of
  failed calls go on and that their places are taken again. From it
  `HttpReturnsTruthful`.

`ServerProofs`, of four modules that share no state:

* The accept loops. For any addresses, list and number of connections, `AInv` adds
  to the three properties that a connection past its check is admitted
  (`Admitted`), that a loop counts no further than it was bounded (`Bounded`), and
  that what a loop has counted for a running pass is above all its sessions
  (`Apart`), which `LoopIdsGrow` needs because `id` is read after the unlock.
* The CPU profile. For any sessions, `ProfInv`: the holder of `sock.cpu` alone is
  past its lock (`CpuHeld`), and what it has done agrees with what it is about to
  say (`Toggling`); with the mutex free, `CPUfile` says whether the profiler
  runs. From it `ProfileToggles`.
* Starting and stopping. `OneToken` needs that no goroutine exists before it is
  spawned (`Spawned`) and `TypeOK` the exact counters (`Counted`); `StopToken`,
  `SocketFile` and `LifecycleTypes` follow for any `MaxRequests`.
* The settings. For any files, environments and kills, `CfgInv` says what is known
  at each point of a start: of the file (`Written`), the log (`Logged`) and the
  level, which three places set (`Levelled`). From it `SettingsApply` and, as an
  action property, `CredentialsSurvive`.

`ClientPoolProofs`, for any number of rounds, insertions and places: `PInv` has
`Tokens` (a goroutine between taking and giving back its place holds a token),
`Counted` (connections in use and in `cliChan` add up to `id`), `Ids`, `OneOwner`
and the slice. `ConnsBounded` follows because a connection is dialled only by a
goroutine that has a token and found none free. From it `PoolBounded`,
`PoolOwners`, `PoolSlice`, `PoolTracked`. `FInv` follows the data as well: no
check before the last insertion (`InsertsOver`, from `Told`, which counts what
main has heard), the server has what was inserted unless two rounds drew one key
(`Held`), and a check compares only what its round wrote (`Expected`). From it
`ComparisonsJust`. `TInv` says, while nothing fails and no key repeats, what has
been sent and what heard: every place in `parChan` and the handler's mutex have a
goroutine that uses it, no goroutine is at a stage main has not come to or has
passed (`Stages`), and each channel has what was sent to it less what main took
(`Reports`, `Sums`, `Phases`). From it `NobodyStuck`: before main is done it can go
on, or some goroutine can, whatever all the others wait for; and `TestsEnd`,
since each step of anybody leaves less of `Left`, the steps, insertions,
comparisons and reports to come.

Induction over data (the bytes of a key, the characters of a text) is done with
sets: `SmallestExists`, from the library's well-foundedness of `<`, gives
`AllNaturals` (a set with 0 and all successors has every number) and
`AllSequences`. A recursive function is shown to be what it says by building it
so (`WrittenIs`, `EscapedIs`, `UnEscapedIs`).

Liveness. The prover has no theory of `ENABLED`, and so none of fairness beyond
its definition: `WF_v(A)` is that `A` happens again and again or again and again
is not enabled. A theorem about liveness therefore has one hypothesis, that an
action which fairness is about is enabled where its guard holds; all else (the
invariants, what each step does to what is waited for, that a lock is given back
again and again, the temporal argument) is proved.

| theorem | property | hypothesis |
|---|---|---|
| `XDickProofs!CallsReturn` | `EveryCallReturns` | `[]CallsEnabled` |
| `XDickProofs!DatabaseLinearizable` | `Linearizable`, the fairness included | and `[]ServiceWaits` |
| `SessionProofs!EtbsAnswered` | `EtbAnswered` | `[]BatchEnabled` |
| `SessionProofs!CallsReturn` | `CallReturns` | `[]CallEnabled` |
| `HttpProofs!RequestsAnswered` | `RequestAnswered` | `[]HandlersEnabled` |
| `ServerProofs!QueuedProfilesRun` | `QueuedProfileRuns` | `[]MemEnabled` |
| `ServerProofs!CpuCommandsEnd` | `CpuCommandEnds` | `[]CpuEnabled` |
| `ServerProofs!SignalsEnd` | `SignalEndsProcess` | `[]MainEnabled` |
| `ClientPoolProofs!TestsEnd` | `TestEnds` | `[]PoolEnabled` |

Each hypothesis is a state formula and true of every reachable state of the run's
instance: TLC says so when it is added to the invariants of the run's
configuration. `ServiceWaits` is its counterpart in `KVService`: the service has
nothing to do for a goroutine that calls nothing. Two arguments:

* A lock. Its holder's steps are fair, so it gives the lock back; the lock is thus
  free again and again, and strong fairness of `Lock` is that a waiter then gets
  it. The invariant is needed for who holds it, and that the steps of others move
  neither holder nor waiter.
* A loop. Each step leaves one less to do. There is no induction over temporal
  formulas, so the lemma for one step is used twice for two, and so on, until it
  holds of as many steps as there can be. A step of a batch may also block; then
  it ends, or `EtbAnswered` has its exception. A batch or body has fewer than 2^48
  members (`HeapSize`, hypotheses `MaxKeys < HeapSize` and `BodiesFit`), since a Go
  program cannot allocate more bytes than that. The whole test of the client is
  one such loop, of fewer than 2^80 steps.

Every property of the runs that pass is thus stated by a theorem. Only
model-checked: that the hypotheses on `ENABLED` hold. No module that is proved
about has a recursive operator.

## Not modelled

* `SOCK_GetMany`, `tpReader`, `tpWriter` and `worker` of the client library are
  stubs without an effect; `watchDog` returns at once; `SetLogLvl` has no route.
* `hash.go` beyond `String` hashes Go slices and numbers, and siphash, FNV and
  `Combine` are functions of their input: any function of the key stands for them.
* Two goroutines that call `SOCK_*` on one `Client`: unlike `HTTP_*`, these take no
  lock (`client/clilib/client.go:267`, `:301`, `:343`), so requests and replies of
  the two would mix. The test client gives a connection to one goroutine at a
  time (`OneOwner`).
* Reading a request's body and writing its answer, which wait for the peer: for
  ever where the web server's timeouts stay 0 (see above). `RequestAnswered` is
  about the handlers between the two. Go's HTTP client may send a GET again on a new
  connection when a kept one proves closed; to the handlers that is a request of
  others.
* TLS, the profiler and the web server for it (`-pprof`), viper and the HTTP
  server are libraries, modelled by what this code uses of them.
* The defaults of the TLS key and certificate are exchanged
  (`server/configuration.go:79`, `:81`); the TLS settings are not modelled.
* `utils.go` formats, and tests for files; `Str2int` appears where a number
  parses or not. The logger's formatting and output, and statistics, have no
  state that anything reads.
* `-hashmode` is not validated (`main.go:47`), and `server.Prof` is set after the
  listeners have started (`main.go:55`): a session's profile command may find it
  nil. Neither is a state of a module: any hash function is covered, and
  `Profiles` takes `Prof` to be set.

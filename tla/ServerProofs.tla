---------------------------- MODULE ServerProofs ----------------------------
(***************************************************************************)
(* What the server does around its sessions and requests.                  *)
(*                                                                         *)
(* The accept loops (AcceptLoops) admit listed peers only and number their *)
(* sessions apart, proved for any addresses, any list and any number of    *)
(* peers.  sock.id only grows, so when a loop has counted its peer, that   *)
(* number is above the ids of all sessions it started before (Apart);      *)
(* whatever it reads after the unlock is at least as large.                *)
(*                                                                         *)
(* The CPU profile (Profiles) is what the server holds it to be, for any   *)
(* number of sessions: the holder of sock.cpu alone is between its toggle  *)
(* and its unlock, and CPUfile is out of step there only (Toggling).       *)
(* Whoever waits for one of the two profile locks gets it, since it is     *)
(* given back again and again.                                             *)
(*                                                                         *)
(* Starting and stopping (Lifecycle), for any number of requests.          *)
(* OneToken is not inductive alone: that a put back finds stop_chan empty  *)
(* follows from it, but that no waiter runs before main has spawned it,    *)
(* and that the file's listener starts before CloseSocket, need Spawned;   *)
(* the bounds of the counters need their exact values, Counted.            *)
(*                                                                         *)
(* The settings a start comes by (ServerConfig), for any files, levels and *)
(* sub_dicks an operator writes.                                           *)
(***************************************************************************)
EXTENDS AcceptLoops, Profiles, Lifecycle, ServerConfig, FiniteSetTheorems, TLAPS

Pc == {"boot", "off", "accept", "admit", "count", "start", "closed"}

Types == /\ acl \subseteq Address
         /\ lpc \in [Loop -> Pc]
         /\ conn \in [Loop -> Conn \cup {NoConn}]
         /\ id \in Nat
         /\ sessions \subseteq [loop : Loop, id : Nat, addr : Address, own : Nat]
         /\ own \in [Loop -> Nat]

\* The peers accepted and not yet counted: each may still add 1 to sock.id.
Uncounted(l) == IF lpc[l] \in {"admit", "count"} THEN 1 ELSE 0
Bounded == id + Uncounted("unix") + Uncounted("tcp") + Uncounted("tls")
              <= MaxConns + 3

\* A loop has a peer in hand, listed unless it came over the unix socket.
Admitted == \A l \in Loop :
    /\ lpc[l] \in {"admit", "count", "start"} => conn[l] \in Conn
    /\ lpc[l] \in {"count", "start"} /\ l # "unix" => conn[l].addr \in acl

\* Before the list is set up, no loop runs and no session exists.
Booting == (\E l \in Loop : lpc[l] = "boot") =>
              sessions = {} /\ \A l \in Loop : lpc[l] = "boot"

Apart == /\ \A l \in Loop : own[l] <= id
         /\ \A s \in sessions : s.id < own[s.loop] \/ lpc[s.loop] # "start"

AInv == /\ Types /\ Bounded /\ Admitted /\ Booting /\ Apart
        /\ OnlyListedServed /\ LoopIdsGrow /\ IdIsRecent
----------------------------------------------------------------------------
LEMMA InitHolds == AcceptInit => AInv
BY AcceptAssumption
   DEF AcceptInit, AInv, Types, Pc, Bounded, Uncounted, Admitted, Booting, Apart,
       OnlyListedServed, LoopIdsGrow, IdIsRecent, Loop, NoConn, Conn

LEMMA BootStep == ASSUME AInv, BootLoops PROVE AInv'
<1>1. PICK list \in SUBSET Address : acl' = SetACL(list)
  BY DEF BootLoops
<1>2. PICK on \in SUBSET Loop :
          lpc' = [l \in Loop |-> IF l \in on \cup {"tcp"} THEN "accept" ELSE "off"]
  BY DEF BootLoops
<1>3. /\ sessions = {} /\ sessions' = {} /\ conn' = conn /\ id' = id /\ own' = own
  BY DEF BootLoops, AInv, Booting, Loop
<1>4. \A l \in Loop : lpc'[l] \in {"accept", "off"}
  BY <1>2
<1>5. Types'
  BY <1>1, <1>2, <1>3, AcceptAssumption DEF AInv, Types, Pc, SetACL
<1>6. Bounded'
  <2>1. Uncounted("unix")' = 0 /\ Uncounted("tcp")' = 0 /\ Uncounted("tls")' = 0
    BY <1>4 DEF Uncounted, Loop
  <2>2. \A k \in Loop : Uncounted(k) \in 0..1
    BY DEF Uncounted
  <2>3. "unix" \in Loop /\ "tcp" \in Loop /\ "tls" \in Loop
    BY DEF Loop
  <2> QED
    BY <2>1, <2>2, <2>3, <1>3, AcceptAssumption DEF AInv, Types, Bounded
<1>7. Admitted' /\ Booting'
  BY <1>4 DEF Admitted, Booting
<1>8. Apart' /\ OnlyListedServed' /\ LoopIdsGrow' /\ IdIsRecent'
  BY <1>3 DEF AInv, Apart, OnlyListedServed, LoopIdsGrow, IdIsRecent
<1> QED
  BY <1>5, <1>6, <1>7, <1>8 DEF AInv

\* A step of a loop that leaves list, counter and sessions as they are.
LEMMA MoveStep ==
    ASSUME AInv, NEW l \in Loop, NEW from \in Pc \ {"boot"}, NEW to \in Pc \ {"boot", "start"},
           Goto(l, from, to), UNCHANGED <<acl, id, sessions, own>>,
           Types', Bounded', Admitted'
    PROVE  AInv'
<1>1. lpc' = [lpc EXCEPT ![l] = to] /\ lpc[l] = from
  BY DEF Goto
<1>2. Booting'
  BY <1>1 DEF AInv, Types, Booting
<1>3. Apart'
  BY <1>1 DEF AInv, Types, Apart
<1>4. OnlyListedServed' /\ LoopIdsGrow' /\ IdIsRecent'
  BY DEF AInv, OnlyListedServed, LoopIdsGrow, IdIsRecent
<1> QED
  BY <1>2, <1>3, <1>4 DEF AInv

LEMMA AcceptStep == ASSUME AInv, NEW l \in Loop, Accept(l) PROVE AInv'
<1> DEFINE to == IF l = "unix" THEN "count" ELSE "admit"
<1>1. /\ Goto(l, "accept", to) /\ to \in {"count", "admit"}
      /\ lpc' = [lpc EXCEPT ![l] = to] /\ lpc[l] = "accept"
  BY DEF Accept, Goto
<1>2. PICK c \in Conn : conn' = [conn EXCEPT ![l] = c]
  BY DEF Accept
<1>3. id < MaxConns /\ UNCHANGED <<acl, id, sessions, own>>
  BY DEF Accept
<1>4. Types'
  BY <1>1, <1>2, <1>3 DEF AInv, Types, Pc
<1>5. Bounded'
  BY <1>3, <1>4, AcceptAssumption DEF Types, Bounded, Uncounted
<1>6. Admitted'
  BY <1>1, <1>2, <1>3 DEF AInv, Types, Admitted
<1> QED
  BY <1>1, <1>3, <1>4, <1>5, <1>6, MoveStep DEF Pc

LEMMA CheckStep == ASSUME AInv, NEW l \in Loop, Check(l) PROVE AInv'
<1> DEFINE to == IF conn[l].addr \in acl THEN "count" ELSE "accept"
<1>1. /\ Goto(l, "admit", to) /\ to \in {"count", "accept"}
      /\ lpc' = [lpc EXCEPT ![l] = to] /\ lpc[l] = "admit"
      /\ UNCHANGED <<acl, conn, id, sessions, own>>
  BY DEF Check, Goto
<1>2. Types'
  BY <1>1 DEF AInv, Types, Pc
<1>3. Bounded'
  <2>1. \A k \in Loop : Uncounted(k)' \in 0..1 /\ Uncounted(k)' <= Uncounted(k)
    BY <1>1 DEF AInv, Types, Uncounted
  <2>2. \A k \in Loop : Uncounted(k) \in 0..1
    BY DEF Uncounted
  <2>3. "unix" \in Loop /\ "tcp" \in Loop /\ "tls" \in Loop
    BY DEF Loop
  <2> HIDE DEF to
  <2> QED
    BY <2>1, <2>2, <2>3, <1>1, AcceptAssumption DEF AInv, Types, Bounded
<1>4. Admitted'
  BY <1>1 DEF AInv, Types, Admitted
<1> QED
  BY <1>1, <1>2, <1>3, <1>4, MoveStep DEF Pc

LEMMA CountStep == ASSUME AInv, NEW l \in Loop, Count(l) PROVE AInv'
<1>1. /\ lpc' = [lpc EXCEPT ![l] = "start"] /\ lpc[l] = "count"
      /\ id' = id + 1 /\ own' = [own EXCEPT ![l] = id + 1]
      /\ UNCHANGED <<acl, conn, sessions>>
  BY DEF Count, Goto
<1>2. Types'
  BY <1>1 DEF AInv, Types, Pc
<1>3. Bounded'
  BY <1>1 DEF AInv, Types, Bounded, Uncounted, Loop
<1>4. Admitted'
  BY <1>1 DEF AInv, Types, Admitted
<1>5. Booting'
  BY <1>1 DEF AInv, Types, Booting
<1>6. Apart'
  BY <1>1 DEF AInv, Types, Apart, IdIsRecent
<1>7. OnlyListedServed' /\ LoopIdsGrow' /\ IdIsRecent'
  BY <1>1 DEF AInv, Types, OnlyListedServed, LoopIdsGrow, IdIsRecent
<1> QED
  BY <1>2, <1>3, <1>4, <1>5, <1>6, <1>7 DEF AInv

LEMMA StartStep == ASSUME AInv, NEW l \in Loop, StartSession(l) PROVE AInv'
<1>1. /\ lpc' = [lpc EXCEPT ![l] = "accept"] /\ lpc[l] = "start"
      /\ sessions' = sessions \cup {Started(l, id)}
      /\ UNCHANGED <<acl, conn, id, own>>
  BY DEF StartSession, Goto
<1>2. /\ conn[l] \in Conn /\ own[l] <= id /\ own[l] \in Nat /\ id \in Nat
      /\ \A s \in sessions : s.loop = l => s.id < own[l]
  BY <1>1 DEF AInv, Types, Admitted, Apart
<1> DEFINE t == Started(l, id)
<1>3. /\ t \in [loop : Loop, id : Nat, addr : Address, own : Nat]
      /\ t.loop = l /\ t.id = id /\ t.addr = conn[l].addr /\ t.own = own[l]
  BY <1>2 DEF Started, Conn
<1> HIDE DEF t
<1>4. Types'
  BY <1>1, <1>3 DEF AInv, Types, Pc, t
<1>5. Bounded'
  BY <1>1 DEF AInv, Types, Bounded, Uncounted, Loop
<1>6. Admitted'
  BY <1>1 DEF AInv, Types, Admitted
<1>7. Booting'
  BY <1>1 DEF AInv, Types, Booting
<1>8. Apart'
  BY <1>1, <1>3 DEF AInv, Types, Apart, t
<1>9. OnlyListedServed' /\ IdIsRecent'
  BY <1>1, <1>2, <1>3 DEF AInv, Admitted, OnlyListedServed, IdIsRecent, t
<1>10. LoopIdsGrow'
  BY <1>1, <1>2, <1>3 DEF AInv, Types, IdIsRecent, LoopIdsGrow, t
<1> QED
  BY <1>4, <1>5, <1>6, <1>7, <1>8, <1>9, <1>10 DEF AInv

LEMMA NextKeeps == AInv /\ [AcceptNext]_acceptVars => AInv'
<1> SUFFICES ASSUME AInv, [AcceptNext]_acceptVars PROVE AInv'
  OBVIOUS
<1>1. CASE UNCHANGED <<acl, lpc, conn, id, sessions, own>>
  BY <1>1 DEF AInv, Types, Bounded, Uncounted, Admitted, Booting, Apart,
              OnlyListedServed, LoopIdsGrow, IdIsRecent
<1>2. CASE Close
  <2>1. "unix" \in Loop
    BY DEF Loop
  <2>2. /\ lpc' = [lpc EXCEPT !["unix"] = "closed"] /\ lpc["unix"] = "accept"
        /\ Goto("unix", "accept", "closed")
        /\ UNCHANGED <<acl, conn, id, sessions, own>>
    BY <1>2 DEF Close, Goto
  <2>3. Types' /\ Admitted'
    BY <2>1, <2>2 DEF AInv, Types, Pc, Admitted
  <2>4. Bounded'
    BY <2>1, <2>2 DEF AInv, Types, Bounded, Uncounted, Loop
  <2> QED
    BY <2>1, <2>2, <2>3, <2>4, MoveStep DEF Pc
<1>3. ASSUME NEW l \in Loop, Pass(l) PROVE AInv'
  BY <1>1, <1>3, AcceptStep, CheckStep, CountStep, StartStep
     DEF Pass, AcceptFails
<1> QED
  BY <1>1, <1>2, <1>3, BootStep DEF AcceptNext, acceptVars
----------------------------------------------------------------------------
\* The inductive invariant: who is admitted, and what sock.id is to the loops.
THEOREM AcceptInvariance == AcceptSpec => []AInv
BY InitHolds, NextKeeps, PTL DEF AcceptSpec

\* Types, and sock.id stays within the peers admitted: one per loop beyond the
\* bound, accepted before it was reached.
THEOREM AcceptTypes == AcceptSpec => []AcceptTypeOK
<1>1. Cardinality(Loop) = 3
  <2>1. Cardinality({"unix"}) = 1 /\ IsFiniteSet({"unix"})
    BY FS_Singleton
  <2>2. /\ Cardinality({"unix"} \cup {"tcp"}) = 2
        /\ IsFiniteSet({"unix"} \cup {"tcp"})
    BY <2>1, FS_AddElement
  <2>3. Cardinality({"unix"} \cup {"tcp"} \cup {"tls"}) = 3
    BY <2>2, FS_AddElement
  <2>4. {"unix"} \cup {"tcp"} \cup {"tls"} = Loop
    BY DEF Loop
  <2> QED
    BY <2>3, <2>4
<1>2. AInv => AcceptTypeOK
  BY <1>1, AcceptAssumption DEF AInv, Types, Pc, Bounded, Uncounted, AcceptTypeOK
<1> QED
  BY <1>2, AcceptInvariance, PTL

\* checkACL: only listed peers are served over TCP and TLS.
THEOREM ListEnforced == AcceptSpec => []OnlyListedServed
<1>1. AInv => OnlyListedServed
  BY DEF AInv
<1> QED
  BY <1>1, AcceptInvariance, PTL

\* The ids of one loop's sessions grow, although three loops share the counter
\* and read it after the unlock.
THEOREM IdsGrow == AcceptSpec => []LoopIdsGrow
<1>1. AInv => LoopIdsGrow
  BY DEF AInv
<1> QED
  BY <1>1, AcceptInvariance, PTL

\* A session's id is never older than the connection it was started for.
THEOREM IdsRecent == AcceptSpec => []IdIsRecent
<1>1. AInv => IdIsRecent
  BY DEF AInv
<1> QED
  BY <1>1, AcceptInvariance, PTL
----------------------------------------------------------------------------
(* The CPU profile *)

ProfTypes ==
    /\ DOMAIN pc = Peer /\ DOMAIN answer = Peer
    /\ CPUfile \in BOOLEAN /\ profiling \in BOOLEAN
    /\ \A p \in Peer : pc[p] \in {"idle", "lock", "toggle", "write", "unlock"}

\* Who is past its Lock holds sock.cpu.
CpuHeld == \A p \in Peer : pc[p] \in {"toggle", "write", "unlock"} <=> cpu = p

\* What the holder has done and is about to say.
Toggling == \A p \in Peer :
    /\ pc[p] = "write" =>
          \/ answer[p] = "200 Stop" /\ ~profiling /\ CPUfile
          \/ answer[p] = "200 Start" /\ profiling /\ CPUfile
          \/ answer[p] = "400 ERR" /\ ~profiling /\ ~CPUfile
    /\ pc[p] = "unlock" =>
          /\ CPUfile <=> profiling
          /\ \/ answer[p] \in {"200 Stop", "400 ERR"} /\ ~profiling
             \/ answer[p] = "200 Start" /\ profiling
    /\ pc[p] = "toggle" => (CPUfile <=> profiling)
    /\ pc[p] \in {"idle", "lock", "toggle"} => answer[p] = "none"

ProfInv == ProfTypes /\ CpuHeld /\ Toggling /\ (cpu = NoOne => (CPUfile <=> profiling))

\* The session p moves: only it may have been inside, and the others stay where
\* they are.
LEMMA ProfMoves ==
    ASSUME ProfInv, NEW p \in Peer, NEW from, NEW to, Advance(p, from, to)
    PROVE  /\ pc[p] = from /\ pc'[p] = to /\ DOMAIN pc' = Peer
           /\ \A q \in Peer \ {p} : pc'[q] = pc[q]
           /\ from \in {"toggle", "write", "unlock"} =>
                 /\ cpu = p
                 /\ \A q \in Peer \ {p} : pc[q] \in {"idle", "lock"} /\ answer[q] = "none"
BY DEF ProfInv, ProfTypes, CpuHeld, Toggling, Advance

LEMMA NoOneIsNoPeer == NoOne \notin Peer
BY ProfilesAssumption

LEMMA CpuCommandStep == ASSUME ProfInv, NEW p \in Peer, CpuCommand(p) PROVE ProfInv'
<1>1. /\ pc[p] = "idle" /\ pc'[p] = "lock" /\ DOMAIN pc' = Peer
      /\ \A q \in Peer \ {p} : pc'[q] = pc[q]
      /\ UNCHANGED <<answer, cpu, CPUfile, profiling>>
  BY ProfMoves DEF CpuCommand
<1> QED
  BY <1>1 DEF ProfInv, ProfTypes, CpuHeld, Toggling

LEMMA CpuLockStep == ASSUME ProfInv, NEW p \in Peer, CpuLock(p) PROVE ProfInv'
<1>1. /\ pc[p] = "lock" /\ pc'[p] = "toggle" /\ DOMAIN pc' = Peer
      /\ \A q \in Peer \ {p} : pc'[q] = pc[q]
      /\ cpu = NoOne /\ cpu' = p
      /\ UNCHANGED <<answer, CPUfile, profiling>>
  BY ProfMoves DEF CpuLock
<1> QED
  BY <1>1, NoOneIsNoPeer DEF ProfInv, ProfTypes, CpuHeld, Toggling

LEMMA StopStep == ASSUME ProfInv, NEW p \in Peer, Stop(p) PROVE ProfInv'
<1>1. /\ pc[p] = "toggle" /\ pc'[p] = "write" /\ DOMAIN pc' = Peer
      /\ \A q \in Peer \ {p} : pc'[q] = pc[q]
      /\ \A q \in Peer \ {p} : pc[q] \in {"idle", "lock"} /\ answer[q] = "none"
      /\ cpu = p /\ CPUfile /\ ~profiling' /\ profiling' \in BOOLEAN
      /\ UNCHANGED <<cpu, CPUfile>>
  BY ProfMoves DEF Stop
<1>2. /\ DOMAIN answer' = Peer /\ answer'[p] = "200 Stop"
      /\ \A q \in Peer \ {p} : answer'[q] = answer[q]
  BY DEF Stop, ProfInv, ProfTypes
<1> QED
  BY <1>1, <1>2, NoOneIsNoPeer DEF ProfInv, ProfTypes, CpuHeld, Toggling

LEMMA StartProfileStep == ASSUME ProfInv, NEW p \in Peer, Start(p) PROVE ProfInv'
<1>1. /\ pc[p] = "toggle" /\ pc'[p] = "write" /\ DOMAIN pc' = Peer
      /\ \A q \in Peer \ {p} : pc'[q] = pc[q]
      /\ \A q \in Peer \ {p} : pc[q] \in {"idle", "lock"} /\ answer[q] = "none"
      /\ cpu = p /\ cpu' = cpu
  BY ProfMoves DEF Start
<1>2. PICK started \in BOOLEAN :
          /\ profiling' = started /\ CPUfile' = started
          /\ answer' = [answer EXCEPT
                          ![p] = IF started THEN "200 Start" ELSE "400 ERR"]
  BY DEF Start
<1>3. /\ DOMAIN answer' = Peer
      /\ answer'[p] = IF started THEN "200 Start" ELSE "400 ERR"
      /\ \A q \in Peer \ {p} : answer'[q] = answer[q]
  BY <1>2 DEF ProfInv, ProfTypes
<1> QED
  BY <1>1, <1>2, <1>3, NoOneIsNoPeer DEF ProfInv, ProfTypes, CpuHeld, Toggling

LEMMA WriteStep == ASSUME ProfInv, NEW p \in Peer, Write(p) PROVE ProfInv'
<1>1. /\ pc[p] = "write" /\ pc'[p] = "unlock" /\ DOMAIN pc' = Peer
      /\ \A q \in Peer \ {p} : pc'[q] = pc[q]
      /\ \A q \in Peer \ {p} : pc[q] \in {"idle", "lock"} /\ answer[q] = "none"
      /\ cpu = p /\ UNCHANGED <<answer, cpu, profiling>>
  BY ProfMoves DEF Write
<1>2. CPUfile' \in BOOLEAN /\ (CPUfile' <=> CPUfile /\ answer[p] # "200 Stop")
  BY DEF Write
<1> QED
  BY <1>1, <1>2, NoOneIsNoPeer DEF ProfInv, ProfTypes, CpuHeld, Toggling

LEMMA CpuUnlockStep == ASSUME ProfInv, NEW p \in Peer, CpuUnlock(p) PROVE ProfInv'
<1>1. /\ pc[p] = "unlock" /\ pc'[p] = "idle" /\ DOMAIN pc' = Peer
      /\ \A q \in Peer \ {p} : pc'[q] = pc[q]
      /\ \A q \in Peer \ {p} : pc[q] \in {"idle", "lock"} /\ answer[q] = "none"
      /\ cpu' = NoOne /\ UNCHANGED <<CPUfile, profiling>>
  BY ProfMoves DEF CpuUnlock
<1>2. /\ DOMAIN answer' = Peer /\ answer'[p] = "none"
      /\ \A q \in Peer \ {p} : answer'[q] = answer[q]
  BY DEF CpuUnlock, ProfInv, ProfTypes
<1> QED
  BY <1>1, <1>2, NoOneIsNoPeer DEF ProfInv, ProfTypes, CpuHeld, Toggling

LEMMA ProfNextKeeps == ProfInv /\ [ProfNext]_profVars => ProfInv'
<1> SUFFICES ASSUME ProfInv, [ProfNext]_profVars PROVE ProfInv'
  OBVIOUS
<1>1. ASSUME UNCHANGED <<pc, answer, cpu, CPUfile, profiling>> PROVE ProfInv'
  BY <1>1 DEF ProfInv, ProfTypes, CpuHeld, Toggling
<1>2. ASSUME NEW p \in Peer, Cpu(p) \/ CpuCommand(p) PROVE ProfInv'
  BY <1>2, CpuCommandStep, CpuLockStep, StopStep, StartProfileStep, WriteStep, CpuUnlockStep
     DEF Cpu
<1>3. ASSUME NEW p \in Peer, Stall(p) \/ Resume(p) \/ Hangup(p) \/ Reconnect(p)
      PROVE  ProfInv'
  BY <1>1, <1>3 DEF Stall, Resume, Hangup, Reconnect, PeerBecomes
<1>4. ASSUME NEW j \in Job, MemCommand(j) \/ Mem(j) PROVE ProfInv'
  BY <1>1, <1>4 DEF MemCommand, Mem, MemLock, StartMemProfile, MemUnlock, cpuVars
<1>5. CASE UNCHANGED profVars
  BY <1>1, <1>5 DEF profVars
<1> QED
  BY <1>2, <1>3, <1>4, <1>5 DEF ProfNext

\* The inductive invariant of the profiling commands.
THEOREM ProfilesInvariance == ProfSpec => []ProfInv
<1>1. ProfInit => ProfInv
  <2> SUFFICES ASSUME ProfInit PROVE ProfInv
    OBVIOUS
  <2>1. \A p \in Peer : pc[p] = "idle" /\ answer[p] = "none"
    BY DEF ProfInit
  <2>2. DOMAIN pc = Peer /\ DOMAIN answer = Peer /\ cpu = NoOne
        /\ CPUfile = FALSE /\ profiling = FALSE
    BY DEF ProfInit
  <2> QED
    BY <2>1, <2>2, NoOneIsNoPeer DEF ProfInv, ProfTypes, CpuHeld, Toggling
<1> QED
  BY <1>1, ProfNextKeeps, PTL DEF ProfSpec

\* CPUfile says whether the profiler runs whenever nobody is in the handler of
\* "2", and what a peer is told is so when it is written, for any number of
\* sessions that toggle, stall and hang up.
THEOREM ProfileToggles == ProfSpec => []ToggleAgrees
<1>1. ProfInv => ToggleAgrees
  <2> SUFFICES ASSUME ProfInv PROVE ToggleAgrees
    OBVIOUS
  <2>1. FileAgrees
    BY DEF ProfInv, ProfTypes, FileAgrees
  <2>2. AnswerHolds
    BY DEF ProfInv, ProfTypes, Toggling, AnswerHolds
  <2> QED
    BY <2>1, <2>2 DEF ToggleAgrees
<1> QED
  BY <1>1, ProfilesInvariance, PTL

(* Fairness.  WF and SF are defined with ENABLED, of which the prover has no *)
(* theory: that an action can be taken where its guard holds (MemEnabled,    *)
(* CpuEnabled) is a hypothesis of the theorems, on which TLC and a reading   *)
(* of the actions agree.  The rest of the argument is proved.                *)

JobAt(j, s) == job[j] = s
MemFree == mem = NoOne

\* sock.mem is with the goroutine that is past its Lock.
MemHeld == /\ job \in [Job -> {"none", "queued", "waits", "runs"}]
           /\ mem \in Job \cup {NoOne}
           /\ \A j \in Job : job[j] \in {"waits", "runs"} <=> mem = j

LEMMA MemUnmoved ==
    ASSUME NEW p \in Peer,
           CpuCommand(p) \/ Cpu(p) \/ Stall(p) \/ Resume(p) \/ Hangup(p) \/ Reconnect(p)
    PROVE  UNCHANGED memVars
BY DEF CpuCommand, Cpu, CpuLock, Stop, Start, Write, CpuUnlock, Stall, Resume, Hangup,
       Reconnect, PeerBecomes

LEMMA MemInvariance == ProfSpec => []MemHeld
<1>1. ProfInit => MemHeld
  BY ProfilesAssumption DEF ProfInit, MemHeld
<1>2. MemHeld /\ [ProfNext]_profVars => MemHeld'
  <2> SUFFICES ASSUME MemHeld, [ProfNext]_profVars PROVE MemHeld'
    OBVIOUS
  <2>1. ASSUME UNCHANGED memVars PROVE MemHeld'
    BY <2>1 DEF memVars, MemHeld
  <2>2. ASSUME NEW j \in Job, MemCommand(j) \/ Mem(j) PROVE MemHeld'
    <3> USE ProfilesAssumption DEF MemHeld, Move
    <3>1. CASE MemCommand(j)
      BY <3>1 DEF MemCommand
    <3>2. CASE MemLock(j)
      BY <3>2 DEF MemLock
    <3>3. CASE StartMemProfile(j)
      BY <3>3 DEF StartMemProfile
    <3>4. CASE MemUnlock(j)
      BY <3>4 DEF MemUnlock
    <3> QED
      BY <2>2, <3>1, <3>2, <3>3, <3>4 DEF Mem
  <2>3. CASE UNCHANGED profVars
    BY <2>1, <2>3 DEF profVars, memVars
  <2> QED
    BY <2>1, <2>2, <2>3, MemUnmoved DEF ProfNext
<1> QED
  BY <1>1, <1>2, PTL DEF ProfSpec

\* A goroutine moves on by its own steps alone ...
LEMMA JobMoves ==
    ASSUME NEW j \in Job, MemHeld, [ProfNext]_profVars
    PROVE  /\ JobAt(j, "queued") => JobAt(j, "queued")' \/ JobAt(j, "waits")'
           /\ JobAt(j, "waits") => JobAt(j, "waits")' \/ JobAt(j, "runs")'
           /\ JobAt(j, "runs") => JobAt(j, "runs")' \/ MemFree'
<1> DEFINE Moves == /\ JobAt(j, "queued") => JobAt(j, "queued")' \/ JobAt(j, "waits")'
                    /\ JobAt(j, "waits") => JobAt(j, "waits")' \/ JobAt(j, "runs")'
                    /\ JobAt(j, "runs") => JobAt(j, "runs")' \/ MemFree'
<1>1. ASSUME NEW i \in Job, MemCommand(i) \/ Mem(i) PROVE Moves
  BY <1>1 DEF MemHeld, MemCommand, Mem, MemLock, StartMemProfile, MemUnlock, Move, JobAt,
              MemFree
<1>2. ASSUME UNCHANGED memVars PROVE Moves
  BY <1>2 DEF memVars, JobAt
<1>3. UNCHANGED profVars => UNCHANGED memVars
  BY DEF profVars, memVars
<1> QED
  BY <1>1, <1>2, <1>3, MemUnmoved DEF ProfNext

\* ... and with each of them it does.
LEMMA JobSteps ==
    ASSUME NEW j \in Job, MemHeld
    PROVE  /\ JobAt(j, "queued") /\ <<MemLock(j)>>_profVars => JobAt(j, "waits")'
           /\ JobAt(j, "waits") /\ <<Mem(j)>>_profVars => JobAt(j, "runs")'
           /\ JobAt(j, "runs") /\ <<Mem(j)>>_profVars => MemFree'
BY DEF MemHeld, Mem, MemLock, StartMemProfile, MemUnlock, Move, JobAt, MemFree

MemCanLock(j) == JobAt(j, "queued") /\ MemFree => ENABLED <<MemLock(j)>>_profVars
MemCanRun(j)  == JobAt(j, "waits") \/ JobAt(j, "runs") => ENABLED <<Mem(j)>>_profVars
MemEnabled    == \A j \in Job : MemCanLock(j) /\ MemCanRun(j)

LEMMA FairJob ==
    ASSUME NEW j \in Job
    PROVE  ProfSpec /\ []MemEnabled => [](MemCanLock(j) /\ MemCanRun(j)) /\ MemFair(j)
<1>1. MemEnabled => MemCanLock(j) /\ MemCanRun(j)
  BY DEF MemEnabled
<1>2. ProfFairness => MemFair(j)
  BY DEF ProfFairness
<1> QED
  BY <1>1, <1>2, PTL DEF ProfSpec

\* Whoever holds sock.mem gives it back, so that it is free again and again.
MemFreedBy(j) == [](mem = j => <>MemFree)
MemFreed      == \A j \in Job : mem = j => <>MemFree

LEMMA MemGetsFree == ProfSpec /\ []MemEnabled => []<>MemFree
<1>1. ASSUME NEW j \in Job PROVE ProfSpec /\ []MemEnabled => MemFreedBy(j)
  <2>1. MemHeld /\ mem = j => JobAt(j, "waits") \/ JobAt(j, "runs")
    BY DEF MemHeld, JobAt
  <2> QED
    BY <2>1, JobMoves, JobSteps, FairJob, MemInvariance, PTL
       DEF ProfSpec, MemFair, MemCanRun, MemFreedBy
<1>2. ProfSpec /\ []MemEnabled => \A j \in Job : MemFreedBy(j)
  BY <1>1
<1>3. (\A j \in Job : MemFreedBy(j)) => []MemFreed
  BY DEF MemFreedBy, MemFreed
<1>4. MemHeld /\ MemFreed => MemFree \/ <>MemFree
  BY DEF MemHeld, MemFreed, MemFree
<1> QED
  BY <1>2, <1>3, <1>4, MemInvariance, PTL

\* Every queued memory profile runs, for any number of them: the mutex is free
\* again and again, and a Lock that waits for it is not overtaken for ever.
THEOREM QueuedProfilesRun == ProfSpec /\ []MemEnabled => QueuedProfileRuns
<1>1. ASSUME NEW j \in Job
      PROVE  ProfSpec /\ []MemEnabled => (JobAt(j, "queued") ~> JobAt(j, "runs"))
  BY JobMoves, JobSteps, FairJob, MemInvariance, MemGetsFree, PTL
     DEF ProfSpec, MemFair, MemCanLock, MemCanRun
<1> QED
  BY <1>1 DEF JobAt, QueuedProfileRuns

PeerAt(p, s) == pc[p] = s
CpuFree == cpu = NoOne

\* The holder of sock.cpu writes to a peer that does not read.
CpuBlocked == \E q \in Peer : cpu = q /\ peer[q] = "stalls"

CpuOwned == ProfInv /\ cpu \in Peer \cup {NoOne}

LEMMA CpuInvariance == ProfSpec => []CpuOwned
<1>1. ProfInit => cpu \in Peer \cup {NoOne}
  BY DEF ProfInit
<1>2. cpu \in Peer \cup {NoOne} /\ [ProfNext]_profVars => (cpu \in Peer \cup {NoOne})'
  BY DEF ProfNext, profVars, CpuCommand, Cpu, CpuLock, Stop, Start, Write, CpuUnlock, Stall,
         Resume, Hangup, Reconnect, PeerBecomes, MemCommand, Mem, MemLock, StartMemProfile,
         MemUnlock, cpuVars
<1> QED
  BY <1>1, <1>2, ProfilesInvariance, PTL DEF ProfSpec, CpuOwned

LEMMA PeerMoves ==
    ASSUME NEW p \in Peer, CpuOwned, [ProfNext]_profVars
    PROVE  /\ PeerAt(p, "lock") => PeerAt(p, "lock")' \/ PeerAt(p, "toggle")'
           /\ PeerAt(p, "toggle") => PeerAt(p, "toggle")' \/ PeerAt(p, "write")'
           /\ PeerAt(p, "write") => PeerAt(p, "write")' \/ PeerAt(p, "unlock")'
           /\ PeerAt(p, "unlock") => PeerAt(p, "unlock")' \/ (PeerAt(p, "idle") /\ CpuFree)'
<1> DEFINE Moves ==
           /\ PeerAt(p, "lock") => PeerAt(p, "lock")' \/ PeerAt(p, "toggle")'
           /\ PeerAt(p, "toggle") => PeerAt(p, "toggle")' \/ PeerAt(p, "write")'
           /\ PeerAt(p, "write") => PeerAt(p, "write")' \/ PeerAt(p, "unlock")'
           /\ PeerAt(p, "unlock") => PeerAt(p, "unlock")' \/ (PeerAt(p, "idle") /\ CpuFree)'
<1>1. ASSUME NEW q \in Peer, CpuCommand(q) \/ Cpu(q) PROVE Moves
  BY <1>1 DEF CpuOwned, ProfInv, ProfTypes, CpuCommand, Cpu, CpuLock, Stop, Start, Write,
              CpuUnlock, Advance, PeerAt, CpuFree
<1>2. ASSUME UNCHANGED pc PROVE Moves
  BY <1>2 DEF PeerAt
<1> QED
  BY <1>1, <1>2 DEF ProfNext, profVars, Stall, Resume, Hangup, Reconnect, PeerBecomes,
                    MemCommand, Mem, MemLock, StartMemProfile, MemUnlock, cpuVars

LEMMA PeerSteps ==
    ASSUME NEW p \in Peer, CpuOwned
    PROVE  /\ PeerAt(p, "lock") /\ <<CpuLock(p)>>_profVars => PeerAt(p, "toggle")'
           /\ PeerAt(p, "toggle") /\ <<Cpu(p)>>_profVars => PeerAt(p, "write")'
           /\ PeerAt(p, "write") /\ <<Cpu(p)>>_profVars => PeerAt(p, "unlock")'
           /\ PeerAt(p, "unlock") /\ <<Cpu(p)>>_profVars => (PeerAt(p, "idle") /\ CpuFree)'
BY DEF CpuOwned, ProfInv, ProfTypes, Cpu, CpuLock, Stop, Start, Write, CpuUnlock, Advance,
       PeerAt, CpuFree

CpuCanLock(p) == PeerAt(p, "lock") /\ CpuFree => ENABLED <<CpuLock(p)>>_profVars
CpuCanRun(p)  == (\/ PeerAt(p, "toggle") \/ PeerAt(p, "unlock")
                  \/ PeerAt(p, "write") /\ peer[p] # "stalls") => ENABLED <<Cpu(p)>>_profVars
CpuEnabled    == \A p \in Peer : CpuCanLock(p) /\ CpuCanRun(p)

LEMMA FairPeer ==
    ASSUME NEW p \in Peer
    PROVE  ProfSpec /\ []CpuEnabled => [](CpuCanLock(p) /\ CpuCanRun(p)) /\ CpuFair(p)
<1>1. CpuEnabled => CpuCanLock(p) /\ CpuCanRun(p)
  BY DEF CpuEnabled
<1>2. ProfFairness => CpuFair(p)
  BY DEF ProfFairness
<1> QED
  BY <1>1, <1>2, PTL DEF ProfSpec

\* Whoever holds sock.cpu gives it back and is through, or is blocked by its peer.
CpuFreedBy(p) == [](cpu = p => <>((PeerAt(p, "idle") /\ CpuFree) \/ CpuBlocked))
CpuFreed      == \A p \in Peer : cpu = p => <>((PeerAt(p, "idle") /\ CpuFree) \/ CpuBlocked)

LEMMA CpuHolderEnds == ASSUME NEW p \in Peer
                       PROVE  ProfSpec /\ []CpuEnabled => CpuFreedBy(p)
<1>1. CpuOwned /\ cpu = p => PeerAt(p, "toggle") \/ PeerAt(p, "write") \/ PeerAt(p, "unlock")
  BY DEF CpuOwned, ProfInv, ProfTypes, CpuHeld, PeerAt
<1>2. CpuOwned /\ PeerAt(p, "write") => CpuBlocked \/ peer[p] # "stalls"
  BY DEF CpuOwned, ProfInv, CpuHeld, PeerAt, CpuBlocked
<1> QED
  BY <1>1, <1>2, PeerMoves, PeerSteps, FairPeer, CpuInvariance, PTL
     DEF ProfSpec, CpuFair, CpuCanRun, CpuFreedBy

LEMMA CpuGetsFree == ProfSpec /\ []CpuEnabled => []<>(CpuFree \/ CpuBlocked)
<1>1. ProfSpec /\ []CpuEnabled => \A p \in Peer : CpuFreedBy(p)
  BY CpuHolderEnds
<1>2. (\A p \in Peer : CpuFreedBy(p)) => []CpuFreed
  BY DEF CpuFreedBy, CpuFreed
<1>3. ASSUME NEW p \in Peer
      PROVE  <>((PeerAt(p, "idle") /\ CpuFree) \/ CpuBlocked) => <>(CpuFree \/ CpuBlocked)
  BY PTL
<1>4. CpuFreed => ((\E p \in Peer : cpu = p) => <>(CpuFree \/ CpuBlocked))
  BY <1>3 DEF CpuFreed
<1>5. CpuOwned => CpuFree \/ \E p \in Peer : cpu = p
  BY DEF CpuOwned, CpuFree
<1> QED
  BY <1>1, <1>2, <1>4, <1>5, CpuInvariance, PTL

LEMMA CpuCommandPasses ==
    ASSUME NEW p \in Peer
    PROVE  ProfSpec /\ []CpuEnabled => (PeerAt(p, "lock") ~> PeerAt(p, "idle") \/ CpuBlocked)
<1>1. CpuOwned /\ PeerAt(p, "toggle") => cpu = p
  BY DEF CpuOwned, ProfInv, CpuHeld, PeerAt
<1> QED
  BY <1>1, PeerMoves, PeerSteps, FairPeer, CpuInvariance, CpuGetsFree, CpuHolderEnds, PTL
     DEF ProfSpec, CpuFair, CpuCanLock, CpuFreedBy

\* A command that toggles the CPU profile is carried out, for any number of
\* sessions that compete for sock.cpu, unless a peer being answered does not read.
THEOREM CpuCommandsEnd == ProfSpec /\ []CpuEnabled => CpuCommandEnds
<1>1. ProfSpec /\ []CpuEnabled => \A p \in Peer : (PeerAt(p, "lock") ~> PeerAt(p, "idle") \/ CpuBlocked)
  BY CpuCommandPasses
<1> QED
  BY <1>1 DEF PeerAt, CpuBlocked, CpuCommandEnds
----------------------------------------------------------------------------
(* Starting and stopping *)

\* Each copy of the WaitGroup counts the goroutines that joined that copy.
Counted ==
    /\ wg["main"] = 0
    /\ wg["sock"] = 2 * Holding(unix = "accept") + Holding(tcp = "accept")
                      + Holding(closer \in {"wait", "closing", "closed"})
    /\ wg["web"] = Holding(httpd = "serve")
                      + Holding(web \in {"wait", "draining", "stopped"})

\* No goroutine is there before the one that spawns it.
Spawned == /\ main = "sockets" => unix = "off" /\ tcp = "off"
           /\ main \in {"sockets", "web"} => web = "off"
           /\ unix \in {"off", "start"} => closer = "off"
           /\ web \in {"off", "start"} => httpd = "off"

IInv == TypeOK /\ Counted /\ Spawned /\ OneToken /\ FileWhileServing

\* The WaitGroups of a new process.
LEMMA NewGroup ==
    LET w == [main |-> 0, sock |-> 0, web |-> 0]
    IN  /\ w \in [{"main", "sock", "web"} -> 0..4]
        /\ w["main"] = 0 /\ w["sock"] = 0 /\ w["web"] = 0
OBVIOUS

\* A started process satisfies the invariant.
LEMMA InitInv == ASSUME Init PROVE IInv
<1>1. wg \in [{"main", "sock", "web"} -> 0..4] /\ wg["main"] = 0
      /\ wg["sock"] = 0 /\ wg["web"] = 0
  BY NewGroup DEF Init, Boot
<1> QED
  BY <1>1, LifecycleAssumption
  DEF Init, Boot, IInv, TypeOK, Counted, Spawned, OneToken, FileWhileServing,
      Holding, Alive, Ended

\* Every step keeps the invariant, one action at a time.
LEMMA StepInv == ASSUME IInv, [Next]_vars PROVE IInv'
<1> USE LifecycleAssumption DEF IInv, TypeOK, Counted, Spawned, OneToken,
            FileWhileServing, Holding, Alive, Ended, Goes, Add, Done
<1>1. CASE NewSocketHandler BY <1>1 DEF NewSocketHandler
<1>2. CASE StartWeb BY <1>2 DEF StartWeb
<1>3. CASE Notify BY <1>3 DEF Notify
<1>4. CASE SendStop BY <1>4 DEF SendStop
<1>5. CASE Exit BY <1>5 DEF Exit
<1>6. CASE Signal BY <1>6 DEF Signal
<1>7. CASE Kill BY <1>7 DEF Kill
<1>8. CASE UnixListen
  <2>1. CASE file /\ Fatal BY <2>1 DEF Fatal
  <2>2. CASE /\ Alive /\ unix = "start" /\ ~file /\ file' = TRUE
             /\ Add("sock", 2) /\ unix' = "accept" /\ closer' = "start"
             /\ UNCHANGED <<main, chan, tcp, web, httpd, active>>
    <3>1. /\ wg'["main"] = wg["main"] /\ wg'["web"] = wg["web"]
          /\ wg'["sock"] = wg["sock"] + 2
          /\ wg["sock"] = Holding(tcp = "accept")
      BY <2>2
    <3>2. wg' \in [{"main", "sock", "web"} -> 0..4]
      BY <2>2, <3>1
    <3> QED BY <2>2, <3>1, <3>2
  <2> QED BY <1>8, <2>1, <2>2 DEF UnixListen
<1>9. CASE UnixClosed BY <1>9 DEF UnixClosed
<1>10. CASE CloserWaits BY <1>10 DEF CloserWaits
<1>11. CASE CloserReceives BY <1>11 DEF CloserReceives
<1>12. CASE CloseUnix
  <2>1. /\ closer = "closing" /\ closer' = "closed" /\ ~file' /\ file' \in BOOLEAN
        /\ UNCHANGED <<main, chan, wg, unix, tcp, web, httpd, active>>
    BY <1>12 DEF CloseUnix
  <2>2. Counted' /\ Spawned' /\ OneToken'
    BY <2>1
  <2>3. TypeOK' /\ FileWhileServing'
    BY <2>1
  <2> QED BY <2>2, <2>3
<1>13. CASE CloserPutsBack BY <1>13 DEF CloserPutsBack
<1>14. CASE TcpListen BY <1>14 DEF TcpListen, Fatal
<1>15. CASE WebWaits BY <1>15 DEF WebWaits
<1>16. CASE Listen BY <1>16 DEF Listen, ShuttingDown, Fatal
<1>17. CASE ListenReturns BY <1>17 DEF ListenReturns, ShuttingDown
<1>18. CASE Request BY <1>18 DEF Request, ShuttingDown
<1>19. CASE Respond BY <1>19 DEF Respond
<1>20. CASE WebReceives BY <1>20 DEF WebReceives
<1>21. CASE Shutdown BY <1>21 DEF Shutdown, Fatal
<1>22. CASE WebPutsBack BY <1>22 DEF WebPutsBack
<1>23. CASE Restart BY <1>23, NewGroup DEF Restart
<1>24. CASE UNCHANGED vars BY <1>24 DEF vars
<1> QED BY <1>1, <1>2, <1>3, <1>4, <1>5, <1>6, <1>7, <1>8, <1>9, <1>10, <1>11,
           <1>12, <1>13, <1>14, <1>15, <1>16, <1>17, <1>18, <1>19, <1>20,
           <1>21, <1>22, <1>23, <1>24
        DEF Next, MainStep, UnixStep, CloserStep, WebStep, HttpdStep

\* The invariant holds in every state of every sequence of processes.
THEOREM LifecycleInvariance == Spec => []IInv
BY InitInv, StepInv, PTL DEF Spec

\* Types, and no copy of the WaitGroup is Done more often than Added.
THEOREM LifecycleTypes == Spec => []TypeOK
BY LifecycleInvariance, PTL DEF IInv

\* The stop token is conserved: whoever takes it puts it back into an empty
\* channel, one waiter stops at a time and none before the signal.
THEOREM StopToken == Spec => []OneToken
BY LifecycleInvariance, PTL DEF IInv

\* A served unix socket has its file, a closed one has left none.
THEOREM SocketFile == Spec => []FileWhileServing
BY LifecycleInvariance, PTL DEF IInv

(* A signal ends the process.  MainEnabled is a hypothesis for the reason    *)
(* MemEnabled is one.                                                        *)

MainAt(s) == main = s

MainEnabled ==
    (main = "signalled" /\ chan < 1) \/ (main = "waiting" /\ wg["main"] = 0)
        => ENABLED <<MainStep>>_vars

\* Only main's own steps take it on from a signal, or whatever ends the process.
LEMMA MainMoves ==
    ASSUME IInv, [Next]_vars
    PROVE  /\ MainAt("signalled") => MainAt("signalled")' \/ MainAt("waiting")' \/ (~Alive)'
           /\ MainAt("waiting") => MainAt("waiting")' \/ (~Alive)'
BY DEF IInv, Next, vars, MainStep, NewSocketHandler, StartWeb, Notify, SendStop, Exit, Goes,
       UnixStep, UnixListen, UnixClosed, CloserStep, CloserWaits, CloserReceives, CloseUnix,
       CloserPutsBack, TcpListen, WebStep, WebWaits, WebReceives, Shutdown, WebPutsBack,
       HttpdStep, Listen, ListenReturns, Request, Respond, Signal, Kill, Restart, Fatal,
       MainAt, Alive, Ended

LEMMA MainSteps ==
    ASSUME IInv
    PROVE  /\ MainAt("signalled") /\ <<MainStep>>_vars => MainAt("waiting")'
           /\ MainAt("waiting") /\ <<MainStep>>_vars => (~Alive)'
BY DEF MainStep, NewSocketHandler, StartWeb, Notify, SendStop, Exit, Goes, MainAt, Alive,
       Ended

\* A serving process that gets a signal ends: stop_chan is empty when main sends
\* the token, whatever goroutines there are, and main's own WaitGroup is never
\* added to.
THEOREM SignalsEnd == Spec /\ []MainEnabled => SignalEndsProcess
<1>1. /\ IInv /\ MainAt("signalled") => main = "signalled" /\ chan < 1
      /\ IInv /\ MainAt("waiting") => main = "waiting" /\ wg["main"] = 0
  BY DEF IInv, TypeOK, OneToken, Counted, Holding, Alive, Ended, MainAt
<1>2. MainAt("signalled") <=> main = "signalled"
  BY DEF MainAt
<1> QED
  BY <1>1, <1>2, MainMoves, MainSteps, LifecycleInvariance, PTL
     DEF Spec, Fairness, MainEnabled, SignalEndsProcess
----------------------------------------------------------------------------
(* The settings of a start *)

\* What is known of the settings at each point of main.  The file is there as
\* soon as it says anything, and is not written when it was (Written); the logs
\* go where -logfile says until NewNDBServer (Logged); the level is the one of
\* the environment as it is spelt, then as ToUpper leaves it, and INFO when it
\* says nothing, also after createDefaultConfigFile has set it again (Levelled).
CfgTypes == /\ flag \in LogName \cup {Unset} /\ opens \subseteq LogName
            /\ at \in {"off", "stat", "defaults", "create", "fill", "read", "envs",
                       "init", "factory", "run"}

Written == /\ disk = "absent" => saved = Empty
           /\ at \in {"defaults", "create"} => disk = "absent"
           /\ at = "fill" => saved.pass = Unset

Logged == at \notin {"off", "run"} => LogFile = IF flag \in opens THEN flag ELSE Unset

Levelled ==
    /\ at \in {"stat", "defaults", "create", "fill", "read", "envs"} =>
          (env.level = Unset => level = 1)
    /\ at \in {"init", "factory"} =>
          level = IF env.level = Unset THEN 1 ELSE GetLOGLEVEL(ToUpper(env.level))

CfgInv == /\ CfgTypes /\ Written /\ Logged /\ Levelled
          /\ at = "factory" => sub_dicks \in AvailSubDicks
          /\ SettingsInForce

\* The level a default sets, and what an empty file says.
LEMMA LevelOfInfo == GetLOGLEVEL("INFO") = 1
BY DEF GetLOGLEVEL

LEMMA EmptyHasNoPass == Empty.pass = Unset
BY DEF Empty

\* The first start finds nothing.
LEMMA CfgInitInv == ASSUME CfgInit PROVE CfgInv
BY EmptyHasNoPass
DEF CfgInit, CfgInv, CfgTypes, Written, Logged, Levelled, SettingsInForce,
    SubDicksValid, LogFileInForce, LevelInForce

\* A step that ends where nothing is in force yet has the other parts to keep.
LEMMA NotInForce == ASSUME at' # "run" PROVE SettingsInForce'
BY DEF SettingsInForce, SubDicksValid, LogFileInForce, LevelInForce

\* Every step keeps the invariant, one action at a time.
LEMMA CfgStepInv == ASSUME CfgInv, [CfgNext]_cfgVars PROVE CfgInv'
<1> USE DEF CfgInv, CfgTypes, Written, Logged, Levelled
<1>1. CASE NewLogger
  <2>1. PICK s \in SubDicks \cup {Unset, Blank}, l \in LevelName \cup {Unset, Blank},
             n \in LogName \cup {Unset, Blank} :
            /\ env' = [Empty EXCEPT !.sub = s, !.level = l, !.log = n]
            /\ level' = IF l = Unset THEN 1 ELSE GetLOGLEVEL(l)
    BY <1>1 DEF NewLogger
  <2>2. env'.level = Unset => level' = 1
    BY <2>1 DEF Empty
  <2> QED
    BY <1>1, <2>2, NotInForce DEF NewLogger, sys
<1>2. CASE FindFile
  BY <1>2, NotInForce DEF FindFile, sys, start, viper, logger, out
<1>3. CASE SetDefaults
  <2>1. level' = 1
    BY <1>3, LevelOfInfo DEF SetDefaults
  <2> QED
    BY <1>3, <2>1, NotInForce DEF SetDefaults, sys, start, out
<1>4. CASE CreateFile
  BY <1>4, EmptyHasNoPass, NotInForce DEF CreateFile, sys, start, viper, logger, out
<1>5. CASE FillFile
  BY <1>5, NotInForce DEF FillFile, sys, start, viper, logger, out
<1>6. CASE ReadInConfig
  BY <1>6, NotInForce DEF ReadInConfig, MemoryGone, sys, start, logger, out
<1>7. CASE ReadConfigsFromEnvs
  BY <1>7, NotInForce DEF ReadConfigsFromEnvs, sys, start, out
<1>8. CASE initDB
  BY <1>8, ConfigAssumption, NotInForce DEF initDB, sys, start, viper, logger
<1>9. CASE NewNDBServer
  <2>1. Get("log")' = Get("log")
    BY <1>9 DEF NewNDBServer, viper, Get
  <2>2. /\ at = "factory" /\ at' = "run" /\ UNCHANGED <<disk, saved, env, flag, opens>>
        /\ UNCHANGED <<level, sub_dicks>>
        /\ LogFile' = LogStart(LogFile, Get("log"))
    BY <1>9 DEF NewNDBServer, sys, start, out
  <2>3. SubDicksValid' /\ LevelInForce'
    BY <2>2 DEF SubDicksValid, LevelInForce
  <2>4. LogFileInForce'
    BY <2>1, <2>2, ConfigAssumption DEF LogFileInForce, LogStart
  <2> QED
    BY <2>2, <2>3, <2>4 DEF SettingsInForce
<1>10. CASE ProcessEnds
  BY <1>10, NotInForce DEF ProcessEnds, MemoryGone, sys
<1>11. CASE Edit
  BY <1>11, NotInForce DEF Edit, start, viper, logger, out
<1>12. CASE UNCHANGED cfgVars
  BY <1>12 DEF cfgVars, sys, start, viper, logger, out, SettingsInForce,
               SubDicksValid, LogFileInForce, LevelInForce, Get
<1> QED
  BY <1>1, <1>2, <1>3, <1>4, <1>5, <1>6, <1>7, <1>8, <1>9, <1>10, <1>11, <1>12
  DEF CfgNext

\* The inductive invariant of the settings.
THEOREM SettingsInvariance == CfgSpec => []CfgInv
BY CfgInitInv, CfgStepInv, PTL DEF CfgSpec

\* A running server has what the flag, the environment, the file and the
\* defaults say, in their order, after any starts that were cut short.
THEOREM SettingsApply == CfgSpec => []SettingsInForce
BY SettingsInvariance, PTL DEF CfgInv

\* A start never overwrites credentials that were written: the file is created
\* only where none was, and filled only while it has none.
THEOREM CredentialsSurvive == CfgSpec => CredentialsKept
<1>1. ASSUME CfgInv, [CfgNext]_cfgVars, at # "off", saved.pass # Unset
      PROVE  saved'.pass = saved.pass
  <2>1. CASE CreateFile
    BY <1>1, <2>1, EmptyHasNoPass DEF CreateFile, CfgInv, Written, sys
  <2>2. CASE FillFile
    BY <1>1, <2>2 DEF FillFile, CfgInv, Written
  <2>3. CASE UNCHANGED saved
    BY <2>3
  <2> QED
    BY <1>1, <2>1, <2>2, <2>3
    DEF CfgNext, NewLogger, FindFile, SetDefaults, ReadInConfig,
        ReadConfigsFromEnvs, initDB, NewNDBServer, ProcessEnds, MemoryGone, Edit, cfgVars, sys
<1>2. CfgInv /\ [CfgNext]_cfgVars =>
          [at # "off" /\ saved.pass # Unset => saved'.pass = saved.pass]_cfgVars
  BY <1>1
<1> QED
  BY <1>2, SettingsInvariance, PTL DEF CfgSpec, CredentialsKept
=============================================================================

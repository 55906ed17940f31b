------------------------------ MODULE Profiles ------------------------------
(***************************************************************************)
(* The profiling commands of the unix socket (src/server/socket.go,        *)
(* handleSocketConn): "1" queues a memory profile behind the mutex         *)
(* sock.mem, in a goroutine of its own; "2" starts or stops the CPU        *)
(* profile and answers the peer, all under the mutex sock.cpu.             *)
(*                                                                         *)
(* The profiler is a library: Prof is taken to be set (-pprof given).      *)
(***************************************************************************)
EXTENDS Naturals, FiniteSets

CONSTANTS Peer,     \* sessions on the unix socket
          Job       \* bound: memory profiles queued or running at once

NoOne == "nobody"

ASSUME ProfilesAssumption == NoOne \notin Peer \cup Job

VARIABLES pc,         \* where a session is in the handler of "2"
          answer,     \* what it is about to write, or "none"
          peer,       \* "reads", "stalls" (its buffers are full), "gone"
          cpu,        \* holder of sock.cpu
          CPUfile,    \* sock.CPUfile # nil
          profiling,  \* the CPU profiler runs
          job,        \* where a goroutine of "1" is
          mem         \* holder of sock.mem

cpuVars  == <<pc, answer, peer, cpu, CPUfile, profiling>>
memVars  == <<job, mem>>
profVars == <<pc, answer, peer, cpu, CPUfile, profiling, job, mem>>

ProfInit == /\ pc = [p \in Peer |-> "idle"]
            /\ answer = [p \in Peer |-> "none"]
            /\ peer = [p \in Peer |-> "reads"]
            /\ cpu = NoOne /\ CPUfile = FALSE /\ profiling = FALSE
            /\ job = [j \in Job |-> "none"]
            /\ mem = NoOne

Advance(p, from, to) == pc[p] = from /\ pc' = [pc EXCEPT ![p] = to]
Move(j, from, to) == job[j] = from /\ job' = [job EXCEPT ![j] = to]
----------------------------------------------------------------------------
(* "2": the CPU profile *)

\* A line the peer sent before it stalled or went may still be read.
CpuCommand(p) == /\ Advance(p, "idle", "lock")
                 /\ UNCHANGED <<answer, peer, cpu, CPUfile, profiling, memVars>>

\* Mutant: the handler takes no lock.
CpuLockNone(p) == /\ Advance(p, "lock", "toggle")
                  /\ UNCHANGED <<answer, peer, cpu, CPUfile, profiling, memVars>>

CpuLock(p) == /\ Advance(p, "lock", "toggle")
              /\ cpu = NoOne /\ cpu' = p
              /\ UNCHANGED <<answer, peer, CPUfile, profiling, memVars>>

\* The profile is stopped and the reply written before the file is forgotten.
Stop(p) == /\ Advance(p, "toggle", "write") /\ CPUfile
           /\ profiling' = FALSE
           /\ answer' = [answer EXCEPT ![p] = "200 Stop"]
           /\ UNCHANGED <<peer, cpu, CPUfile, memVars>>

\* A start may fail (the file cannot be created): 400, and no file is kept.
Start(p) == /\ Advance(p, "toggle", "write") /\ ~CPUfile
            /\ \E started \in BOOLEAN :
                  /\ profiling' = started /\ CPUfile' = started
                  /\ answer' = [answer EXCEPT
                                 ![p] = IF started THEN "200 Start" ELSE "400 ERR"]
            /\ UNCHANGED <<peer, cpu, memVars>>

\* PrintfLine returns once the peer has read, or has gone: its error is ignored.
Write(p) == /\ Advance(p, "write", "unlock") /\ peer[p] # "stalls"
            /\ CPUfile' = (CPUfile /\ answer[p] # "200 Stop")
            /\ UNCHANGED <<answer, peer, cpu, profiling, memVars>>

\* Mutant: the failed write ends the session with the lock held.
CpuUnlockNotGone(p) ==
    /\ Advance(p, "unlock", "idle")
    /\ answer' = [answer EXCEPT ![p] = "none"]
    /\ cpu' = IF peer[p] = "gone" THEN cpu ELSE NoOne
    /\ UNCHANGED <<peer, CPUfile, profiling, memVars>>

CpuUnlock(p) == /\ Advance(p, "unlock", "idle")
                /\ answer' = [answer EXCEPT ![p] = "none"]
                /\ cpu' = NoOne
                /\ UNCHANGED <<peer, CPUfile, profiling, memVars>>

\* A peer stops reading and reads again, or goes, at any time; one that comes
\* back has a new session.
PeerBecomes(p, from, to) == /\ peer[p] = from /\ peer' = [peer EXCEPT ![p] = to]
                            /\ UNCHANGED <<pc, answer, cpu, CPUfile, profiling, memVars>>
Stall(p)     == PeerBecomes(p, "reads", "stalls")
Resume(p)    == PeerBecomes(p, "stalls", "reads")
Hangup(p)    == PeerBecomes(p, "reads", "gone") \/ PeerBecomes(p, "stalls", "gone")
Reconnect(p) == pc[p] = "idle" /\ PeerBecomes(p, "gone", "reads")
----------------------------------------------------------------------------
(* "1": a memory profile, after a wait, both with the lock held *)

MemCommand(j) == Move(j, "none", "queued") /\ UNCHANGED <<mem, cpuVars>>

MemLock(j) == /\ Move(j, "queued", "waits")
              /\ mem = NoOne /\ mem' = j
              /\ UNCHANGED cpuVars

StartMemProfile(j) == Move(j, "waits", "runs") /\ UNCHANGED <<mem, cpuVars>>

\* Mutant: the goroutine returns without unlocking.
MemUnlockForgotten(j) == Move(j, "runs", "none") /\ UNCHANGED <<mem, cpuVars>>

MemUnlock(j) == /\ Move(j, "runs", "none")
                /\ mem' = NoOne
                /\ UNCHANGED cpuVars
----------------------------------------------------------------------------
Cpu(p) == CpuLock(p) \/ Stop(p) \/ Start(p) \/ Write(p) \/ CpuUnlock(p)
Mem(j) == MemLock(j) \/ StartMemProfile(j) \/ MemUnlock(j)

ProfNext == \/ \E p \in Peer : \/ CpuCommand(p) \/ Cpu(p)
                               \/ Stall(p) \/ Resume(p) \/ Hangup(p) \/ Reconnect(p)
            \/ \E j \in Job : MemCommand(j) \/ Mem(j)

\* A goroutine that can run does, and a waiter on a Go mutex gets it in the end
\* (starvation mode).  Nothing makes a stalled peer read.
CpuFair(p) == WF_profVars(Cpu(p)) /\ SF_profVars(CpuLock(p))
MemFair(j) == WF_profVars(Mem(j)) /\ SF_profVars(MemLock(j))

ProfFairness == (\A p \in Peer : CpuFair(p)) /\ (\A j \in Job : MemFair(j))

ProfSpec == ProfInit /\ [][ProfNext]_profVars /\ ProfFairness
----------------------------------------------------------------------------
(* Properties *)

\* Between commands the server's idea of the CPU profile is the profiler's: a
\* toggle starts a profile that is off and stops one that is on, whoever sent
\* the commands and whichever of the peers hung up before its reply.
FileAgrees == cpu = NoOne => CPUfile = profiling

\* What a peer is told is still so when its reply is written, although others
\* toggle the same profile.
AnswerHolds == \A p \in Peer : /\ answer[p] = "200 Start" => profiling
                               /\ answer[p] \in {"200 Stop", "400 ERR"} => ~profiling

\* The CPU profile is what the server holds it to be and what the peers are told.
ToggleAgrees == FileAgrees /\ AnswerHolds

\* "further calls lockin and run when running one finishes"
\* (src/server/socket.go:615): each queued profile is run.
QueuedProfileRuns == \A j \in Job : job[j] = "queued" ~> job[j] = "runs"

\* A CPU command is carried out, whether or not its peer hangs up, unless the
\* peer being answered does not read: its reply is written with the lock held.
CpuCommandEnds ==
    \A p \in Peer : pc[p] = "lock" ~>
        (pc[p] = "idle" \/ \E q \in Peer : cpu = q /\ peer[q] = "stalls")
=============================================================================

------------------------------- MODULE XDick -------------------------------
(***************************************************************************)
(* The XDICK under concurrent calls (src/database/operations.go): every    *)
(* goroutine that serves a socket or an HTTP request calls Get, Set and    *)
(* Del.  A call picks the sub-dictionary of its key, locks its submux,     *)
(* works on the two tables in several steps, and unlocks on return.        *)
(*                                                                         *)
(* Set looks a key up and then, in a second step, overwrites or adds: what *)
(* get saw must still hold there.                                          *)
(***************************************************************************)
EXTENDS DickOps

CONSTANTS Client,     \* goroutines that use the database
          SubCount,   \* number of sub-dictionaries
          Route,      \* pcas.String(key) % SubCount
          HashOf,     \* the hash function of the process
          Nil, Free

ASSUME XDickAssumption == /\ SubCount \in Nat \ {0}
                          /\ Route \in [Key -> 0..SubCount-1]
                          /\ HashOf \in [Key -> Nat]
                          /\ Absent \notin Value
                          /\ Free \notin Client

VARIABLES SubDICKs,   \* the sub-dictionaries
          submux,     \* their locks: the goroutine that holds it, or Free
          pc,         \* where each goroutine is in its call
          call, ret   \* each goroutine's call, and what it is about to return

xvars == <<SubDICKs, submux, pc, call, ret>>

Sub == 0..SubCount-1

Calls == [op : {"Get", "Del"}, key : Key] \cup
         [op : {"Set"}, key : Key, value : Value]

NoCall == [op |-> "none"]

NewXDICK == [i \in Sub |-> NewSubDICK]

XInit == /\ SubDICKs = NewXDICK
         /\ submux = [i \in Sub |-> Free]
         /\ pc = [c \in Client |-> "idle"]
         /\ call = [c \in Client |-> NoCall]
         /\ ret = [c \in Client |-> Nil]

idx(c) == Route[call[c].key]

Goes(c, from, to) == pc[c] = from /\ pc' = [pc EXCEPT ![c] = to]

Does(c, d, r) == /\ SubDICKs' = [SubDICKs EXCEPT ![idx(c)] = d]
                 /\ ret' = [ret EXCEPT ![c] = r]
                 /\ UNCHANGED <<submux, call>>

Enter(c, o) == /\ Goes(c, "idle", "lock")
               /\ call' = [call EXCEPT ![c] = o]
               /\ UNCHANGED <<SubDICKs, submux, ret>>

\* Mutant: the lock does not wait.
LockAtOnce(c) == /\ Goes(c, "lock", call[c].op)
                 /\ submux' = [submux EXCEPT ![idx(c)] = c]
                 /\ UNCHANGED <<SubDICKs, call, ret>>

Lock(c) == /\ Goes(c, "lock", call[c].op)
           /\ submux[idx(c)] = Free
           /\ submux' = [submux EXCEPT ![idx(c)] = c]
           /\ UNCHANGED <<SubDICKs, call, ret>>

DoGet(c) == LET d == SubDICKs[idx(c)]
                k == call[c].key
            IN  /\ Goes(c, "Get", "unlock")
                /\ Does(c, d, IF Finds(HashOf, k, d) THEN get(HashOf, k, d) ELSE Nil)

DoDel(c) == LET d == SubDICKs[idx(c)]
                k == call[c].key
            IN  /\ Goes(c, "Del", "unlock")
                /\ Does(c, del(HashOf, k, d),
                        IF delFinds(HashOf, k, d) THEN "ok" ELSE "entry not found")

\* entry := d.get(idx, key), and the branch on it.
SetLookup(c) ==
    /\ Goes(c, "Set", IF Finds(HashOf, call[c].key, SubDICKs[idx(c)])
                      THEN "overwrite" ELSE "add")
    /\ UNCHANGED <<SubDICKs, submux, call, ret>>

SetOverwrite(c) ==
    /\ Goes(c, "overwrite", "unlock")
    /\ Does(c, overwrite(HashOf, call[c].key, call[c].value, SubDICKs[idx(c)]), "ok")

SetAdd(c) ==
    LET d == SubDICKs[idx(c)]
        k == call[c].key
    IN  /\ Goes(c, "add", "unlock")
        /\ Does(c, add(HashOf, k, call[c].value, d),
                IF addFails(HashOf, k, d) THEN "unexpectedly found" ELSE "ok")

\* Mutant: a path that returns without unlocking.
ReturnLocked(c) == /\ Goes(c, "unlock", "idle")
                   /\ call' = [call EXCEPT ![c] = NoCall]
                   /\ ret' = [ret EXCEPT ![c] = Nil]
                   /\ UNCHANGED <<SubDICKs, submux>>

\* The deferred Unlock, and the return to the caller.
Unlock(c) == /\ Goes(c, "unlock", "idle")
             /\ submux' = [submux EXCEPT ![idx(c)] = Free]
             /\ call' = [call EXCEPT ![c] = NoCall]
             /\ ret' = [ret EXCEPT ![c] = Nil]
             /\ UNCHANGED SubDICKs

Working(c) == \/ DoGet(c) \/ DoDel(c) \/ SetLookup(c)
              \/ SetOverwrite(c) \/ SetAdd(c) \/ Unlock(c)

XNext == \E c \in Client : \/ \E o \in Calls : Enter(c, o)
                           \/ Lock(c)
                           \/ Working(c)

\* A goroutine that can run is scheduled, and a Lock that waits long enough is
\* handed the mutex (the starvation mode of sync.Mutex): hence SF for Lock.
CallFair(c) == WF_xvars(Working(c)) /\ SF_xvars(Lock(c))

XFairness == \A c \in Client : CallFair(c)

XSpec == XInit /\ [][XNext]_xvars /\ XFairness

----------------------------------------------------------------------------
(* Properties *)

InCall == {"Get", "Set", "Del", "overwrite", "add", "unlock"}

\* The types; no Set ever returns the error of add for a key it did not find.
XTypeOK == /\ \A i \in Sub : DickTypeOK(SubDICKs[i])
           /\ submux \in [Sub -> Client \cup {Free}]
           /\ pc \in [Client -> {"idle", "lock"} \cup InCall]
           /\ call \in [Client -> Calls \cup {NoCall}]
           /\ ret \in [Client -> Value \cup {Nil, "ok", "entry not found"}]

\* A goroutine works on a sub-dictionary only while it holds its submux, and a
\* submux is held by no goroutine that has finished its call.
LockHeld == \A i \in Sub, c \in Client :
                submux[i] = c <=> pc[c] \in InCall /\ idx(c) = i

\* What get saw still holds when Set acts on it: the entry it overwrites is
\* still linked, the key it adds is still absent.
LookupStaysTrue ==
    \A c \in Client :
        LET found == Finds(HashOf, call[c].key, SubDICKs[idx(c)]) IN
        /\ pc[c] = "overwrite" => found
        /\ pc[c] = "add" => ~found

\* Every sub-dictionary stays well-formed under concurrent calls, and holds
\* only keys that are routed to it.
SubDICKsOK ==
    \A i \in Sub :
        LET d == SubDICKs[i] IN
        /\ AtHome(HashOf, d.main) /\ AtHome(HashOf, d.rehashing)
        /\ OneEntryPerKey(d.main) /\ OneEntryPerKey(d.rehashing)
        /\ KeysIn(d.main) \cap KeysIn(d.rehashing) = {}
        /\ UsedExact(d.main) /\ UsedExact(d.rehashing)
        /\ CursorOK(d) /\ LoadOK(d)
        /\ \A k \in KeysIn(d.main) \cup KeysIn(d.rehashing) : Route[k] = i

\* Every call returns, however many others compete for its sub-dictionary.
EveryCallReturns == \A c \in Client : pc[c] = "lock" ~> pc[c] = "idle"

Phase(p) == CASE p = "idle" -> "idle"
              [] p = "unlock" -> "done"
              [] OTHER -> "pending"

Service == INSTANCE KVService
               WITH kv <- [k \in Key |-> Contents(SubDICKs[Route[k]])[k]],
                    phase <- [c \in Client |-> Phase(pc[c])]

\* Concurrent Get, Set and Del are linearizable: each takes effect at one
\* instant of its critical section, on one map.
Linearizable == Service!SSpec
=============================================================================

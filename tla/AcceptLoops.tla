---------------------------- MODULE AcceptLoops ----------------------------
(***************************************************************************)
(* The three accept loops of SOCKET.Start and the access control list      *)
(* (src/server/socket.go).  The loops share the counter sock.id: a loop    *)
(* adds to it under sock.mux and reads it again after the unlock, when     *)
(* another loop may have added too.  Each pass of a loop starts a session  *)
(* goroutine (SocketSession) or turns the peer away.                       *)
(*                                                                         *)
(* Listening, closing and shutdown are in Lifecycle.                       *)
(***************************************************************************)
EXTENDS Integers, FiniteSets

CONSTANTS Address,     \* addresses peers connect from, as getRemoteIP prints them
          DefaultACL,  \* addresses of the package variable, when it is set
          MaxConns     \* bound: peers admitted

Loop == {"unix", "tcp", "tls"}
NoConn == [addr |-> "none"]
Conn   == [addr : Address]

ASSUME AcceptAssumption == /\ DefaultACL \subseteq Address
                           /\ MaxConns \in Nat

VARIABLES acl,       \* AccessControlList.acl: the addresses mapped to true
          lpc,       \* "boot", "off", "accept", "admit", "count", "start", "closed"
          conn,      \* the connection of this pass
          id,        \* sock.id
          sessions,  \* the sessions started: their loop, id, address and, for
                     \* the properties, the value the loop's own id++ gave
          own,       \* that value
          panicked

acceptVars == <<acl, lpc, conn, id, sessions, own, panicked>>

AcceptInit == /\ acl = {}
              /\ lpc = [l \in Loop |-> "boot"]
              /\ conn = [l \in Loop |-> NoConn]
              /\ id = 0 /\ sessions = {}
              /\ own = [l \in Loop |-> 0]
              /\ panicked = FALSE

----------------------------------------------------------------------------
(* NewSocketHandler *)

\* SetupACL, and SetACL(ip, true) for the configured list.
SetACL(list) == DefaultACL \cup list

\* No loop runs before the list is complete.  An empty socket path, or TLS not
\* enabled, leaves that loop off.
BootLoops == /\ \A l \in Loop : lpc[l] = "boot"
             /\ \E list \in SUBSET Address : acl' = SetACL(list)
             /\ \E on \in SUBSET Loop :
                   lpc' = [l \in Loop |-> IF l \in on \cup {"tcp"} THEN "accept" ELSE "off"]
             /\ UNCHANGED <<conn, id, sessions, own, panicked>>

----------------------------------------------------------------------------
(* One pass of a loop *)

Goto(l, from, to) == lpc[l] = from /\ lpc' = [lpc EXCEPT ![l] = to]

Accept(l) == /\ Goto(l, "accept", IF l = "unix" THEN "count" ELSE "admit")
             /\ id < MaxConns
             /\ \E c \in Conn : conn' = [conn EXCEPT ![l] = c]
             /\ UNCHANGED <<acl, id, sessions, own, panicked>>

\* Accept returns an error.  Over TCP and TLS getRemoteIP is called on the nil
\* connection before err is looked at, and the process ends.
AcceptFails(l) == /\ lpc[l] = "accept"
                  /\ panicked' = (l # "unix")
                  /\ UNCHANGED <<acl, lpc, conn, id, sessions, own>>

\* Mutant: the list is not consulted over TLS.
CheckTcpOnly(l) ==
    /\ Goto(l, "admit", IF l = "tls" \/ conn[l].addr \in acl
                        THEN "count" ELSE "accept")
    /\ UNCHANGED <<acl, conn, id, sessions, own, panicked>>

\* checkACL: a peer that is not listed is closed.
Check(l) == /\ Goto(l, "admit", IF conn[l].addr \in acl THEN "count" ELSE "accept")
            /\ UNCHANGED <<acl, conn, id, sessions, own, panicked>>

\* sock.mux.Lock(); sock.id++; sock.mux.Unlock()
Count(l) == /\ Goto(l, "count", "start")
            /\ id' = id + 1
            /\ own' = [own EXCEPT ![l] = id']
            /\ UNCHANGED <<acl, conn, sessions, panicked>>

Started(l, n) == [loop |-> l, id |-> n, addr |-> conn[l].addr, own |-> own[l]]

\* Mutant: the id is read once, when the loop starts.
StartSessionStale(l) ==
    /\ Goto(l, "start", "accept")
    /\ sessions' = sessions \cup {Started(l, 1)}
    /\ UNCHANGED <<acl, conn, id, own, panicked>>

\* sock.id is read without the mutex: it may be another loop's value by now.
StartSession(l) == /\ Goto(l, "start", "accept")
                   /\ sessions' = sessions \cup {Started(l, id)}
                   /\ UNCHANGED <<acl, conn, id, own, panicked>>

\* The listener of the unix socket is closed; a closed TCP or TLS listener is a
\* failed Accept like any other.
Close == /\ Goto("unix", "accept", "closed")
         /\ UNCHANGED <<acl, conn, id, sessions, own, panicked>>

Pass(l) == Accept(l) \/ AcceptFails(l) \/ Check(l) \/ Count(l) \/ StartSession(l)

AcceptNext == /\ ~panicked
              /\ BootLoops \/ Close \/ \E l \in Loop : Pass(l)

AcceptSpec == AcceptInit /\ [][AcceptNext]_acceptVars
----------------------------------------------------------------------------
(* Properties *)

\* The types.
AcceptTypeOK ==
    /\ acl \subseteq Address
    /\ lpc \in [Loop -> {"boot", "off", "accept", "admit", "count", "start", "closed"}]
    /\ conn \in [Loop -> Conn \cup {NoConn}]
    /\ id \in 0..MaxConns + Cardinality(Loop)
    /\ sessions \subseteq [loop : Loop, id : Nat, addr : Address, own : Nat]
    /\ own \in [Loop -> Nat]

\* Whoever is served over TCP or TLS is on the list, although the loops run at
\* once and each serves many peers; the unix socket admits everyone.
OnlyListedServed == \A s \in sessions : s.loop # "unix" => s.addr \in acl

\* The ids of one loop grow: two sessions that share an id came from different
\* loops, so no more than three ever share one.
LoopIdsGrow ==
    \A s, t \in sessions : s.loop = t.loop /\ s.own < t.own => s.id < t.id

\* A session's id is the number of a connection counted so far, its own or a
\* later one, never one from before.
IdIsRecent == \A s \in sessions : s.own <= s.id /\ s.id <= id
=============================================================================

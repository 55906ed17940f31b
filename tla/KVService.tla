----------------------------- MODULE KVService -----------------------------
(***************************************************************************)
(* What the database promises to goroutines that call it concurrently: a   *)
(* call takes effect at one instant between its invocation and its return, *)
(* and returns what it saw at that instant.                                *)
(***************************************************************************)
CONSTANTS Key, Value, Absent, Nil, Client

VARIABLES kv,      \* the map all callers share
          phase,   \* per client: "idle", "pending" or "done"
          call,    \* per client: its call, while it is in one
          ret      \* per client: what its call is about to return

svars == <<kv, phase, call, ret>>

Calls == [op : {"Get", "Del"}, key : Key] \cup
         [op : {"Set"}, key : Key, value : Value]

NoCall == [op |-> "none"]

SInit == /\ kv = [k \in Key |-> Absent]
         /\ phase = [c \in Client |-> "idle"]
         /\ call = [c \in Client |-> NoCall]
         /\ ret = [c \in Client |-> Nil]

Invoke(c, o) == /\ phase[c] = "idle"
                /\ phase' = [phase EXCEPT ![c] = "pending"]
                /\ call' = [call EXCEPT ![c] = o]
                /\ UNCHANGED <<kv, ret>>

After(m, o) == CASE o.op = "Get" -> m
                 [] o.op = "Set" -> [m EXCEPT ![o.key] = o.value]
                 [] o.op = "Del" -> [m EXCEPT ![o.key] = Absent]

Result(m, o) == CASE o.op = "Set" -> "ok"
                  [] o.op = "Get" -> IF m[o.key] = Absent THEN Nil ELSE m[o.key]
                  [] o.op = "Del" -> IF m[o.key] = Absent THEN "entry not found"
                                     ELSE "ok"

TakeEffect(c) == /\ phase[c] = "pending"
                 /\ phase' = [phase EXCEPT ![c] = "done"]
                 /\ kv' = After(kv, call[c])
                 /\ ret' = [ret EXCEPT ![c] = Result(kv, call[c])]
                 /\ UNCHANGED call

Return(c) == /\ phase[c] = "done"
             /\ phase' = [phase EXCEPT ![c] = "idle"]
             /\ call' = [call EXCEPT ![c] = NoCall]
             /\ ret' = [ret EXCEPT ![c] = Nil]
             /\ UNCHANGED kv

SNext == \E c \in Client : \/ \E o \in Calls : Invoke(c, o)
                           \/ TakeEffect(c)
                           \/ Return(c)

\* A call that was invoked takes effect and returns.
ServeFair(c) == WF_svars(TakeEffect(c) \/ Return(c))

SFairness == \A c \in Client : ServeFair(c)

SSpec == SInit /\ [][SNext]_svars /\ SFairness
=============================================================================

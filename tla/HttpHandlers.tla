---------------------------- MODULE HttpHandlers ----------------------------
(***************************************************************************)
(* The HTTP handlers HandlerGetValByKey, HandlerSet and HandlerDel         *)
(* (src/server/ndb-server.go), one goroutine per request, on the one       *)
(* database that sockets use too (OtherCall).  A /get or /del makes one    *)
(* database call; a /set makes one per pair of its JSON object, in the     *)
(* order a Go map is ranged over, any order, and other calls come between. *)
(*                                                                         *)
(* A database call is one step on one map (SubDick, XDick) and Set never   *)
(* fails.  net/http recovers the panic of a handler: it drops that one     *)
(* connection, unlike a panic in a socket session (SocketSession).         *)
(*                                                                         *)
(* A request arrives here with its body read, and its answer is what the   *)
(* handler writes.  Reading the body and sending a long answer wait for    *)
(* the peer, for ever where the timeouts stay 0 (a valid sub_dicks): that  *)
(* comes before and after what is modelled.                                *)
(***************************************************************************)
EXTENDS Naturals, Sequences

CONSTANTS Request,    \* requests in flight at the same time
          Key,
          Text,       \* values that are strings
          NonString,  \* values that are not: numbers, objects, ...
          Nil,        \* the JSON null: nil
          Absent,     \* no entry
          Bodies      \* bodies a /set may carry, as decoded

Value == Text \cup NonString \cup {Nil}

ASSUME HandlersAssumption ==
    /\ Absent \notin Value
    /\ Bodies \subseteq UNION {[K -> Value] : K \in SUBSET Key}

VARIABLES kv,     \* the database
          req,    \* per request: what it asks
          left,   \* per request: its keys; those a /set has still to store
          resp,   \* per request: the status code and the body
          seen    \* history: what the keys of a request held while it ran

vars == <<kv, req, left, resp, seen>>

Refusal == {"wrong method", "unacceptable", "unrouted"}
Query == [op : {"get", "del"}, key : Key] \cup [op : {"set"}, data : Bodies]
             \cup [op : Refusal]
NoQuery == [op |-> "none"]
Dropped == <<0>>   \* no answer: the connection is closed

Init == /\ kv = [k \in Key |-> Absent]
        /\ req = [r \in Request |-> NoQuery]
        /\ left = [r \in Request |-> {}]
        /\ resp = [r \in Request |-> <<>>]
        /\ seen = [r \in Request |-> <<>>]

KeysOf(q) == CASE q.op \in {"get", "del"} -> {q.key}
               [] q.op = "set" -> DOMAIN q.data
               [] OTHER -> {}

Serving(r, op) == req[r].op = op /\ resp[r] = <<>>

Answer(r, answer) == resp' = [resp EXCEPT ![r] = answer]

\* A database call that leaves v for k: the requests about k live through it.
Store(k, v) ==
    /\ kv' = [kv EXCEPT ![k] = v]
    /\ seen' = [r \in Request |->
                   IF k \in DOMAIN seen[r] /\ resp[r] = <<>>
                   THEN [seen[r] EXCEPT ![k] = @ \cup {v}] ELSE seen[r]]

Arrive(r, q) == /\ req[r] = NoQuery
                /\ req' = [req EXCEPT ![r] = q]
                /\ left' = [left EXCEPT ![r] = KeysOf(q)]
                /\ seen' = [seen EXCEPT ![r] = [k \in KeysOf(q) |-> {kv[k]}]]
                /\ UNCHANGED <<kv, resp>>

\* A path that no route of CreateMux matches, a key with a slash, reaches no
\* handler.
Refuse(r) == /\ \/ Serving(r, "unrouted") /\ Answer(r, <<404>>)
                \/ Serving(r, "wrong method") /\ Answer(r, <<405>>)
                \/ Serving(r, "unacceptable") /\ Answer(r, <<406>>)
             /\ UNCHANGED <<kv, req, left, seen>>

\* Mutant: a value that is no string is taken for a missing one.
GetValStringOrGone(r) ==
    /\ Serving(r, "get")
    /\ LET val == kv[req[r].key] IN
       Answer(r, IF val \in Text THEN <<200, val>> ELSE <<410>>)
    /\ UNCHANGED <<kv, req, left, seen>>

\* A value that is no string fails val.(string), after the status was written.
GetVal(r) ==
    /\ Serving(r, "get")
    /\ LET val == kv[req[r].key] IN
       \/ val \in {Absent, Nil} /\ Answer(r, <<410>>)
       \/ val \in Text /\ Answer(r, <<200, val>>)
       \/ val \in NonString /\ Answer(r, Dropped)
    /\ UNCHANGED <<kv, req, left, seen>>

\* Mutant: err == nil is taken for the failure.
DelKeyInverted(r) ==
    /\ Serving(r, "del")
    /\ Answer(r, IF kv[req[r].key] = Absent THEN <<200>> ELSE <<500>>)
    /\ Store(req[r].key, Absent)
    /\ UNCHANGED <<req, left>>

DelKey(r) ==
    /\ Serving(r, "del")
    /\ Answer(r, IF kv[req[r].key] = Absent THEN <<500>> ELSE <<200>>)
    /\ Store(req[r].key, Absent)
    /\ UNCHANGED <<req, left>>

\* Mutant: the loop over the pairs does not advance.
SetPairAgain(r, k) == /\ Serving(r, "set") /\ k \in left[r]
                      /\ Store(k, req[r].data[k])
                      /\ UNCHANGED <<req, left, resp>>

SetPair(r, k) ==
    /\ Serving(r, "set") /\ k \in left[r]
    /\ Store(k, req[r].data[k])
    /\ left' = [left EXCEPT ![r] = @ \ {k}]
    /\ UNCHANGED <<req, resp>>

\* Mutant: the handler answers after the first pair.
SetDoneEarly(r) == /\ Serving(r, "set")
                   /\ left[r] = {} \/ left[r] # DOMAIN req[r].data
                   /\ Answer(r, <<201>>)
                   /\ UNCHANGED <<kv, req, left, seen>>

SetDone(r) == /\ Serving(r, "set") /\ left[r] = {}
              /\ Answer(r, <<201>>)
              /\ UNCHANGED <<kv, req, left, seen>>

\* The connection takes its next request.
Finish(r) == /\ resp[r] # <<>>
             /\ req' = [req EXCEPT ![r] = NoQuery]
             /\ left' = [left EXCEPT ![r] = {}]
             /\ resp' = [resp EXCEPT ![r] = <<>>]
             /\ seen' = [seen EXCEPT ![r] = <<>>]
             /\ UNCHANGED kv

Handle(r) == \/ Refuse(r) \/ GetVal(r) \/ DelKey(r)
             \/ \E k \in Key : SetPair(r, k)
             \/ SetDone(r)

\* A socket session sets a key to a string, or deletes it.
OtherCall == /\ \E k \in Key, v \in Text \cup {Absent} : Store(k, v)
             /\ UNCHANGED <<req, left, resp>>

Next == \/ \E r \in Request : \/ \E q \in Query : Arrive(r, q)
                              \/ Handle(r)
                              \/ Finish(r)
        \/ OtherCall

\* net/http runs each handler in a goroutine, which is scheduled.
Spec == Init /\ [][Next]_vars /\ \A r \in Request : WF_vars(Handle(r))

----------------------------------------------------------------------------
(* Properties *)

\* The types; a /set stores only keys of its own object.
TypeOK == /\ kv \in [Key -> Value \cup {Absent}]
          /\ \A r \in Request :
                /\ req[r] \in Query \cup {NoQuery}
                /\ left[r] \subseteq KeysOf(req[r])
                /\ resp[r] \in {<<>>, <<201>>, <<200>>, <<404>>, <<405>>, <<406>>, <<410>>,
                                <<500>>, Dropped} \cup {<<200, t>> : t \in Text}

\* A /get answers with a value its key had during the request, 410 only when it
\* was absent or null, whatever sets and deletes ran meanwhile.
GetAnswersSeen ==
    \A r \in Request : req[r].op = "get" =>
        /\ resp[r] = <<410>> => seen[r][req[r].key] \cap {Absent, Nil} # {}
        /\ Len(resp[r]) = 2 => resp[r][2] \in seen[r][req[r].key]

\* A /set answered 201 had stored each of its pairs at some moment of the
\* request, although others may have overwritten them since.
SetTookEffect ==
    \A r \in Request : req[r].op = "set" /\ resp[r] = <<201>> =>
        \A k \in DOMAIN req[r].data : req[r].data[k] \in seen[r][k]

\* A /del answered 200 saw the key with a value, one answered 500 saw it
\* absent, and after either the key was absent at some moment.
DelTookEffect ==
    \A r \in Request : req[r].op = "del" /\ resp[r] # <<>> =>
        /\ Absent \in seen[r][req[r].key]
        /\ resp[r] = <<200>> => seen[r][req[r].key] \cap Value # {}

\* Every request is answered, however often others change its keys.
RequestAnswered ==
    \A r \in Request : req[r] # NoQuery ~> resp[r] # <<>> \/ req[r] = NoQuery
=============================================================================

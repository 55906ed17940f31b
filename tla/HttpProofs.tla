----------------------------- MODULE HttpProofs -----------------------------
(***************************************************************************)
(* What the HTTP handlers promise, proved for any number of requests, any  *)
(* keys, values and bodies.  A request about k lives through every value k *)
(* takes: what the database holds now is among those seen (Watched), and a *)
(* /set has seen what it stored (Stored).  Each answer is then one of what *)
(* its request saw (Answered).                                             *)
(*                                                                         *)
(* For the clients of the library, any number of them, this is half of the *)
(* argument.  The other half is that the request a call waits for is its   *)
(* own and nobody else's (Served), although requests of calls that have    *)
(* failed go on and their places are taken again.  Each step of a request  *)
(* leaves fewer pairs, so it is answered.                                  *)
(***************************************************************************)
EXTENDS HttpClient, FiniteSetTheorems, TLAPS

Watched(r) ==
    /\ DOMAIN seen[r] = KeysOf(req[r])
    /\ resp[r] = <<>> => \A k \in KeysOf(req[r]) : kv[k] \in seen[r][k]

Stored(r) == req[r].op = "set" =>
    /\ \A k \in DOMAIN req[r].data \ left[r] : req[r].data[k] \in seen[r][k]
    /\ resp[r] # <<>> => left[r] = {}

Answered(r) ==
    /\ req[r].op = "get" /\ resp[r] # <<>> =>
          LET held == seen[r][req[r].key] IN
          \/ resp[r] = <<410>> /\ held \cap {Absent, Nil} # {}
          \/ \E t \in Text : resp[r] = <<200, t>> /\ t \in held
          \/ resp[r] = Dropped
    /\ req[r].op = "none" => resp[r] = <<>>
    /\ req[r].op = "set" => resp[r] \in {<<>>, <<201>>}
    /\ req[r].op = "del" /\ resp[r] # <<>> =>
          LET held == seen[r][req[r].key] IN
          /\ Absent \in held
          /\ \/ resp[r] = <<200>> /\ held \cap Value # {}
             \/ resp[r] = <<500>>

PerRequest == /\ DOMAIN req = Request /\ DOMAIN left = Request
              /\ DOMAIN resp = Request /\ DOMAIN seen = Request

HInv == /\ TypeOK /\ PerRequest
        /\ \A r \in Request : Watched(r) /\ Stored(r) /\ Answered(r)
----------------------------------------------------------------------------
LEMMA KeysOfQueries ==
    ASSUME NEW q \in Query \cup {NoQuery}
    PROVE  /\ q.op \in {"get", "del"} => KeysOf(q) = {q.key} /\ q.key \in Key
           /\ q.op = "set" => /\ KeysOf(q) = DOMAIN q.data /\ q.data \in Bodies
                              /\ \A k \in DOMAIN q.data : q.data[k] \in Value
           /\ q.op \notin {"get", "del", "set"} => KeysOf(q) = {}
           /\ KeysOf(q) \subseteq Key
           /\ q = NoQuery <=> q.op = "none"
<1>1. CASE q \in [op : {"get", "del"}, key : Key]
  BY <1>1 DEF KeysOf, NoQuery
<1>2. CASE q \in [op : {"set"}, data : Bodies]
  <2>1. q.op = "set" /\ q.data \in Bodies
    BY <1>2
  <2>2. PICK K \in SUBSET Key : q.data \in [K -> Value]
    BY <2>1, HandlersAssumption
  <2> QED
    BY <2>1, <2>2 DEF KeysOf, NoQuery
<1>3. CASE q \in [op : Refusal]
  <2>1. q.op \in Refusal
    BY <1>3
  <2>2. q.op \notin {"get", "del", "set", "none"}
    BY <2>1 DEF Refusal
  <2> QED
    BY <2>2 DEF KeysOf, NoQuery
<1>4. CASE q = NoQuery
  BY <1>4 DEF KeysOf, NoQuery
<1> QED
  BY <1>1, <1>2, <1>3, <1>4 DEF Query

LEMMA InitHolds == Init => HInv
<1> SUFFICES ASSUME Init PROVE HInv
  OBVIOUS
<1>1. KeysOf(NoQuery) = {} /\ NoQuery.op = "none"
  BY KeysOfQueries DEF NoQuery, KeysOf
<1>2. TypeOK
  BY <1>1 DEF Init, TypeOK, KeysOf, Dropped
<1>0. PerRequest
  BY DEF Init, PerRequest
<1>3. ASSUME NEW r \in Request PROVE Watched(r) /\ Stored(r) /\ Answered(r)
  <2>1. seen[r] = <<>> /\ req[r] = NoQuery /\ resp[r] = <<>>
    BY DEF Init
  <2>2. DOMAIN <<>> = {}
    OBVIOUS
  <2> QED
    BY <1>1, <2>1, <2>2 DEF Watched, Stored, Answered
<1> QED
  BY <1>0, <1>2, <1>3 DEF HInv

\* A database call leaves what a request saw, and adds what it left.
LEMMA StoreWatched ==
    ASSUME HInv, NEW k \in Key, NEW v \in Value \cup {Absent}, Store(k, v)
    PROVE  /\ kv' \in [Key -> Value \cup {Absent}] /\ kv'[k] = v
           /\ \A r \in Request :
                 /\ DOMAIN seen'[r] = KeysOf(req[r])
                 /\ \A j \in KeysOf(req[r]) : seen[r][j] \subseteq seen'[r][j]
                 /\ resp[r] = <<>> =>
                       \A j \in KeysOf(req[r]) : kv'[j] \in seen'[r][j]
<1>1. kv' \in [Key -> Value \cup {Absent}] /\ kv'[k] = v
  BY DEF Store, HInv, TypeOK
<1>2. ASSUME NEW r \in Request
      PROVE  /\ DOMAIN seen'[r] = KeysOf(req[r])
             /\ \A j \in KeysOf(req[r]) : seen[r][j] \subseteq seen'[r][j]
             /\ resp[r] = <<>> => \A j \in KeysOf(req[r]) : kv'[j] \in seen'[r][j]
  <2>1. KeysOf(req[r]) \subseteq Key
    BY KeysOfQueries DEF HInv, TypeOK
  <2>2. DOMAIN seen[r] = KeysOf(req[r])
    BY DEF HInv, Watched
  <2>3. resp[r] = <<>> => \A j \in KeysOf(req[r]) : kv[j] \in seen[r][j]
    BY DEF HInv, Watched
  <2>4. CASE k \in DOMAIN seen[r] /\ resp[r] = <<>>
    <3>1. seen'[r] = [seen[r] EXCEPT ![k] = @ \cup {v}]
      BY <2>4 DEF Store
    <3> QED
      BY <2>1, <2>2, <2>3, <3>1, <1>1 DEF Store, HInv, TypeOK
  <2>5. CASE ~(k \in DOMAIN seen[r] /\ resp[r] = <<>>)
    <3>1. seen'[r] = seen[r]
      BY <2>5 DEF Store
    <3> QED
      BY <2>1, <2>2, <2>3, <2>5, <3>1, <1>1 DEF Store, HInv, TypeOK
  <2> QED
    BY <2>4, <2>5
<1> QED
  BY <1>1, <1>2

\* So it keeps the promises about the requests it does not answer.
LEMMA StoreKeeps ==
    ASSUME HInv, NEW k \in Key, NEW v \in Value \cup {Absent}, Store(k, v),
           UNCHANGED <<req, left, resp>>
    PROVE  HInv'
<1>1. TypeOK' /\ PerRequest'
  BY StoreWatched DEF HInv, TypeOK, KeysOf, PerRequest, Store
<1>2. ASSUME NEW r \in Request PROVE Watched(r)'
  BY StoreWatched DEF Watched, KeysOf
<1>3. ASSUME NEW r \in Request PROVE Stored(r)'
  <2> SUFFICES ASSUME req[r].op = "set"
               PROVE  /\ \A j \in DOMAIN req[r].data \ left[r] :
                            req[r].data[j] \in seen'[r][j]
                      /\ resp[r] # <<>> => left[r] = {}
    BY DEF Stored
  <2>1. KeysOf(req[r]) = DOMAIN req[r].data
    BY KeysOfQueries DEF HInv, TypeOK
  <2> QED
    BY <2>1, StoreWatched DEF HInv, Stored
<1>4. ASSUME NEW r \in Request PROVE Answered(r)'
  <2>1. req[r].op \in {"get", "del"} => KeysOf(req[r]) = {req[r].key}
    BY KeysOfQueries DEF HInv, TypeOK
  <2>2. req[r].op \in {"get", "del"} =>
            seen[r][req[r].key] \subseteq seen'[r][req[r].key]
    BY <2>1, StoreWatched
  <2> QED
    BY <2>2 DEF HInv, Answered
<1> QED
  BY <1>1, <1>2, <1>3, <1>4 DEF HInv

\* A step that answers one request, and changes nothing else.
LEMMA AnswerKeeps ==
    ASSUME HInv, NEW r \in Request, NEW a, a # <<>>, Answer(r, a),
           UNCHANGED <<kv, req, left, seen>>,
           TypeOK', Stored(r)', Answered(r)'
    PROVE  HInv'
<1>1. resp' = [resp EXCEPT ![r] = a]
  BY DEF Answer
<1>0. PerRequest'
  BY <1>1 DEF HInv, PerRequest
<1>2. ASSUME NEW s \in Request PROVE Watched(s)' /\ Stored(s)' /\ Answered(s)'
  <2>1. Watched(s) /\ Stored(s) /\ Answered(s)
    BY DEF HInv
  <2>2. \/ resp'[s] = resp[s]
        \/ s = r /\ resp'[s] = a
    BY <1>1 DEF HInv, PerRequest
  <2>3. Watched(s)'
    BY <2>1, <2>2 DEF Watched, KeysOf
  <2>4. CASE s = r
    BY <2>3, <2>4 DEF Stored, Answered
  <2>5. CASE s # r
    BY <1>1, <2>1, <2>2, <2>3, <2>5 DEF Stored, Answered
  <2> QED
    BY <2>4, <2>5
<1> QED
  BY <1>0, <1>2 DEF HInv
----------------------------------------------------------------------------
(* The steps *)

LEMMA ArriveStep ==
    ASSUME HInv, NEW r \in Request, NEW q \in Query, Arrive(r, q)
    PROVE  HInv'
<1>1. /\ req' = [req EXCEPT ![r] = q]
      /\ left' = [left EXCEPT ![r] = KeysOf(q)]
      /\ seen' = [seen EXCEPT ![r] = [k \in KeysOf(q) |-> {kv[k]}]]
      /\ kv' = kv /\ resp' = resp
  BY DEF Arrive
<1>2. req'[r] = q /\ left'[r] = KeysOf(q) /\ seen'[r] = [k \in KeysOf(q) |-> {kv[k]}]
  BY <1>1 DEF HInv, PerRequest
<1>3. \A s \in Request \ {r} :
          req'[s] = req[s] /\ left'[s] = left[s] /\ seen'[s] = seen[s]
  BY <1>1 DEF HInv, PerRequest
<1>4. resp[r] = <<>>
  BY DEF Arrive, HInv, Answered, NoQuery
<1>5. TypeOK' /\ PerRequest'
  BY <1>1, <1>2, <1>3 DEF HInv, TypeOK, PerRequest
<1>6. ASSUME NEW s \in Request PROVE (Watched(s) /\ Stored(s) /\ Answered(s))'
  <2>1. CASE s = r
    <3>1. Watched(r)'
      BY <1>1, <1>2, <1>4 DEF Watched
    <3>2. Stored(r)'
      BY <1>1, <1>2, <1>4, KeysOfQueries DEF Stored
    <3>3. Answered(r)'
      BY <1>1, <1>4 DEF Answered
    <3> QED
      BY <2>1, <3>1, <3>2, <3>3
  <2>2. CASE s # r
    <3>1. Watched(s) /\ Stored(s) /\ Answered(s)
      BY DEF HInv
    <3> QED
      BY <3>1, <1>1, <1>3, <2>2 DEF Watched, Stored, Answered, KeysOf
  <2> QED
    BY <2>1, <2>2
<1> QED
  BY <1>5, <1>6 DEF HInv

LEMMA RefuseStep ==
    ASSUME HInv, NEW r \in Request, Refuse(r)
    PROVE  HInv'
<1>1. PICK a \in {<<404>>, <<405>>, <<406>>} : Answer(r, a) /\ req[r].op \in Refusal
  <2>1. CASE Serving(r, "unrouted") /\ Answer(r, <<404>>)
    BY <2>1 DEF Serving, Refusal
  <2>2. CASE Serving(r, "wrong method") /\ Answer(r, <<405>>)
    BY <2>2 DEF Serving, Refusal
  <2>3. CASE Serving(r, "unacceptable") /\ Answer(r, <<406>>)
    BY <2>3 DEF Serving, Refusal
  <2> QED
    BY <2>1, <2>2, <2>3 DEF Refuse
<1>2. req[r].op \notin {"get", "set", "del", "none"}
  BY <1>1 DEF Refusal
<1>3. UNCHANGED <<kv, req, left, seen>>
  BY DEF Refuse
<1>4. resp' = [resp EXCEPT ![r] = a]
  BY <1>1 DEF Answer
<1>5. TypeOK'
  BY <1>3, <1>4 DEF HInv, TypeOK, PerRequest, KeysOf
<1>6. Stored(r)' /\ Answered(r)'
  BY <1>2, <1>3 DEF Stored, Answered
<1> QED
  BY <1>1, <1>3, <1>5, <1>6, AnswerKeeps

LEMMA GetValStep ==
    ASSUME HInv, NEW r \in Request, GetVal(r)
    PROVE  HInv'
<1>0. req[r].op = "get" /\ UNCHANGED <<kv, req, left, seen>>
  BY DEF GetVal, Serving
<1>1. req[r].key \in Key /\ kv[req[r].key] \in seen[r][req[r].key]
  BY <1>0, KeysOfQueries DEF GetVal, Serving, HInv, TypeOK, Watched
<1>2. PICK a : /\ Answer(r, a)
               /\ LET held == seen[r][req[r].key] IN
                  \/ a = <<410>> /\ held \cap {Absent, Nil} # {}
                  \/ \E t \in Text : a = <<200, t>> /\ t \in held
                  \/ a = Dropped
  BY <1>1 DEF GetVal
<1>3. resp' = [resp EXCEPT ![r] = a] /\ a # <<>> /\ resp'[r] = a
  BY <1>2 DEF Answer, HInv, PerRequest, Dropped
<1>4. TypeOK'
  BY <1>0, <1>2, <1>3 DEF HInv, TypeOK, PerRequest, KeysOf
<1>5. Stored(r)' /\ Answered(r)'
  BY <1>0, <1>2, <1>3 DEF Stored, Answered
<1> QED
  BY <1>0, <1>2, <1>3, <1>4, <1>5, AnswerKeeps

LEMMA SetDoneStep ==
    ASSUME HInv, NEW r \in Request, SetDone(r)
    PROVE  HInv'
<1>0. /\ req[r].op = "set" /\ left[r] = {}
      /\ UNCHANGED <<kv, req, left, seen>> /\ Answer(r, <<201>>)
  BY DEF SetDone, Serving
<1>1. resp' = [resp EXCEPT ![r] = <<201>>] /\ resp'[r] = <<201>>
  BY <1>0 DEF Answer, HInv, PerRequest
<1>2. TypeOK'
  BY <1>0, <1>1 DEF HInv, TypeOK, PerRequest, KeysOf
<1>3. Stored(r)' /\ Answered(r)'
  BY <1>0, <1>1 DEF HInv, Stored, Answered
<1> QED
  BY <1>0, <1>2, <1>3, AnswerKeeps

LEMMA SetPairStep ==
    ASSUME HInv, NEW r \in Request, NEW k \in Key, SetPair(r, k)
    PROVE  HInv'
<1>0. /\ req[r].op = "set" /\ k \in left[r] /\ Store(k, req[r].data[k])
      /\ left' = [left EXCEPT ![r] = @ \ {k}]
      /\ req' = req /\ resp' = resp /\ resp[r] = <<>>
  BY DEF SetPair, Serving
<1>1. /\ KeysOf(req[r]) = DOMAIN req[r].data
      /\ k \in KeysOf(req[r]) /\ req[r].data[k] \in Value
  BY <1>0, KeysOfQueries DEF HInv, TypeOK
<1>2. /\ left'[r] = left[r] \ {k} /\ DOMAIN left' = Request
      /\ \A s \in Request \ {r} : left'[s] = left[s]
  BY <1>0 DEF HInv, PerRequest
<1>3. /\ kv' \in [Key -> Value \cup {Absent}] /\ kv'[k] = req[r].data[k]
      /\ \A s \in Request :
            /\ DOMAIN seen'[s] = KeysOf(req[s])
            /\ \A j \in KeysOf(req[s]) : seen[s][j] \subseteq seen'[s][j]
            /\ resp[s] = <<>> => \A j \in KeysOf(req[s]) : kv'[j] \in seen'[s][j]
  BY <1>0, <1>1, StoreWatched
<1>4. TypeOK' /\ PerRequest'
  BY <1>0, <1>2, <1>3 DEF HInv, TypeOK, KeysOf, PerRequest, Store
<1>5. ASSUME NEW s \in Request PROVE (Watched(s) /\ Stored(s) /\ Answered(s))'
  <2>1. Watched(s)'
    BY <1>0, <1>3 DEF Watched, KeysOf
  <2>2. Stored(s)'
    <3> SUFFICES ASSUME req[s].op = "set"
                 PROVE  /\ \A j \in DOMAIN req[s].data \ left'[s] :
                              req[s].data[j] \in seen'[s][j]
                        /\ resp[s] # <<>> => left'[s] = {}
      BY <1>0 DEF Stored
    <3>1. KeysOf(req[s]) = DOMAIN req[s].data
      BY KeysOfQueries DEF HInv, TypeOK
    <3> QED
      BY <3>1, <1>0, <1>1, <1>2, <1>3 DEF HInv, Stored
  <2>3. Answered(s)'
    <3>1. req[s].op \in {"get", "del"} =>
              seen[s][req[s].key] \subseteq seen'[s][req[s].key]
      BY <1>3, KeysOfQueries DEF HInv, TypeOK
    <3> QED
      BY <3>1, <1>0 DEF HInv, Answered
  <2> QED
    BY <2>1, <2>2, <2>3
<1> QED
  BY <1>4, <1>5 DEF HInv

LEMMA DelKeyStep ==
    ASSUME HInv, NEW r \in Request, DelKey(r)
    PROVE  HInv'
<1>0. /\ req[r].op = "del" /\ Store(req[r].key, Absent)
      /\ req' = req /\ left' = left /\ resp[r] = <<>>
      /\ req[r].key \in Key /\ KeysOf(req[r]) = {req[r].key}
  BY KeysOfQueries DEF DelKey, Serving, HInv, TypeOK
<1> DEFINE a == IF kv[req[r].key] = Absent THEN <<500>> ELSE <<200>>
<1>1. /\ a \in {<<200>>, <<500>>}
      /\ resp' = [resp EXCEPT ![r] = a]
      /\ a = <<200>> => kv[req[r].key] # Absent
  <2>1. resp' = [resp EXCEPT ![r] = a]
    BY DEF DelKey, Answer
  <2>2. <<500>> # <<200>>
    OBVIOUS
  <2> QED
    BY <2>1, <2>2
<1> HIDE DEF a
<1>2. /\ resp'[r] = a /\ DOMAIN resp' = Request
      /\ \A s \in Request \ {r} : resp'[s] = resp[s]
  BY <1>1 DEF HInv, PerRequest
<1>3. /\ kv' \in [Key -> Value \cup {Absent}] /\ kv'[req[r].key] = Absent
      /\ \A s \in Request :
            /\ DOMAIN seen'[s] = KeysOf(req[s])
            /\ \A j \in KeysOf(req[s]) : seen[s][j] \subseteq seen'[s][j]
            /\ resp[s] = <<>> => \A j \in KeysOf(req[s]) : kv'[j] \in seen'[s][j]
  BY <1>0, StoreWatched
<1>4. TypeOK' /\ PerRequest'
  BY <1>0, <1>1, <1>2, <1>3 DEF HInv, TypeOK, KeysOf, PerRequest, Store
<1>5. Absent \in seen'[r][req[r].key]
  BY <1>0, <1>3
<1>6. a = <<200>> => seen'[r][req[r].key] \cap Value # {}
  <2>1. kv[req[r].key] \in seen'[r][req[r].key]
    BY <1>0, <1>3 DEF HInv, Watched
  <2> QED
    BY <2>1, <1>0, <1>1 DEF HInv, TypeOK
<1>7. ASSUME NEW s \in Request PROVE (Watched(s) /\ Stored(s) /\ Answered(s))'
  <2>1. Watched(s)'
    BY <1>0, <1>2, <1>3 DEF Watched, KeysOf
  <2>2. CASE s = r
    BY <2>1, <2>2, <1>0, <1>1, <1>2, <1>5, <1>6 DEF Stored, Answered
  <2>3. CASE s # r
    <3>1. Stored(s) /\ Answered(s) /\ resp'[s] = resp[s]
      BY <1>2, <2>3 DEF HInv
    <3>2. req[s].op = "set" => KeysOf(req[s]) = DOMAIN req[s].data
      BY KeysOfQueries DEF HInv, TypeOK
    <3>3. Stored(s)'
      BY <3>1, <3>2, <1>0, <1>3 DEF Stored
    <3>4. req[s].op \in {"get", "del"} =>
              seen[s][req[s].key] \subseteq seen'[s][req[s].key]
      BY <1>3, KeysOfQueries DEF HInv, TypeOK
    <3>5. Answered(s)'
      BY <3>1, <3>4, <1>0 DEF Answered
    <3> QED
      BY <2>1, <3>3, <3>5
  <2> QED
    BY <2>2, <2>3
<1> QED
  BY <1>4, <1>7 DEF HInv

LEMMA FinishStep ==
    ASSUME HInv, NEW r \in Request, Finish(r)
    PROVE  HInv'
<1>1. /\ req'[r] = NoQuery /\ left'[r] = {} /\ resp'[r] = <<>> /\ seen'[r] = <<>>
      /\ PerRequest' /\ kv' = kv
  BY DEF Finish, HInv, PerRequest
<1>2. \A s \in Request \ {r} : /\ req'[s] = req[s] /\ left'[s] = left[s]
                               /\ resp'[s] = resp[s] /\ seen'[s] = seen[s]
  BY DEF Finish, HInv, PerRequest
<1>3. KeysOf(NoQuery) = {} /\ NoQuery.op = "none" /\ DOMAIN <<>> = {}
  BY DEF NoQuery, KeysOf
<1>4. TypeOK'
  BY <1>1, <1>2 DEF HInv, TypeOK
<1>5. ASSUME NEW s \in Request PROVE (Watched(s) /\ Stored(s) /\ Answered(s))'
  <2>1. CASE s = r
    BY <2>1, <1>1, <1>3 DEF Watched, Stored, Answered
  <2>2. CASE s # r
    <3>1. Watched(s) /\ Stored(s) /\ Answered(s)
      BY DEF HInv
    <3>2. Watched(s)'
      BY <3>1, <1>1, <1>2, <2>2 DEF Watched, KeysOf
    <3>3. Stored(s)' /\ Answered(s)'
      BY <3>1, <1>1, <1>2, <2>2 DEF Stored, Answered
    <3> QED
      BY <3>2, <3>3
  <2> QED
    BY <2>1, <2>2
<1> QED
  BY <1>1, <1>4, <1>5 DEF HInv

LEMMA StutterStep == ASSUME HInv, UNCHANGED vars PROVE HInv'
<1>1. kv' = kv /\ req' = req /\ left' = left /\ resp' = resp /\ seen' = seen
  BY DEF vars
<1>2. ASSUME NEW r \in Request PROVE (Watched(r) /\ Stored(r) /\ Answered(r))'
  <2>1. Watched(r) /\ Stored(r) /\ Answered(r)
    BY DEF HInv
  <2>2. Watched(r)'
    BY <1>1, <2>1 DEF Watched, KeysOf
  <2>3. Stored(r)' /\ Answered(r)'
    BY <1>1, <2>1 DEF Stored, Answered
  <2> QED
    BY <2>2, <2>3
<1>3. TypeOK' /\ PerRequest'
  BY <1>1 DEF HInv, TypeOK, PerRequest, KeysOf
<1> QED
  BY <1>2, <1>3 DEF HInv

LEMMA NextKeeps == HInv /\ [Next]_vars => HInv'
<1> SUFFICES ASSUME HInv, [Next]_vars PROVE HInv'
  OBVIOUS
<1>1. ASSUME NEW r \in Request, NEW q \in Query, Arrive(r, q) PROVE HInv'
  BY <1>1, ArriveStep
<1>2. ASSUME NEW r \in Request, Handle(r) PROVE HInv'
  BY <1>2, RefuseStep, GetValStep, DelKeyStep, SetPairStep, SetDoneStep DEF Handle
<1>3. ASSUME NEW r \in Request, Finish(r) PROVE HInv'
  BY <1>3, FinishStep
<1>4. CASE OtherCall
  BY <1>4, StoreKeeps DEF OtherCall, Value
<1>5. CASE UNCHANGED vars
  BY <1>5, StutterStep
<1> QED
  BY <1>1, <1>2, <1>3, <1>4, <1>5 DEF Next
----------------------------------------------------------------------------
(* The theorems about the handlers *)

\* The inductive invariant: types, what each request saw, stored and answered.
THEOREM HandlersInvariance == Spec => []HInv
BY InitHolds, NextKeeps, PTL DEF Spec

\* A /set stores keys of its own object and no others, and every answer is one
\* the handlers write.
THEOREM HandlersTypes == Spec => []TypeOK
<1>1. HInv => TypeOK
  BY DEF HInv
<1> QED
  BY <1>1, HandlersInvariance, PTL

\* HandlerGetValByKey answers with a value its key had while it ran, and 410
\* only when it had none, for any number of requests and socket sessions.
THEOREM GetTruthful == Spec => []GetAnswersSeen
<1>1. HInv => GetAnswersSeen
  <2> SUFFICES ASSUME HInv, NEW r \in Request, req[r].op = "get"
               PROVE  /\ resp[r] = <<410>> => seen[r][req[r].key] \cap {Absent, Nil} # {}
                      /\ Len(resp[r]) = 2 => resp[r][2] \in seen[r][req[r].key]
    BY DEF GetAnswersSeen
  <2>1. CASE resp[r] = <<>>
    BY <2>1
  <2>2. CASE resp[r] = <<410>> /\ seen[r][req[r].key] \cap {Absent, Nil} # {}
    BY <2>2
  <2>3. CASE \E t \in Text : resp[r] = <<200, t>> /\ t \in seen[r][req[r].key]
    BY <2>3
  <2>4. CASE resp[r] = Dropped
    BY <2>4 DEF Dropped
  <2> QED
    BY <2>1, <2>2, <2>3, <2>4 DEF HInv, Answered
<1> QED
  BY <1>1, HandlersInvariance, PTL

\* HandlerSet answers 201 only when each of its pairs was stored.
THEOREM SetTruthful == Spec => []SetTookEffect
<1>1. HInv => SetTookEffect
  <2>1. ASSUME HInv, NEW r \in Request, req[r].op = "set"
        PROVE  resp[r] # <<>> => \A k \in DOMAIN req[r].data :
                                     req[r].data[k] \in seen[r][k]
    BY <2>1 DEF HInv, Stored
  <2> QED
    BY <2>1 DEF SetTookEffect
<1> QED
  BY <1>1, HandlersInvariance, PTL

\* HandlerDel left the key absent, and answers 200 only when it found it.
THEOREM DelTruthful == Spec => []DelTookEffect
<1>1. HInv => DelTookEffect
  BY DEF HInv, Answered, DelTookEffect
<1> QED
  BY <1>1, HandlersInvariance, PTL
----------------------------------------------------------------------------
(* The clients of the library *)

\* A call has a request, which asks what the server makes of the call's URL or
\* body; no other call has it.
Waits(c) == /\ call[c] \in HttpCall
            /\ \E r \in Request : conn[c] = {r} /\ req[r] = ToQuery(call[c])

Served == \A c \in Client :
              /\ (call[c] = NoQuery /\ conn[c] = {}) \/ Waits(c)
              /\ \A d \in Client \ {c} : conn[c] \cap conn[d] = {}

PerClient == DOMAIN call = Client /\ DOMAIN conn = Client /\ DOMAIN ret = Client

KInv == HInv /\ PerClient /\ Served

\* What is sent is a request the server knows, if anything is.
LEMMA QueryOfCall ==
    ASSUME NEW o \in HttpCall
    PROVE  /\ ToQuery(o) \in Query \cup {NoUrl} /\ ToQuery(o) # NoQuery
           /\ NoUrl \notin Query /\ o # NoQuery
<1>1. ToQuery(o) \in Query \cup {NoUrl}
  <2>1. CASE o \in [op : {"get", "del"}, key : UrlKey]
    BY <2>1, ClientAssumption DEF ToQuery
  <2>2. CASE o \in [op : {"set"}, pair : Pair]
    BY <2>2, ClientAssumption DEF ToQuery
  <2> QED
    BY <2>1, <2>2 DEF HttpCall
<1>2. ASSUME NEW q \in Query PROVE q.op \notin {"none", "no URL"}
  BY DEF Query, Refusal
<1>3. NoUrl.op = "no URL" /\ NoQuery.op = "none" /\ o.op \in {"get", "del", "set"}
  BY DEF NoUrl, NoQuery, HttpCall
<1> QED
  BY <1>1, <1>2, <1>3

LEMMA KInitHolds == HInit => KInv
BY InitHolds DEF HInit, KInv, PerClient, Served

\* The server is the one of HttpHandlers, whoever calls.
LEMMA ServerOfHandlers == KInv /\ [HNext]_hvars => [Next]_vars
<1> SUFFICES ASSUME KInv, [HNext]_hvars PROVE [Next]_vars
  OBVIOUS
<1>1. CASE ServerStep
  BY <1>1 DEF ServerStep, Next
<1>2. ASSUME NEW c \in Client, NEW o \in HttpCall, Call(c, o) PROVE [Next]_vars
  BY <1>2 DEF Call, Next
<1>3. ASSUME NEW c \in Client, Receive(c) PROVE Next
  <2>1. PICK r \in conn[c] : Finish(r)
    BY <1>3 DEF Receive
  <2>2. r \in Request
    BY <1>3, <2>1 DEF KInv, Served, Waits
  <2> QED
    BY <2>1, <2>2 DEF Next
<1>4. ASSUME NEW c \in Client, Lose(c) PROVE UNCHANGED vars
  BY <1>4 DEF Lose
<1>5. CASE UNCHANGED hvars
  BY <1>5 DEF hvars
<1> QED
  BY <1>1, <1>2, <1>3, <1>4, <1>5 DEF HNext

\* A step that leaves the calls alone and the requests they wait for.
LEMMA ServerKeepsCalls ==
    ASSUME KInv, UNCHANGED cvars,
           \A r \in Request :
               req'[r] = req[r] \/ \A c \in Client : r \notin conn[c]
    PROVE  PerClient' /\ Served'
BY DEF KInv, PerClient, Served, Waits, cvars

LEMMA RequestOfCall ==
    ASSUME KInv, NEW c \in Client, NEW r \in conn[c]
    PROVE  /\ r \in Request /\ call[c] \in HttpCall /\ conn[c] = {r}
           /\ req[r] = ToQuery(call[c]) /\ req[r] # NoQuery /\ call[c] # NoQuery
<1>1. /\ r \in Request /\ call[c] \in HttpCall /\ conn[c] = {r}
      /\ req[r] = ToQuery(call[c])
  BY DEF KInv, Served, Waits
<1> QED
  BY <1>1, QueryOfCall

LEMMA ServerStepKeeps == ASSUME KInv, ServerStep PROVE PerClient' /\ Served'
<1>1. \A c \in Client : \A r \in conn[c] : req[r] # NoQuery
  BY RequestOfCall
<1>2. CASE OtherCall \/ \E r \in Request : Handle(r)
  <2>1. req' = req
    BY <1>2 DEF OtherCall, Handle, Refuse, GetVal, DelKey, SetPair, SetDone
  <2> QED
    BY <2>1, ServerKeepsCalls DEF ServerStep
<1>3. ASSUME NEW r \in Request, NEW q \in Query, Arrive(r, q)
      PROVE  PerClient' /\ Served'
  <2>1. \A s \in Request \ {r} : req'[s] = req[s]
    BY <1>3 DEF Arrive, KInv, HInv, PerRequest
  <2>2. \A c \in Client : r \notin conn[c]
    BY <1>1, <1>3 DEF Arrive
  <2> QED
    BY <2>1, <2>2, ServerKeepsCalls DEF ServerStep
<1>4. ASSUME NEW r \in Request, \A c \in Client : r \notin conn[c], Finish(r)
      PROVE  PerClient' /\ Served'
  <2>1. \A s \in Request \ {r} : req'[s] = req[s]
    BY <1>4 DEF Finish, KInv, HInv, PerRequest
  <2> QED
    BY <1>4, <2>1, ServerKeepsCalls DEF ServerStep
<1> QED
  BY <1>2, <1>3, <1>4 DEF ServerStep

LEMMA CallKeeps ==
    ASSUME KInv, NEW c \in Client, NEW o \in HttpCall, Call(c, o)
    PROVE  PerClient' /\ Served'
<1>0. CASE UNCHANGED <<vars, call, conn>> /\ \E result : ret' = [ret EXCEPT ![c] = result]
  BY <1>0 DEF vars, KInv, PerClient, Served, Waits
<1> SUFFICES ASSUME NEW r \in Request, Arrive(r, ToQuery(o)),
                    call' = [call EXCEPT ![c] = o], ret' = [ret EXCEPT ![c] = NoResult],
                    conn' = [conn EXCEPT ![c] = {r}]
             PROVE  PerClient' /\ Served'
  BY <1>0 DEF Call
<1>2. /\ req'[r] = ToQuery(o)
      /\ \A s \in Request \ {r} : req'[s] = req[s]
  BY DEF Arrive, KInv, HInv, PerRequest
<1>3. \A d \in Client : r \notin conn[d]
  BY RequestOfCall DEF Arrive
<1>4. /\ PerClient' /\ call'[c] = o /\ conn'[c] = {r}
      /\ \A d \in Client \ {c} : call'[d] = call[d] /\ conn'[d] = conn[d]
  BY DEF KInv, PerClient
<1>5. Waits(c)'
  BY <1>2, <1>4 DEF Waits
<1>6. ASSUME NEW d \in Client \ {c}
      PROVE  ((call[d] = NoQuery /\ conn[d] = {}) \/ Waits(d))'
  BY <1>2, <1>3, <1>4, <1>6 DEF KInv, Served, Waits
<1>7. \A d \in Client : \A e \in Client \ {d} : conn'[d] \cap conn'[e] = {}
  BY <1>3, <1>4 DEF KInv, Served
<1> QED
  BY <1>4, <1>5, <1>6, <1>7 DEF Served

\* A call that ends, and takes with it at most its own request.
LEMMA ReturnKeeps ==
    ASSUME KInv, NEW c \in Client, NEW result, Return(c, result),
           \A r \in Request : req'[r] = req[r] \/ r \in conn[c]
    PROVE  PerClient' /\ Served'
<1>1. /\ PerClient' /\ call'[c] = NoQuery /\ conn'[c] = {}
      /\ \A d \in Client \ {c} : call'[d] = call[d] /\ conn'[d] = conn[d]
  BY DEF Return, KInv, PerClient
<1>2. ASSUME NEW d \in Client \ {c}
      PROVE  ((call[d] = NoQuery /\ conn[d] = {}) \/ Waits(d))'
  BY <1>1, <1>2 DEF KInv, Served, Waits
<1>3. \A d \in Client : \A e \in Client \ {d} : conn'[d] \cap conn'[e] = {}
  BY <1>1 DEF KInv, Served
<1> QED
  BY <1>1, <1>2, <1>3 DEF Served

LEMMA HNextKeeps == KInv /\ [HNext]_hvars => KInv'
<1> SUFFICES ASSUME KInv, [HNext]_hvars PROVE KInv'
  OBVIOUS
<1>1. HInv'
  BY ServerOfHandlers, NextKeeps DEF KInv
<1>2. CASE ServerStep
  BY <1>1, <1>2, ServerStepKeeps DEF KInv
<1>3. ASSUME NEW c \in Client, NEW o \in HttpCall, Call(c, o) PROVE KInv'
  BY <1>1, <1>3, CallKeeps DEF KInv
<1>4. ASSUME NEW c \in Client, Receive(c) PROVE KInv'
  <2>1. PICK r \in conn[c] :
            Return(c, Result(resp[r] = Dropped, Body(resp[r]))) /\ Finish(r)
    BY <1>4 DEF Receive
  <2>2. \A s \in Request : req'[s] = req[s] \/ s \in conn[c]
    BY <2>1 DEF Finish, KInv, HInv, PerRequest
  <2> QED
    BY <1>1, <2>1, <2>2, ReturnKeeps DEF KInv
<1>5. ASSUME NEW c \in Client, Lose(c) PROVE KInv'
  <2>1. Return(c, Result(TRUE, Blank)) /\ req' = req
    BY <1>5, Zenon DEF Lose, vars
  <2> QED
    BY <1>1, <2>1, ReturnKeeps DEF KInv
<1>6. CASE UNCHANGED hvars
  BY <1>1, <1>6, ServerKeepsCalls DEF KInv, hvars, vars
<1> QED
  BY <1>2, <1>3, <1>4, <1>5, <1>6 DEF HNext

\* What a call returns without an error when its answer has arrived.
LEMMA ReceiveHolds ==
    ASSUME KInv, NEW c \in Client, NEW r \in conn[c], Receive(c), ~ret'[c].err
    PROVE  LET q == ToQuery(call[c])
               saw == seen[r]
           IN  /\ q.op = "get" => IF ret'[c].found THEN ret'[c].val \in saw[q.key]
                                  ELSE saw[q.key] \cap {Absent, Nil, Blank} # {}
               /\ q.op = "del" => Absent \in saw[q.key]
               /\ q.op = "set" => \A k \in DOMAIN q.data : q.data[k] \in saw[k]
<1> DEFINE q == req[r]
           saw == seen[r]
<1>1. r \in Request /\ conn[c] = {r} /\ q = ToQuery(call[c])
  BY RequestOfCall
<1>2. resp[r] # <<>> /\ Return(c, Result(resp[r] = Dropped, Body(resp[r])))
  BY <1>1, Zenon DEF Receive
<1>3. ret'[c] = Result(resp[r] = Dropped, Body(resp[r]))
  BY <1>2 DEF Return, KInv, PerClient
<1>4. /\ resp[r] # Dropped
      /\ ret'[c].found <=> Body(resp[r]) # Blank
      /\ ret'[c].val = Body(resp[r])
  <2>1. ASSUME resp[r] = Dropped PROVE FALSE
    <3>1. ret'[c] = Result(TRUE, Body(resp[r]))
      BY <1>3, <2>1, Zenon
    <3> QED
      BY <3>1 DEF Result
  <2>2. ret'[c] = Result(FALSE, Body(resp[r]))
    BY <1>3, <2>1, Zenon
  <2> DEFINE found == ~FALSE /\ Body(resp[r]) # Blank
  <2>3. ret'[c] = [err |-> FALSE, found |-> found, val |-> Body(resp[r])]
    BY <2>2 DEF Result
  <2>4. found <=> Body(resp[r]) # Blank
    OBVIOUS
  <2> HIDE DEF found
  <2>5. ret'[c].found = found /\ ret'[c].val = Body(resp[r])
    BY <2>3
  <2> QED
    BY <2>1, <2>4, <2>5
<1>5. Answered(r) /\ Stored(r)
  BY <1>1 DEF KInv, HInv
<1>6. CASE q.op = "get"
  <2>1. \/ resp[r] = <<410>> /\ saw[q.key] \cap {Absent, Nil} # {}
        \/ \E t \in Text : resp[r] = <<200, t>> /\ t \in saw[q.key]
    BY <1>2, <1>4, <1>5, <1>6 DEF Answered
  <2>2. CASE resp[r] = <<410>> /\ saw[q.key] \cap {Absent, Nil} # {}
    <3>1. Len(resp[r]) # 2 /\ resp[r] # <<404>>
      BY <2>2
    <3>2. Body(resp[r]) = Blank
      BY <3>1 DEF Body
    <3> QED
      BY <1>1, <1>4, <1>6, <2>2, <3>2
  <2>3. CASE \E t \in Text : resp[r] = <<200, t>> /\ t \in saw[q.key]
    <3>1. PICK t \in Text : resp[r] = <<200, t>> /\ t \in saw[q.key]
      BY <2>3
    <3>2. Body(resp[r]) = t
      BY <3>1 DEF Body
    <3> QED
      BY <1>1, <1>4, <1>6, <3>1, <3>2
  <2> QED
    BY <2>1, <2>2, <2>3
<1>7. CASE q.op = "del"
  BY <1>1, <1>2, <1>5, <1>7 DEF Answered
<1>8. CASE q.op = "set"
  BY <1>1, <1>2, <1>5, <1>8 DEF Stored
<1> QED
  BY <1>1, <1>6, <1>7, <1>8
----------------------------------------------------------------------------
(* The theorems about the clients *)

\* The requests of the library are requests of HttpHandlers: what is proved of
\* the handlers holds whoever calls.
THEOREM LibraryIsACaller == HSpec => Init /\ [][Next]_vars
<1>1. HInit => Init
  BY DEF HInit
<1> QED
  BY <1>1, KInitHolds, HNextKeeps, ServerOfHandlers, PTL DEF HSpec

\* The inductive invariant: each call waits for a request of its own.
THEOREM CallsInvariance == HSpec => []KInv
BY KInitHolds, HNextKeeps, PTL DEF HSpec

\* HTTP_Get, HTTP_Set and HTTP_Del return without an error only when what the
\* server made of their URL or body was so during the call, for any number of
\* clients, any text and what the server makes of it, connections lost and
\* requests that go on after their call has failed.
THEOREM HttpReturnsTruthful == HSpec => HttpReturnHolds
<1>1. KInv /\ [HNext]_hvars =>
          [\A c \in Client : \A r \in conn[c] : call'[c] = NoQuery /\ ~ret'[c].err =>
             LET q == ToQuery(call[c])
                 saw == seen[r]
             IN  /\ q.op = "get" => IF ret'[c].found THEN ret'[c].val \in saw[q.key]
                                    ELSE saw[q.key] \cap {Absent, Nil, Blank} # {}
                 /\ q.op = "del" => Absent \in saw[q.key]
                 /\ q.op = "set" => \A k \in DOMAIN q.data : q.data[k] \in saw[k]]_hvars
  <2> SUFFICES ASSUME KInv, HNext, NEW c \in Client, NEW r \in conn[c],
                      call'[c] = NoQuery, ~ret'[c].err
               PROVE  Receive(c)
    BY ReceiveHolds
  <2>1. call[c] # NoQuery
    BY RequestOfCall
  <2>2. CASE ServerStep
    BY <2>1, <2>2 DEF ServerStep, cvars
  <2>3. ASSUME NEW d \in Client, NEW o \in HttpCall, Call(d, o) PROVE FALSE
    <3>1. d # c
      BY <2>1, <2>3 DEF Call
    <3> QED
      BY <2>1, <2>3, <3>1 DEF Call, KInv, PerClient
  <2>4. ASSUME NEW d \in Client, Receive(d) \/ Lose(d) PROVE d = c
    BY <2>1, <2>4 DEF Receive, Lose, Return, KInv, PerClient
  <2>5. ~Lose(c)
    <3>1. ASSUME Lose(c) PROVE FALSE
      <4>1. ret'[c] = Result(TRUE, Blank)
        BY <3>1 DEF Lose, Return, KInv, PerClient
      <4> QED
        BY <4>1 DEF Result
    <3> QED
      BY <3>1
  <2> QED
    BY <2>2, <2>3, <2>4, <2>5 DEF HNext
<1> QED
  BY <1>1, CallsInvariance, PTL DEF HSpec, HttpReturnHolds
----------------------------------------------------------------------------
(* Every request is answered *)

(* WF is defined with ENABLED, of which the prover has no theory: that a     *)
(* handler can take a step while it has not answered (HandlersEnabled) is a  *)
(* hypothesis of the theorem, on which TLC and a reading of the actions      *)
(* agree.  The rest of the argument is proved.  Each step of a /set leaves   *)
(* fewer pairs, and as there is no induction over temporal formulas, what    *)
(* holds of one step is doubled until it holds of more than a body has.      *)

HandlersEnabled == \A r \in Request :
    req[r] # NoQuery /\ resp[r] = <<>> => ENABLED <<Handle(r) /\ UNCHANGED cvars>>_hvars

\* The bytes a Go program can allocate (2^48): no map has more pairs.
HeapSize == 281474976710656

BodiesFit == \A d \in Bodies : IsFiniteSet(DOMAIN d) /\ Cardinality(DOMAIN d) < HeapSize

Asked(r)       == req[r] # NoQuery
Unanswered(r)  == req[r] # NoQuery /\ resp[r] = <<>>
LeftOver(r, n) == Unanswered(r) /\ Cardinality(left[r]) <= n
RequestOver(r) == resp[r] # <<>> \/ req[r] = NoQuery

HandlerCan(r)  == Unanswered(r) => ENABLED <<Handle(r) /\ UNCHANGED cvars>>_hvars

Shortens(r, n, k) ==
    HSpec /\ []HandlersEnabled => [](LeftOver(r, n) => <>(LeftOver(r, k) \/ RequestOver(r)))
AllShorten(r, d) == \A n \in Int : Shortens(r, n, n - d)

LEMMA PairsLeft ==
    ASSUME HInv, BodiesFit, NEW r \in Request
    PROVE  /\ IsFiniteSet(left[r]) /\ Cardinality(left[r]) \in Nat
           /\ Cardinality(left[r]) < HeapSize
<1>1. left[r] \subseteq KeysOf(req[r]) /\ req[r] \in Query \cup {NoQuery}
  BY DEF HInv, TypeOK
<1>2. IsFiniteSet(KeysOf(req[r])) /\ Cardinality(KeysOf(req[r])) < HeapSize
  <2>1. CASE req[r].op = "set"
    <3>1. KeysOf(req[r]) = DOMAIN req[r].data /\ req[r].data \in Bodies
      BY <1>1, <2>1, KeysOfQueries
    <3> QED
      BY <3>1 DEF BodiesFit
  <2>2. CASE req[r].op # "set"
    <3>1. PICK k : KeysOf(req[r]) \subseteq {k}
      BY <1>1, <2>2, KeysOfQueries
    <3>2. IsFiniteSet({k}) /\ Cardinality({k}) = 1
      BY FS_Singleton
    <3>3. /\ IsFiniteSet(KeysOf(req[r]))
          /\ Cardinality(KeysOf(req[r])) <= 1 /\ Cardinality(KeysOf(req[r])) \in Nat
      BY <3>1, <3>2, FS_Subset, FS_CardinalityType
    <3> QED
      BY SMT, <3>3 DEF HeapSize
  <2> QED
    BY <2>1, <2>2
<1>3. IsFiniteSet(left[r]) /\ Cardinality(left[r]) <= Cardinality(KeysOf(req[r]))
  BY <1>1, <1>2, FS_Subset
<1> QED
  BY SMT, <1>2, <1>3, FS_CardinalityType DEF HeapSize

\* A handler's step answers, or stores one of the pairs that are left, ...
LEMMA HandleSteps ==
    ASSUME HInv, BodiesFit, NEW r \in Request, NEW n \in Int, LeftOver(r, n), Handle(r)
    PROVE  (LeftOver(r, n - 1) /\ LeftOver(r, n))' \/ RequestOver(r)'
<1>0. DOMAIN resp = Request /\ DOMAIN left = Request
  BY DEF HInv, PerRequest
<1>1. CASE Refuse(r) \/ GetVal(r) \/ DelKey(r) \/ SetDone(r)
  <2> DEFINE Answers == \E answer : answer # <<>> /\ Answer(r, answer)
  <2>1. Refuse(r) => Answers
    BY DEF Refuse, Dropped
  <2>2. GetVal(r) => Answers
    BY DEF GetVal, Dropped
  <2>3. DelKey(r) => Answers
    BY DEF DelKey
  <2>4. SetDone(r) => Answers
    BY DEF SetDone, Dropped
  <2>5. Answers
    BY <1>1, <2>1, <2>2, <2>3, <2>4
  <2> QED
    BY <1>0, <2>5 DEF Answer, RequestOver
<1>2. ASSUME NEW k \in Key, SetPair(r, k) PROVE (LeftOver(r, n - 1) /\ LeftOver(r, n))'
  <2>1. k \in left[r] /\ left'[r] = left[r] \ {k} /\ req' = req /\ resp' = resp
    BY <1>0, <1>2 DEF SetPair
  <2>2. Cardinality(left'[r]) = Cardinality(left[r]) - 1 /\ Cardinality(left[r]) \in Nat
    BY <2>1, PairsLeft, FS_RemoveElement
  <2> QED
    BY <2>1, <2>2 DEF LeftOver, Unanswered
<1> QED
  BY <1>1, <1>2 DEF Handle

\* ... and no other step disturbs it.
LEMMA HandlerMoves ==
    ASSUME HInv, BodiesFit, NEW r \in Request, NEW n \in Int, LeftOver(r, n), [Next]_vars
    PROVE  LeftOver(r, n)' \/ RequestOver(r)'
<1>0. DOMAIN resp = Request /\ DOMAIN left = Request /\ DOMAIN req = Request
  BY DEF HInv, PerRequest
<1>1. CASE UNCHANGED <<req[r], left[r], resp[r]>>
  BY <1>1 DEF LeftOver, Unanswered
<1>2. CASE Handle(r)
  BY <1>2, HandleSteps
<1>3. ASSUME NEW q \in Request, q # r, Handle(q) PROVE UNCHANGED <<req[r], left[r], resp[r]>>
  BY <1>0, <1>3 DEF Handle, Refuse, GetVal, DelKey, SetPair, SetDone, Answer
<1>4. ASSUME NEW q \in Request, (\E o \in Query : Arrive(q, o)) \/ Finish(q)
      PROVE  UNCHANGED <<req[r], left[r], resp[r]>>
  BY <1>0, <1>4 DEF Arrive, Finish, LeftOver, Unanswered
<1>5. CASE OtherCall \/ UNCHANGED vars
  BY <1>1, <1>5 DEF OtherCall, vars
<1> QED
  BY <1>1, <1>2, <1>3, <1>4, <1>5 DEF Next

LEMMA StepShortens == ASSUME BodiesFit, NEW r \in Request PROVE AllShorten(r, 1)
<1> SUFFICES ASSUME NEW n \in Int PROVE Shortens(r, n, n - 1)
  BY DEF AllShorten
<1>1. KInv /\ LeftOver(r, n) /\ [HNext]_hvars => LeftOver(r, n)' \/ RequestOver(r)'
  BY HandlerMoves, ServerOfHandlers DEF KInv
<1>2. KInv /\ LeftOver(r, n) /\ <<Handle(r) /\ UNCHANGED cvars>>_hvars
        => LeftOver(r, n - 1)' \/ RequestOver(r)'
  BY HandleSteps DEF KInv
<1>3. LeftOver(r, n) => Unanswered(r)
  BY DEF LeftOver
<1>4. HandlersEnabled => HandlerCan(r)
  BY DEF HandlersEnabled, HandlerCan, Unanswered
<1>5. HFairness => HandlerFair(r)
  BY DEF HFairness
<1> QED
  BY <1>1, <1>2, <1>3, <1>4, <1>5, CallsInvariance, PTL
     DEF HSpec, HandlerFair, HandlerCan, Shortens

LEMMA Twofold ==
    ASSUME NEW r \in Request, NEW d \in Int, AllShorten(r, d)
    PROVE  AllShorten(r, 2 * d)
<1> SUFFICES ASSUME NEW n \in Int PROVE Shortens(r, n, n - 2 * d)
  BY DEF AllShorten
<1> DEFINE k == n - d
<1>1. k \in Int /\ k - d = n - 2 * d
  OBVIOUS
<1>2. Shortens(r, n, k) /\ Shortens(r, k, n - 2 * d)
  BY <1>1 DEF AllShorten
<1> HIDE DEF k
<1> QED
  BY <1>2, PTL DEF Shortens

LEMMA Sixteenfold ==
    ASSUME NEW r \in Request, NEW d \in Int, AllShorten(r, d)
    PROVE  AllShorten(r, 16 * d)
<1>1. AllShorten(r, 2 * d)
  BY Twofold
<1>2. AllShorten(r, 4 * d)
  BY <1>1, Twofold, 2 * d \in Int, 2 * (2 * d) = 4 * d
<1>3. AllShorten(r, 8 * d)
  BY <1>2, Twofold, 4 * d \in Int, 2 * (4 * d) = 8 * d
<1> QED
  BY <1>3, Twofold, 8 * d \in Int, 2 * (8 * d) = 16 * d

LEMMA Manyfold ==
    ASSUME NEW r \in Request, NEW d \in Int, AllShorten(r, d)
    PROVE  AllShorten(r, 65536 * d)
<1>1. AllShorten(r, 16 * d)
  BY Sixteenfold
<1>2. AllShorten(r, 256 * d)
  BY <1>1, Sixteenfold, 16 * d \in Int, 16 * (16 * d) = 256 * d
<1>3. AllShorten(r, 4096 * d)
  BY SMT, <1>2, Sixteenfold, 256 * d \in Int, 16 * (256 * d) = 4096 * d
<1> QED
  BY SMT, <1>3, Sixteenfold, 4096 * d \in Int, 16 * (4096 * d) = 65536 * d

\* Every request is answered, for any number of requests, clients and pairs in a
\* body, however often others change its keys and whether or not its call still
\* waits for it.
THEOREM RequestsAnswered ==
    ASSUME BodiesFit
    PROVE  HSpec /\ []HandlersEnabled => RequestAnswered
<1>1. ASSUME NEW r \in Request
      PROVE  HSpec /\ []HandlersEnabled => (Asked(r) ~> RequestOver(r))
  <2>1. AllShorten(r, 65536)
    BY SMT, StepShortens, Manyfold, 65536 * 1 = 65536
  <2>2. AllShorten(r, 4294967296)
    BY SMT, <2>1, Manyfold, 65536 * 65536 = 4294967296
  <2>3. AllShorten(r, 281474976710656)
    BY SMT, <2>2, Manyfold, 65536 * 4294967296 = 281474976710656
  <2>4. Shortens(r, HeapSize - 1, 0 - 1)
    BY SMT, <2>3 DEF AllShorten, HeapSize
  <2>5. /\ KInv /\ Asked(r) => LeftOver(r, HeapSize - 1) \/ RequestOver(r)
        /\ KInv => ~LeftOver(r, 0 - 1)
    <3>1. HeapSize \in Nat
      BY SMT DEF HeapSize
    <3> QED
      BY <3>1, PairsLeft DEF KInv, LeftOver, Unanswered, Asked, RequestOver
  <2> QED
    BY <2>4, <2>5, CallsInvariance, PTL DEF Shortens
<1>2. HSpec /\ []HandlersEnabled => \A r \in Request : Asked(r) ~> RequestOver(r)
  BY <1>1
<1> QED
  BY <1>2 DEF Asked, RequestOver, RequestAnswered
=============================================================================

----------------------------- MODULE HttpClient -----------------------------
(***************************************************************************)
(* HTTP_Get, HTTP_Set and HTTP_Del of the client library (src/client/      *)
(* clilib/client.go) against the handlers (HttpHandlers), which also serve *)
(* others.  A client makes one call at a time (c.mux).  A call whose       *)
(* connection breaks returns an error, while the server goes on with it.   *)
(*                                                                         *)
(* No call looks at the status code: what it returns is read off the body. *)
(* And none escapes the text it sends.  A key is put into the URL as it is: *)
(* a ? or # ends it there, %xx is decoded, a slash leads to another path or *)
(* to none, and what is no URL is never sent.  Key and value are put into   *)
(* the JSON object as they are: backslashes are decoded, and a quote leaves *)
(* other pairs than the one meant, or no object.  What the server makes of  *)
(* them (FromUrl, FromBody) is the work of net/url, gorilla/mux and         *)
(* encoding/json, and the instance says it of the texts it has.             *)
(***************************************************************************)
EXTENDS HttpHandlers

CONSTANTS Client,
          UrlKey,     \* texts an application takes for keys to get or delete
          Pair,       \* texts it takes for a key to set and for the value
          FromUrl,    \* what the server is asked by the URL of a get or a del
          FromBody,   \* what it is asked by the body made of a pair
          Blank,      \* the empty text
          NotFound    \* the body of a 404

NoUrl == [op |-> "no URL"]

ASSUME ClientAssumption ==
    /\ FromUrl \in [{"get", "del"} -> [UrlKey -> Query \cup {NoUrl}]]
    /\ FromBody \in [Pair -> Query]
    /\ NotFound \notin Text

VARIABLES call,   \* per client: its call
          conn,   \* per client: the request that serves it, as a set
          ret     \* per client: how its last call ended: err, found and val

cvars == <<call, conn, ret>>
hvars == <<vars, cvars>>

HttpCall == [op : {"get", "del"}, key : UrlKey] \cup [op : {"set"}, pair : Pair]
NoResult == [err |-> FALSE, found |-> FALSE, val |-> Blank]

HInit == /\ Init
         /\ call = [c \in Client |-> NoQuery]
         /\ conn = [c \in Client |-> {}]
         /\ ret = [c \in Client |-> NoResult]
----------------------------------------------------------------------------
\* What the server makes of a call.
ToQuery(o) == IF o.op = "set" THEN FromBody[o.pair] ELSE FromUrl[o.op][o.key]

Result(err, body) == [err |-> err, found |-> ~err /\ body # Blank, val |-> body]

\* Go's client parses the URL before it connects, and may refuse it.
Call(c, o) ==
    /\ call[c] = NoQuery
    /\ \/ /\ ToQuery(o) = NoUrl
          /\ ret' = [ret EXCEPT ![c] = Result(TRUE, Blank)]
          /\ UNCHANGED <<vars, call, conn>>
       \/ /\ call' = [call EXCEPT ![c] = o]
          /\ ret' = [ret EXCEPT ![c] = NoResult]
          /\ \E r \in Request, q \in Query :
                /\ q = ToQuery(o) /\ Arrive(r, q)
                /\ conn' = [conn EXCEPT ![c] = {r}]

Body(answer) == IF Len(answer) = 2 THEN answer[2]
                ELSE IF answer = <<404>> THEN NotFound ELSE Blank

Return(c, result) == /\ ret' = [ret EXCEPT ![c] = result]
                     /\ call' = [call EXCEPT ![c] = NoQuery]
                     /\ conn' = [conn EXCEPT ![c] = {}]

\* Mutant: the call returns before the response.
ReceiveEarly(c) == \E r \in conn[c] :
    /\ resp[r] # Dropped
    /\ Return(c, Result(FALSE, Body(resp[r])))
    /\ UNCHANGED vars

Receive(c) == \E r \in conn[c] :
    /\ resp[r] # <<>>
    /\ Return(c, Result(resp[r] = Dropped, Body(resp[r])))
    /\ Finish(r)

Lose(c) == /\ conn[c] # {}
           /\ Return(c, Result(TRUE, Blank))
           /\ UNCHANGED vars

\* The server goes on with the requests it has, those nobody waits for too.
ServerStep == /\ \/ OtherCall
                 \/ \E r \in Request, q \in Query : Arrive(r, q)
                 \/ \E r \in Request : Handle(r)
                 \/ \E r \in Request : /\ \A c \in Client : r \notin conn[c]
                                       /\ Finish(r)
              /\ UNCHANGED cvars

HNext == \/ ServerStep
         \/ \E c \in Client : \/ \E o \in HttpCall : Call(c, o)
                              \/ Receive(c) \/ Lose(c)

\* Handlers are scheduled.
HandlerFair(r) == WF_hvars(Handle(r) /\ UNCHANGED cvars)
HFairness == \A r \in Request : HandlerFair(r)

HSpec == HInit /\ [][HNext]_hvars /\ HFairness
----------------------------------------------------------------------------
(* Properties *)

\* A call that returns no error did, during the call, what the server makes of
\* it, whatever others did then and although requests of broken calls are still
\* being served: a get found what the key held, or the key was absent or held
\* "", a delete left the key absent, a set stored each pair.  For text with
\* nothing to escape that is what the application asks.  For other text it may be
\* another key, another value or more pairs (src/client/clilib/client.go:394,
\* :421, :442), or nothing: the page of a 404 is taken for a value, and a 406
\* for success.
HttpReturnHolds ==
    [][\A c \in Client : \A r \in conn[c] : call'[c] = NoQuery /\ ~ret'[c].err =>
          LET q == ToQuery(call[c])
              saw == seen[r]
          IN  /\ q.op = "get" => IF ret'[c].found THEN ret'[c].val \in saw[q.key]
                                 ELSE saw[q.key] \cap {Absent, Nil, Blank} # {}
              /\ q.op = "del" => Absent \in saw[q.key]
              /\ q.op = "set" => \A k \in DOMAIN q.data : q.data[k] \in saw[k]]_hvars
=============================================================================

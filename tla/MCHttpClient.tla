---------------------------- MODULE MCHttpClient ----------------------------
(* One client of the library, of which one request may outlive its call, and *)
(* others at the same server; bodies that set one key to a number and the    *)
(* other to a string, or one to null, those of the client, and the empty one. *)
(* MCFromUrl and MCFromBody say what the server makes of each text: a key    *)
(* that ends at its ?, one that is decoded, one that leads to no route and   *)
(* one that is no URL; a value that is decoded, one that brings a pair of    *)
(* its own (the decoder reads no further than the object), and one after     *)
(* which the object does not end.  Text that needs no escaping makes the     *)
(* requests that the first two keys and the first value make.                *)
EXTENDS HttpClient, TLC

MCKey == {"a", "a?b"}
MCBodies == {"a" :> "7" @@ "a?b" :> "t", "a" :> Nil, "a?b" :> "t", <<>>}

MCFromUrl == [op \in {"get", "del"} |-> [k \in UrlKey |->
                 CASE k = "a?b"   -> [op |-> op, key |-> "a"]
                   [] k = "a%3Fb" -> [op |-> op, key |-> "a?b"]
                   [] k = "a/b"   -> [op |-> "unrouted"]
                   [] k = "%"     -> NoUrl]]

MCPair == {"a?b"} \X {"\\u0074", "t\",\"a\":7}", "\\"}

MCFromBody == [p \in MCPair |->
                 CASE p[2] = "\\u0074"      -> [op |-> "set", data |-> "a?b" :> "t"]
                   [] p[2] = "t\",\"a\":7}" -> [op |-> "set",
                                              data |-> "a" :> "7" @@ "a?b" :> "t"]
                   [] p[2] = "\\"           -> [op |-> "unacceptable"]]
=============================================================================

--------------------------- MODULE ClientSession ---------------------------
(***************************************************************************)
(* The socket client of the client library (src/client/clilib/client.go)   *)
(* talking to one server session (SocketSession) over a TCP connection.    *)
(*                                                                         *)
(* SOCK_Set, SOCK_Get and SOCK_Del write a whole request at once and read  *)
(* ONE line.  The two directions of the connection are queues of lines; a  *)
(* key or a value is as many lines as it has line breaks in it, on the way *)
(* there and back (Lines).  Nothing has a deadline.  A connection that     *)
(* breaks may lose what was not read; the library closes none itself.      *)
(*                                                                         *)
(* One goroutine at a time uses a Client, as in the test client (OneOwner  *)
(* of ClientPool): the SOCK_ calls take no lock, and two at once could     *)
(* read each other's replies.                                              *)
(***************************************************************************)
EXTENDS SocketSession, LineEscape

CONSTANTS ClientKey,  \* keys the application asks for
          ClientVal,  \* values it sets
          HttpVal,    \* values others store under these keys
          Lines       \* Lines[x]: the lines x is sent as

Welcome == "200 X"
ACK == "ACK"
NUL == "NUL"
NamedNUL == "NUL and a key"
CAN == "CAN"
Empty == ""                    \* the empty line, of an empty value

ASSUME ClientAssumption ==
    /\ ClientKey \subseteq Key
    /\ HttpVal \subseteq Text \cup NonString \cup {Absent}
    /\ Lines \in [ClientKey \cup ClientVal \cup Text -> Seq(Line)]

\* Keys and values without line breaks, as the library's escaping leaves them.
SingleLines ==
    /\ ClientVal \subseteq Text
    /\ \A x \in ClientKey \cup ClientVal \cup (HttpVal \cap Text) : Lines[x] = <<x>>

VARIABLES toServer, toClient,  \* lines on their way
          cpc,                 \* "connecting", "idle", "waiting" for a reply
          call,                \* the call that runs, or the last one
          result,              \* what it left in err, resp and found
          effects              \* what the session did to the database for it

client == <<toServer, toClient, cpc, call, result, effects>>
cvars  == <<vars, client>>

NoCall   == [op |-> "none", key |-> "", val |-> ""]
NoResult == [err |-> FALSE, resp |-> "", found |-> FALSE]

CInit == /\ Init /\ ~socket
         /\ toServer = <<>> /\ toClient = <<>>
         /\ cpc = "connecting"
         /\ call = NoCall /\ result = NoResult /\ effects = {}

\* The session has ended, or the whole server has.
PeerGone == pc \in {"left", "panic"}

----------------------------------------------------------------------------
(* The client library *)

\* CliConnect reads the welcome banner.
Connected == /\ cpc = "connecting" /\ toClient # <<>>
             /\ toClient' = Tail(toClient)
             /\ cpc' = "idle"
             /\ UNCHANGED <<vars, toServer, call, result, effects>>

\* Mutant: the value is sent before the key.
RequestSwapped(c) == <<Started[c.op]>>
                         \o (IF c.op = "SET" THEN Lines[c.val] ELSE <<>>)
                         \o Lines[c.key] \o <<ETB>>

\* What the call writes, in one piece.
Request(c) == <<Started[c.op]>> \o Lines[c.key]
                  \o (IF c.op = "SET" THEN Lines[c.val] ELSE <<>>) \o <<ETB>>

Return(err, resp, found) ==
    /\ cpc' = "idle"
    /\ result' = [err |-> err, resp |-> resp, found |-> found]

\* A call of the application.  When the peer is gone the write fails, or it
\* succeeds and what was written is lost.
Call(c) ==
    /\ cpc = "idle"
    /\ call' = c /\ effects' = {}
    /\ \/ /\ cpc' = "waiting" /\ result' = NoResult
          /\ toServer' = IF PeerGone THEN <<>> ELSE toServer \o Request(c)
       \/ PeerGone /\ Return(TRUE, "", FALSE) /\ UNCHANGED toServer
    /\ UNCHANGED <<vars, toClient>>

\* SOCK_Set: an empty reply is an error, one other than ACK is only logged.
SetReturns(reply) == IF reply = Empty THEN Return(TRUE, "", FALSE)
                     ELSE Return(FALSE, reply, FALSE)

\* SOCK_Get: NUL sets found to false and, unless a key follows, the code goes
\* on to set it to true.
GetReturns(reply) ==
    IF reply \in {Empty, NamedNUL} THEN Return(FALSE, "", FALSE)
    ELSE Return(FALSE, reply, TRUE)

\* SOCK_Del.
DelReturns(reply) ==
    Return(FALSE, IF reply \in {Empty, NamedNUL} THEN "" ELSE reply, FALSE)

ReadReply ==
    /\ cpc = "waiting" /\ toClient # <<>>
    /\ LET reply == Head(toClient) IN
       \/ call.op = "SET" /\ SetReturns(reply)
       \/ call.op = "GET" /\ GetReturns(reply)
       \/ call.op = "DEL" /\ DelReturns(reply)
    /\ toClient' = Tail(toClient)
    /\ UNCHANGED <<vars, toServer, call, effects>>

\* Mutant: lines of the broken connection are kept for the next call.
ReadFailsKeepsLines == /\ cpc = "waiting" /\ PeerGone
                       /\ Return(TRUE, "", FALSE)
                       /\ UNCHANGED <<vars, toServer, toClient, call, effects>>

\* ReadLine returns an error: the peer is gone, what it had sent is lost.
ReadFails == /\ cpc = "waiting" /\ PeerGone
             /\ Return(TRUE, "", FALSE)
             /\ toServer' = <<>> /\ toClient' = <<>>
             /\ UNCHANGED <<vars, call, effects>>

\* The application dials again after its session has ended.  A server that has
\* panicked is not there to be dialled.
Redial == /\ cpc \in {"idle", "connecting"}
          /\ Reconnect /\ ~socket'
          /\ toServer' = <<>> /\ toClient' = <<>>
          /\ cpc' = "connecting"
          /\ call' = NoCall /\ result' = NoResult /\ effects' = {}

ClientStep == Connected \/ ReadReply \/ ReadFails

----------------------------------------------------------------------------
(* The session at the other end of the connection *)

Greet == /\ Banner
         /\ toClient' = IF pc' = "read" THEN <<Welcome>> ELSE toClient
         /\ UNCHANGED <<toServer, cpc, call, result, effects>>

\* The next line that arrived; a refusal of a line that is no command is
\* answered CAN, any other end of the session is silent.
ReadLine ==
    /\ toServer # <<>>
    /\ LET l == Head(toServer) IN
       /\ line' = l
       /\ \/ \E m \in Modes : StartCommand(m)
          \/ OnLine(l) \/ MoreKeys \/ IgnoreDelimiter \/ StartBatch
       /\ toClient' = IF pc' = "left" /\ (mode \in Modes \/ l \notin Command)
                      THEN Append(toClient, CAN) ELSE toClient
    /\ toServer' = Tail(toServer)
    /\ UNCHANGED <<cpc, call, result, effects>>

\* Mutant: a value is written with two line ends.
WireBlankLine(r) == IF r.tag = "VAL" THEN Append(Lines[r.text], Empty)
                    ELSE <<r.tag>>

\* The line or lines a reply is written as.
Wire(r) == IF r.tag = "VAL" THEN Lines[r.text]
           ELSE IF r.tag = NUL /\ r.text # "" THEN <<NamedNUL>>
           ELSE <<r.tag>>

\* What a step of a batch does to the database.
Effect == IF pc = "SET" /\ todo <= Len(keys)
          THEN {<<keys[todo], vals[keys[todo]]>>}
          ELSE IF pc = "DEL" /\ todo <= Len(keys)
          THEN {<<keys[todo], Absent>>} ELSE {}

\* The library waits for the reply and reads it, so that no write blocks for long.
Answer == /\ BatchStep /\ pc' # "blocked"
          /\ toClient' = toClient \o
                 (IF sent' = sent THEN <<>> ELSE Wire(sent'[Len(sent')]))
          /\ effects' = effects \cup Effect
          /\ UNCHANGED <<toServer, cpc, call, result>>

\* The connection breaks while the session waits for a line.
Break == ReadError /\ UNCHANGED client

\* Others, over HTTP, change what is stored under the application's keys; what
\* they store need not be a string.
Others == /\ pc # "panic"
          /\ \E k \in ClientKey, v \in HttpVal : kv' = [kv EXCEPT ![k] = v]
          /\ UNCHANGED <<session, client>>

SessionStep == Greet \/ ReadLine \/ Answer

Calls == [op : {"SET"}, key : ClientKey, val : ClientVal]
             \cup [op : {"GET", "DEL"}, key : ClientKey, val : {""}]

CNext == \/ \E c \in Calls : Call(c)
         \/ ClientStep \/ SessionStep
         \/ Redial \/ Break \/ Others

\* Both ends run when they can; the connection delivers or breaks.
CSpec == CInit /\ [][CNext]_cvars /\ WF_cvars(ClientStep) /\ WF_cvars(SessionStep)

----------------------------------------------------------------------------
(* Properties *)

\* A reply is read by the call it answers: between two calls on a connection
\* that is still open nothing is under way in either direction.  One stray line
\* would shift every later answer by one call.
RepliesInStep ==
    cpc = "idle" /\ ~PeerGone => toServer = <<>> /\ toClient = <<>>

Asked == IF call.op = "SET" THEN {<<call.key, call.val>>}
         ELSE IF call.op = "DEL" THEN {<<call.key, Absent>>} ELSE {}

\* The session does to the database what the call asked for and nothing else,
\* and all of it when the call returns with an answer other than CAN, the state
\* the last call left the session in notwithstanding.
EffectsOfCall ==
    /\ effects \subseteq Asked
    /\ cpc = "idle" /\ ~result.err /\ result.resp # CAN => effects = Asked

\* The value a GET returns is the one the key it asked for had when the session
\* read it, whatever requests and connections came before.
GetReturnsHeld ==
    cpc = "idle" /\ call.op = "GET" /\ ~result.err
        /\ result.resp \notin {"", NUL, CAN}
    => /\ sent # <<>> /\ sent[1].tag = "VAL" /\ sent[1].about = call.key
       /\ sent[1].had = result.resp

\* A value its application escaped, and a GET returns, is, unescaped, the text it
\* was, for every mix and order of its line breaks, although the two passes of
\* Escape and those of UnEscape see each other's output (src/client/clilib/
\* client.go:492): all texts but those that are ambiguous.
EscapeRoundTrip ==
    cpc = "idle" /\ call.op = "GET" /\ result.resp \in ClientVal =>
        Mangled = Ambiguities

\* A call returns: with single-line keys and values no reply is ever missing
\* on a connection that stays open, and the call notices one that breaks, also
\* when the number another protocol stored under its key ends the server.
CallReturns == cpc = "waiting" ~> cpc = "idle"
=============================================================================

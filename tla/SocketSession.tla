--------------------------- MODULE SocketSession ---------------------------
(***************************************************************************)
(* One client connection as handleSocketConn serves it                     *)
(* (src/server/socket.go): a line-driven state machine over mode and state *)
(* that collects keys and values and, at the ETB line, runs the database   *)
(* calls of the batch one by one, writing a reply after each.  Other       *)
(* sessions and HTTP requests work on the same database between any two    *)
(* of these steps (OtherCall).                                             *)
(*                                                                         *)
(* A line is what the code tells apart.  Where it reads a key or a value   *)
(* it takes any line that is not too long, a delimiter included, so Key    *)
(* may contain ETB: a client that lost count of its lines.  A database     *)
(* call is one step on one map (SubDick, XDick) and Set never fails.       *)
(*                                                                         *)
(* No write has a deadline: one whose peer does not read blocks the        *)
(* session until it reads or goes.  In a batch that is the state           *)
(* "blocked"; elsewhere a session writes before it leaves or reads on, and *)
(* nothing says when it does either.                                       *)
(*                                                                         *)
(* Left out: the counters numBy, set/tmpset, get/tmpget, del/tmpdel and    *)
(* the byte counts, which are written and, but for numBy = 0 in a command  *)
(* line, never tested.                                                     *)
(***************************************************************************)
EXTENDS Integers, Sequences, FiniteSets

CONSTANTS Key,        \* lines sent where a key is read
          Text,       \* lines sent where a value is read: strings
          NonString,  \* values only HTTP can store: numbers, lists, ...
          Absent,     \* no entry: Get leaves nil in val
          MaxKeys     \* bound: keys a client sends in one batch

ETB == "ETB"
BEL == "BEL"
Blank == ""
TooLong == "too long"                    \* over KEY_LIMIT, over VAL_LIMIT
Modes   == {"SET", "GET", "DEL"}
Started == [SET |-> "S|1", GET |-> "G|1", DEL |-> "D|1"]
ZeroNumber == {"S|0", "G|0", "D|0"}      \* 0, or a number that does not parse
MemProfile == "1|"
CpuProfile == "2|"
Command == {Started[m] : m \in Modes} \cup ZeroNumber
               \cup {MemProfile, CpuProfile, "Z|", "unknown|"}
OneChar == {ETB, BEL, "one other byte"}
Line    == Key \cup Text \cup OneChar \cup Command \cup {TooLong, "malformed"}

ASSUME SessionAssumption ==
    /\ MaxKeys \in Nat \ {0}
    /\ Absent \notin Text \cup NonString
    /\ Text \cap NonString = {}
    /\ TooLong \notin Key \cup Text
    /\ "nil" \notin Key            \* so no made map is NilMap

VARIABLES kv,       \* the database
          socket,   \* the connection came over the unix socket
          pc,       \* "banner", "read", the batch loop of a mode, "blocked"
                    \* in a write of it, "left", "panic"
          mode, state, key, keys, vals,
          line,     \* the line read last
          todo,     \* position in keys of the batch loop
          sent      \* replies of the last batch: what was written, about which
                    \* key, and what the database held for it at that moment

session == <<socket, pc, mode, state, key, keys, vals, line, todo, sent>>
vars    == <<kv, session>>

NilMap == [nil |-> TRUE]

FirstStep(unix) == IF unix THEN "read" ELSE "banner"

Init == /\ kv = [k \in Key |-> Absent]
        /\ socket \in BOOLEAN
        /\ pc = FirstStep(socket)
        /\ mode = "no_mode" /\ state = -1 /\ key = Blank /\ keys = <<>>
        /\ vals = NilMap /\ line = Blank /\ todo = 1 /\ sent = <<>>

\* break readlines, and the deferred Close.
Leave == /\ pc' = "left"
         /\ UNCHANGED <<socket, mode, state, key, keys, vals, todo, sent>>

\* The welcome banner of a TCP connection; writing it may fail.
Banner == /\ pc = "banner"
          /\ pc' \in {"read", "left"}
          /\ UNCHANGED <<kv, socket, mode, state, key, keys, vals, line,
                         todo, sent>>

\* The peer disconnects: ReadLine returns an error.
ReadError == /\ pc = "read"
             /\ Leave
             /\ UNCHANGED <<kv, line>>

Read(l) == pc = "read" /\ line' = l

----------------------------------------------------------------------------
(* no_mode: the command line *)

\* Mutant: vals is not made again after a SET has set it to nil.
ClearKeysOnly == keys' = <<>> /\ UNCHANGED vals

\* keys = nil, and vals is made if it is nil.
ClearBatch == /\ keys' = <<>>
              /\ vals' = IF vals = NilMap THEN <<>> ELSE vals

StartCommand(m) ==
    /\ Read(Started[m]) /\ mode = "no_mode"
    /\ ClearBatch
    /\ mode' = m /\ state' = 0
    /\ UNCHANGED <<kv, socket, pc, key, todo, sent>>

\* No command (answered CAN), number 0, quit, unknown, or a profile over TCP.
RefuseCommand(l) ==
    /\ Read(l) /\ mode = "no_mode"
    /\ l \notin {Started[m] : m \in Modes}
    /\ l \in {MemProfile, CpuProfile} => ~socket
    /\ ClearBatch
    /\ state' = IF l \in Command THEN -1 ELSE state
    /\ pc' = "left"
    /\ UNCHANGED <<kv, socket, mode, key, todo, sent>>

\* A memory profile, or the start or the stop of a CPU profile, over the unix
\* socket: the profiler's state is not part of the session.
Profile(l) == /\ Read(l) /\ l \in {MemProfile, CpuProfile}
              /\ mode = "no_mode" /\ socket
              /\ ClearBatch
              /\ state' = -1
              /\ UNCHANGED <<kv, socket, pc, mode, key, todo, sent>>

----------------------------------------------------------------------------
(* modeSET, modeGET, modeDEL: collecting the batch *)

AtDelimiter == state = IF mode = "SET" THEN 2 ELSE 1

\* Answered CAN: a key or value over the limit, a delimiter of many bytes.
Cancel(l) == /\ Read(l) /\ mode \in Modes
             /\ IF AtDelimiter THEN l \notin OneChar ELSE l = TooLong
             /\ Leave
             /\ UNCHANGED kv

ReadSetKey(l) == /\ Read(l) /\ l \in Key /\ mode = "SET" /\ state = 0
                 /\ key' = l
                 /\ state' = 1
                 /\ UNCHANGED <<kv, socket, pc, mode, keys, vals, todo, sent>>

ReadKey(l) == /\ Read(l) /\ l \in Key /\ mode \in {"GET", "DEL"} /\ state = 0
              /\ keys' = Append(keys, l)
              /\ state' = 1
              /\ UNCHANGED <<kv, socket, pc, mode, key, vals, todo, sent>>

ReadVal(l) == /\ Read(l) /\ l \in Text /\ mode = "SET" /\ state = 1
              /\ keys' = Append(keys, key)
              /\ vals' = [k \in DOMAIN vals \cup {key} |->
                             IF k = key THEN l ELSE vals[k]]
              /\ key' = Blank
              /\ state' = 2
              /\ UNCHANGED <<kv, socket, pc, mode, todo, sent>>

\* In modeSET the state stays 2.
MoreKeys == /\ Read(BEL) /\ mode \in Modes /\ AtDelimiter
            /\ Len(keys) < MaxKeys
            /\ state' = IF mode = "SET" THEN state ELSE 0
            /\ UNCHANGED <<kv, socket, pc, mode, key, keys, vals, todo, sent>>

IgnoreDelimiter ==
    /\ Read("one other byte") /\ mode \in Modes /\ AtDelimiter
    /\ UNCHANGED <<kv, socket, pc, mode, state, key, keys, vals, todo, sent>>

StartBatch == /\ Read(ETB) /\ mode \in Modes /\ AtDelimiter
              /\ pc' = mode
              /\ todo' = 1 /\ sent' = <<>>
              /\ UNCHANGED <<kv, socket, mode, state, key, keys, vals>>

----------------------------------------------------------------------------
(* The batch, one database call and one reply at a time *)

\* Mutant: a reply that could not be written is skipped.
ReplyOrSkip(tag, text) ==
    /\ \/ sent' = Append(sent, [tag |-> tag, text |-> text,
                                about |-> keys[todo], had |-> kv[keys[todo]]])
       \/ UNCHANGED sent
    /\ todo' = todo + 1
    /\ UNCHANGED pc

\* The write may block, or fail: the loop is left, the rest of the batch is not
\* done.
Reply(tag, text) ==
    \/ /\ sent' = Append(sent, [tag |-> tag, text |-> text,
                                about |-> keys[todo], had |-> kv[keys[todo]]])
       /\ todo' = todo + 1
       /\ pc' \in {pc, "blocked"}
    \/ pc' = "left" /\ UNCHANGED <<sent, todo>>

SetOne == /\ pc = "SET" /\ todo <= Len(keys)
          /\ kv' = [kv EXCEPT ![keys[todo]] = vals[keys[todo]]]
          /\ todo' = todo + 1
          /\ UNCHANGED <<socket, pc, mode, state, key, keys, vals, line,
                         sent>>

\* Mutant: the ACK is forgotten.
SetDoneSilent == /\ pc = "SET" /\ todo > Len(keys)
                 /\ keys' = <<>> /\ vals' = NilMap
                 /\ mode' = "no_mode" /\ pc' = "read"
                 /\ UNCHANGED <<kv, socket, state, key, line, todo, sent>>

SetAcknowledged == /\ sent' = <<[tag |-> "ACK"]>>
                   /\ keys' = <<>> /\ vals' = NilMap
                   /\ mode' = "no_mode" /\ pc' = "read"

\* One ACK for the whole batch; when it cannot be written the session ends.
SetDone == /\ pc = "SET" /\ todo > Len(keys)
           /\ \/ SetAcknowledged
              \/ pc' \in {"blocked", "left"} /\ UNCHANGED <<sent, keys, vals, mode>>
           /\ UNCHANGED <<kv, socket, state, key, line, todo>>

\* An absent key is answered NUL, followed by key when there are several; key
\* is the variable of modeSET.  A value that is no string fails val.(string):
\* nothing recovers and the whole process ends.
GetOne ==
    /\ pc = "GET" /\ todo <= Len(keys)
    /\ LET val == kv[keys[todo]] IN
       \/ val = Absent /\ Reply("NUL", IF Len(keys) > 1 THEN key ELSE Blank)
       \/ val \in Text /\ Reply("VAL", val)
       \/ val \in NonString /\ pc' = "panic" /\ UNCHANGED <<sent, todo>>
    /\ UNCHANGED <<kv, socket, mode, state, key, keys, vals, line>>

GetDone == /\ pc = "GET" /\ todo > Len(keys)
           /\ mode' = "no_mode" /\ keys' = <<>> /\ pc' = "read"
           /\ UNCHANGED <<kv, socket, state, key, vals, line, todo, sent>>

\* Mutant: only a DEL that deleted is answered.
DelOneSilent ==
    /\ pc = "DEL" /\ todo <= Len(keys)
    /\ kv' = [kv EXCEPT ![keys[todo]] = Absent]
    /\ IF kv[keys[todo]] # Absent THEN Reply("NUL", key)
       ELSE todo' = todo + 1 /\ UNCHANGED <<pc, sent>>
    /\ UNCHANGED <<socket, mode, state, key, keys, vals, line>>

\* Del returned nil, the key was there: NUL.  It returned an error: ACK.
DelOne ==
    /\ pc = "DEL" /\ todo <= Len(keys)
    /\ kv' = [kv EXCEPT ![keys[todo]] = Absent]
    /\ IF kv[keys[todo]] # Absent THEN Reply("NUL", key) ELSE Reply("ACK", Blank)
    /\ UNCHANGED <<socket, mode, state, key, keys, vals, line>>

\* mode, state and keys stay as they are.
DelDone == /\ pc = "DEL" /\ todo > Len(keys)
           /\ pc' = "read"
           /\ UNCHANGED <<kv, socket, mode, state, key, keys, vals, line,
                          todo, sent>>

BatchStep == SetOne \/ SetDone \/ GetOne \/ GetDone \/ DelOne \/ DelDone

\* A blocked write returns, the peer having read, or fails, the peer being gone.
WriteEnds == /\ pc = "blocked"
             /\ \/ mode = "SET" /\ SetAcknowledged
                \/ /\ \/ mode # "SET" /\ pc' = mode
                      \/ pc' = "left"
                   /\ UNCHANGED <<sent, keys, vals, mode>>
             /\ UNCHANGED <<kv, socket, state, key, line, todo>>

----------------------------------------------------------------------------
(* The rest of the server *)

\* A database call of another session, or of an HTTP request.
OtherCall == /\ pc # "panic"
             /\ \E k \in Key, v \in Text \cup NonString \cup {Absent} :
                    kv' = [kv EXCEPT ![k] = v]
             /\ UNCHANGED session

\* The client connects again, on the same or the other kind of socket.
Reconnect == /\ pc = "left"
             /\ socket' \in BOOLEAN
             /\ pc' = FirstStep(socket')
             /\ mode' = "no_mode" /\ state' = -1 /\ key' = Blank /\ keys' = <<>>
             /\ vals' = NilMap /\ line' = Blank /\ todo' = 1 /\ sent' = <<>>
             /\ UNCHANGED kv

OnLine(l) == \/ RefuseCommand(l) \/ Profile(l) \/ Cancel(l)
             \/ ReadSetKey(l) \/ ReadKey(l) \/ ReadVal(l)

Next == \/ Banner \/ ReadError \/ Reconnect \/ OtherCall
        \/ \E m \in Modes : StartCommand(m)
        \/ \E l \in Line : OnLine(l)
        \/ MoreKeys \/ IgnoreDelimiter \/ StartBatch
        \/ BatchStep \/ WriteEnds

\* A session's goroutine is scheduled.  Nothing makes its peer read, and so no
\* write need end that has not returned at once.
Fairness == WF_vars(BatchStep)

Spec == Init /\ [][Next]_vars /\ Fairness

----------------------------------------------------------------------------
(* Properties *)

\* The types; state stays within the states of the modes.
TypeOK == /\ kv \in [Key -> Text \cup NonString \cup {Absent}]
          /\ socket \in BOOLEAN
          /\ pc \in {"banner", "read", "blocked", "left", "panic"} \cup Modes
          /\ mode \in {"no_mode"} \cup Modes
          /\ state \in -1..2
          /\ key \in Key \cup {Blank}
          /\ keys \in Seq(Key) /\ Len(keys) <= MaxKeys
          /\ vals # NilMap => \A k \in DOMAIN vals : k \in Key /\ vals[k] \in Text
          /\ todo \in 1..MaxKeys + 1

\* In whatever order commands, refusals and batches follow each other, vals is
\* a made map in modeSET (assigning to a nil one ends the process) with a value
\* for the keys of this batch (the ETB loop dereferences it) and for no others.
SetHasValues ==
    mode = "SET" => /\ vals # NilMap
                    /\ DOMAIN vals = {keys[i] : i \in 1..Len(keys)}

\* state says what was collected: a command finds an empty batch, a delimiter
\* is read only after a key, and between commands nothing is kept.
StateMatchesBatch ==
    pc = "read" => /\ mode = "no_mode" => keys = <<>>
                   /\ mode # "no_mode" => state >= 0
                   /\ mode = "SET" /\ ~AtDelimiter => keys = <<>>
                   /\ mode \in Modes /\ AtDelimiter => keys # <<>>

\* What mode and state say of the batch and what the batch holds agree.
BatchAgrees == SetHasValues /\ StateMatchesBatch

\* The i-th reply of a GET or DEL batch is about its i-th key, and the GET
\* reply is the value that key had when it was read, NUL when it had none,
\* whatever other callers did to it before and after.
RepliesMatchKeys ==
    mode \in {"GET", "DEL"} /\ pc \in {mode, "blocked"} =>
        /\ Len(sent) = todo - 1
        /\ \A i \in 1..Len(sent) :
              LET r == sent[i] IN
              /\ r.about = keys[i]
              /\ mode = "GET" => IF r.had = Absent THEN r.tag = "NUL"
                                 ELSE r.tag = "VAL" /\ r.text = r.had

\* An ETB is answered, one ACK for a SET, one reply per key for a GET or a DEL,
\* and the session reads on, unless it ended or took the process with it, or a
\* write waits for ever for a peer that neither reads nor goes.
EtbAnswered ==
    \A m \in Modes :
        pc = m ~> \/ pc = "read" /\ Len(sent) = todo - 1
                  \/ pc \in {"left", "panic"}
                  \/ [](pc = "blocked")
=============================================================================

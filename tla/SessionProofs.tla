--------------------------- MODULE SessionProofs ---------------------------
(***************************************************************************)
(* handleSocketConn keeps mode, state, keys and vals in step, proved for   *)
(* any keys and values, any order of lines and any number of keys in a     *)
(* batch.  Collected says what each mode and state has collected; from it  *)
(* follow that the SET loop finds a value for each key, and that replies   *)
(* are about the keys in their order.  Each step of a batch leaves less to *)
(* do, so it is answered to its end, or waits in a write for a peer that   *)
(* does not read.                                                          *)
(*                                                                         *)
(* A client library at the other end adds no steps (ClientIsAPeer); where  *)
(* the two can be at the same time is CInv, and a call has at most seven   *)
(* lines to wait for.  Last, what Escape does to texts of any length,      *)
(* which lets an application send any value there.                         *)
(***************************************************************************)
EXTENDS ClientSession, SequenceTheorems, WellFoundedInduction, TLAPS

Types == /\ kv \in [Key -> Text \cup NonString \cup {Absent}]
         /\ socket \in BOOLEAN
         /\ pc \in {"banner", "read", "blocked", "left", "panic"} \cup Modes
         /\ mode \in {"no_mode"} \cup Modes
         /\ state \in -1..2
         /\ key \in Key \cup {Blank}
         /\ keys \in Seq(Key)
         /\ todo \in 1..MaxKeys + 1

\* Outside modeSET vals is nil or empty, in it the values of the keys.
ValsOK ==
    /\ mode # "SET" => vals = NilMap \/ DOMAIN vals = {}
    /\ mode = "SET" => /\ \A k : k \in DOMAIN vals <=> \E i \in 1..Len(keys) : k = keys[i]
                       /\ \A k \in DOMAIN vals : vals[k] \in Text

Collected ==
    /\ mode = "no_mode" => keys = <<>>
    /\ mode = "SET" => \/ state = 0 /\ keys = <<>>
                       \/ state = 1 /\ keys = <<>> /\ key \in Key
                       \/ state = 2 /\ Len(keys) = 1
    /\ mode \in {"GET", "DEL"} => \/ state = 0 /\ Len(keys) \in 0..MaxKeys - 1
                                  \/ state = 1 /\ Len(keys) \in 1..MaxKeys
    /\ pc \in Modes \cup {"blocked"} =>
           /\ mode \in Modes /\ pc \in {mode, "blocked"}
           /\ AtDelimiter /\ todo <= Len(keys) + 1
    /\ pc = "blocked" /\ mode = "SET" => todo = Len(keys) + 1

Replying == mode \in {"GET", "DEL"} /\ pc \in {mode, "blocked"}

ReplyRecord == [tag : {"NUL", "VAL", "ACK"}, text : Key \cup Text \cup {Blank},
           about : Key, had : Text \cup NonString \cup {Absent}]

SInv == /\ Types /\ ValsOK /\ Collected /\ RepliesMatchKeys
        /\ Replying => sent \in Seq(ReplyRecord)
----------------------------------------------------------------------------
LEMMA InitHolds == Init => SInv
BY SessionAssumption
   DEF Init, SInv, Types, ValsOK, Collected, Replying, RepliesMatchKeys, FirstStep,
       Modes

\* Steps that only move pc, to no batch loop, and perhaps the line or the
\* database.
LEMMA PcStep ==
    ASSUME SInv, pc' \in {"banner", "read", "left", "panic"},
           kv' \in [Key -> Text \cup NonString \cup {Absent}],
           UNCHANGED <<socket, mode, state, key, keys, vals, todo>>
    PROVE  SInv'
BY DEF SInv, Types, ValsOK, Collected, Replying, RepliesMatchKeys, AtDelimiter, Modes

LEMMA OtherCallStep == ASSUME SInv, OtherCall PROVE SInv'
BY DEF OtherCall, session, SInv, Types, ValsOK, Collected, Replying,
       RepliesMatchKeys, AtDelimiter, Modes

LEMMA ReconnectStep == ASSUME SInv, Reconnect PROVE SInv'
BY SessionAssumption
   DEF Reconnect, FirstStep, SInv, Types, ValsOK, Collected, Replying,
       RepliesMatchKeys, Modes

LEMMA StartCommandStep ==
    ASSUME SInv, NEW m \in Modes, StartCommand(m)
    PROVE  SInv'
<1>1. /\ pc = "read" /\ pc' = "read" /\ mode = "no_mode" /\ mode' = m /\ state' = 0
      /\ keys' = <<>> /\ UNCHANGED <<kv, socket, key, todo>>
      /\ vals' = IF vals = NilMap THEN <<>> ELSE vals
  BY DEF StartCommand, Read, ClearBatch
<1>2. DOMAIN vals' = {}
  <2>1. CASE vals = NilMap
    BY <1>1, <2>1
  <2>2. CASE vals # NilMap
    BY <1>1, <2>2 DEF SInv, ValsOK
  <2> QED
    BY <2>1, <2>2
<1>3. Types' /\ ValsOK'
  BY <1>1, <1>2 DEF SInv, Types, ValsOK, Modes
<1>4. Collected' /\ RepliesMatchKeys'
  BY <1>1, SessionAssumption DEF Collected, RepliesMatchKeys, Modes
<1> QED
  BY <1>1, <1>3, <1>4 DEF SInv, Replying

LEMMA CommandStep ==
    ASSUME SInv, NEW l \in Line, RefuseCommand(l) \/ Profile(l)
    PROVE  SInv'
<1>1. /\ pc = "read" /\ pc' \in {"read", "left"} /\ mode = "no_mode" /\ mode' = mode
      /\ state' \in {-1, state} /\ keys' = <<>> /\ UNCHANGED <<kv, socket, key, todo>>
      /\ vals' = IF vals = NilMap THEN <<>> ELSE vals
  BY DEF RefuseCommand, Profile, Read, ClearBatch
<1>2. vals' = NilMap \/ DOMAIN vals' = {}
  <2>1. CASE vals = NilMap
    BY <1>1, <2>1
  <2>2. CASE vals # NilMap
    BY <1>1, <2>2 DEF SInv, ValsOK
  <2> QED
    BY <2>1, <2>2
<1>3. Types' /\ ValsOK'
  BY <1>1, <1>2 DEF SInv, Types, ValsOK, Modes
<1>4. Collected' /\ RepliesMatchKeys'
  BY <1>1 DEF Collected, RepliesMatchKeys, Modes
<1> QED
  BY <1>1, <1>3, <1>4 DEF SInv, Replying

LEMMA ReadSetKeyStep == ASSUME SInv, NEW l \in Line, ReadSetKey(l) PROVE SInv'
BY DEF ReadSetKey, Read, SInv, Types, ValsOK, Collected, Replying,
       RepliesMatchKeys, Modes

LEMMA ReadKeyStep == ASSUME SInv, NEW l \in Line, ReadKey(l) PROVE SInv'
<1>1. /\ pc = "read" /\ pc' = "read" /\ l \in Key /\ mode \in {"GET", "DEL"}
      /\ state = 0 /\ state' = 1 /\ keys' = Append(keys, l)
      /\ UNCHANGED <<kv, socket, mode, key, vals, todo>>
  BY DEF ReadKey, Read
<1>2. keys' \in Seq(Key) /\ Len(keys') = Len(keys) + 1 /\ Len(keys) \in 0..MaxKeys - 1
  BY <1>1 DEF SInv, Types, Collected
<1>3. Types' /\ ValsOK'
  BY <1>1, <1>2 DEF SInv, Types, ValsOK
<1>4. Collected' /\ RepliesMatchKeys'
  BY <1>1, <1>2, SessionAssumption DEF Collected, RepliesMatchKeys, Modes
<1> QED
  BY <1>1, <1>3, <1>4 DEF SInv, Replying

LEMMA ReadValStep == ASSUME SInv, NEW l \in Line, ReadVal(l) PROVE SInv'
<1>1. /\ pc = "read" /\ pc' = "read" /\ l \in Text /\ mode = "SET"
      /\ state = 1 /\ state' = 2 /\ keys' = Append(keys, key) /\ key' = Blank
      /\ UNCHANGED <<kv, socket, mode, todo>>
      /\ vals' = [k \in DOMAIN vals \cup {key} |-> IF k = key THEN l ELSE vals[k]]
  BY DEF ReadVal, Read
<1>2. key \in Key /\ keys = <<>> /\ DOMAIN vals = {}
  <2>1. key \in Key /\ keys = <<>>
    BY <1>1 DEF SInv, Collected
  <2>2. Len(keys) = 0
    BY <2>1
  <2> QED
    BY <1>1, <2>1, <2>2 DEF SInv, ValsOK
<1>3. keys' = <<key>> /\ keys' \in Seq(Key) /\ Len(keys') = 1
  BY <1>1, <1>2
<1>4. Types'
  BY <1>1, <1>3 DEF SInv, Types
<1>5. ValsOK'
  BY <1>1, <1>2, <1>3 DEF ValsOK
<1>6. Collected' /\ RepliesMatchKeys'
  BY <1>1, <1>3 DEF Collected, RepliesMatchKeys, Modes
<1> QED
  BY <1>1, <1>4, <1>5, <1>6 DEF SInv, Replying

LEMMA DelimiterStep ==
    ASSUME SInv, MoreKeys \/ IgnoreDelimiter \/ StartBatch
    PROVE  SInv'
<1>1. CASE MoreKeys
  BY <1>1, SessionAssumption
     DEF MoreKeys, Read, SInv, Types, ValsOK, Collected, Replying,
         RepliesMatchKeys, AtDelimiter, Modes
<1>2. CASE IgnoreDelimiter
  BY <1>2, PcStep DEF IgnoreDelimiter, Read, SInv, Types
<1>3. CASE StartBatch
  BY <1>3, SessionAssumption
     DEF StartBatch, Read, SInv, Types, ValsOK, Collected, Replying,
         RepliesMatchKeys, AtDelimiter, Modes
<1> QED
  BY <1>1, <1>2, <1>3
----------------------------------------------------------------------------
(* The batch *)

LEMMA InBatch ==
    ASSUME SInv, pc \in Modes, todo <= Len(keys)
    PROVE  /\ keys[todo] \in Key /\ todo + 1 \in 1..MaxKeys + 1
           /\ mode = pc /\ AtDelimiter
<1>1. /\ mode = pc /\ AtDelimiter /\ keys \in Seq(Key) /\ MaxKeys \in Nat \ {0}
      /\ todo \in 1..Len(keys)
  BY SessionAssumption DEF SInv, Types, Collected, Modes
<1>2. Len(keys) \in 1..MaxKeys
  <2>1. CASE mode = "SET"
    <3>1. state = 2
      BY <1>1, <2>1 DEF AtDelimiter
    <3>2. Len(keys) = 1
      BY <2>1, <3>1 DEF SInv, Collected
    <3> QED
      BY <1>1, <3>2
  <2>2. CASE mode \in {"GET", "DEL"}
    BY <1>1, <2>2 DEF SInv, Collected, AtDelimiter
  <2> QED
    BY <1>1, <2>1, <2>2 DEF Modes
<1> QED
  BY <1>1, <1>2

LEMMA SetOneStep == ASSUME SInv, SetOne PROVE SInv'
<1>1. /\ pc = "SET" /\ todo <= Len(keys) /\ todo' = todo + 1
      /\ kv' = [kv EXCEPT ![keys[todo]] = vals[keys[todo]]]
      /\ UNCHANGED <<socket, pc, mode, state, key, keys, vals>>
  BY DEF SetOne
<1>2. keys[todo] \in Key /\ todo + 1 \in 1..MaxKeys + 1 /\ mode = "SET"
  BY <1>1, InBatch DEF Modes
<1>3. vals[keys[todo]] \in Text
  BY <1>1, <1>2 DEF SInv, Types, ValsOK
<1>4. Types' /\ ValsOK'
  BY <1>1, <1>2, <1>3 DEF SInv, Types, ValsOK
<1>5. Collected' /\ RepliesMatchKeys'
  BY <1>1, <1>2 DEF SInv, Types, Collected, RepliesMatchKeys, AtDelimiter, Modes
<1> QED
  BY <1>1, <1>2, <1>4, <1>5 DEF SInv, Replying

LEMMA AcknowledgedStep ==
    ASSUME SInv, SetAcknowledged, UNCHANGED <<kv, socket, state, key, todo>>
    PROVE  SInv'
BY DEF SetAcknowledged, SInv, Types, ValsOK, Collected, Replying, RepliesMatchKeys,
       Modes

LEMMA SetDoneStep == ASSUME SInv, SetDone PROVE SInv'
<1>1. /\ pc = "SET" /\ todo > Len(keys) /\ UNCHANGED <<kv, socket, state, key, todo>>
      /\ \/ SetAcknowledged
         \/ pc' \in {"blocked", "left"} /\ UNCHANGED <<sent, keys, vals, mode>>
  BY DEF SetDone
<1>2. CASE pc' = "left" /\ UNCHANGED <<sent, keys, vals, mode>>
  BY <1>1, <1>2, PcStep DEF SInv, Types
<1>3. CASE pc' = "blocked" /\ UNCHANGED <<sent, keys, vals, mode>>
  <2>1. todo = Len(keys) + 1 /\ mode = "SET" /\ AtDelimiter
    BY <1>1 DEF SInv, Types, Collected, Modes
  <2>2. Types' /\ ValsOK'
    BY <1>1, <1>3 DEF SInv, Types, ValsOK
  <2>3. Collected' /\ RepliesMatchKeys' /\ ~Replying'
    BY <1>1, <1>3, <2>1
       DEF SInv, Collected, Replying, RepliesMatchKeys, AtDelimiter, Modes
  <2> QED
    BY <2>2, <2>3 DEF SInv
<1> QED
  BY <1>1, <1>2, <1>3, AcknowledgedStep

\* A reply that is sent is about the key at todo, and todo moves on.
LEMMA ReplyStep ==
    ASSUME SInv, pc \in {"GET", "DEL"}, todo <= Len(keys),
           NEW tag \in {"NUL", "VAL", "ACK"}, NEW text \in Key \cup Text \cup {Blank},
           Reply(tag, text),
           pc = "GET" => IF kv[keys[todo]] = Absent THEN tag = "NUL"
                         ELSE tag = "VAL" /\ text = kv[keys[todo]],
           kv' \in [Key -> Text \cup NonString \cup {Absent}],
           UNCHANGED <<socket, mode, state, key, keys, vals>>
    PROVE  SInv'
<1> DEFINE r == [tag |-> tag, text |-> text,
                 about |-> keys[todo], had |-> kv[keys[todo]]]
<1>1. CASE sent' = Append(sent, r) /\ todo' = todo + 1 /\ pc' \in {pc, "blocked"}
  <2>1. /\ keys[todo] \in Key /\ todo + 1 \in 1..MaxKeys + 1
        /\ mode = pc /\ AtDelimiter /\ Replying
    BY InBatch DEF Replying, Modes
  <2>2. /\ r \in ReplyRecord /\ r.about = keys[todo] /\ r.had = kv[keys[todo]]
        /\ r.tag = tag /\ r.text = text
    BY <2>1 DEF SInv, Types, ReplyRecord
  <2> HIDE DEF r
  <2>3. Types' /\ ValsOK'
    BY <1>1, <2>1 DEF SInv, Types, ValsOK
  <2>4. Collected'
    BY <1>1, <2>1 DEF SInv, Types, Collected, AtDelimiter, Modes
  <2>5. sent \in Seq(ReplyRecord) /\ Len(sent) = todo - 1 /\ todo \in Nat
    BY <2>1 DEF SInv, Types, Replying, RepliesMatchKeys
  <2>6. /\ sent' \in Seq(ReplyRecord) /\ Len(sent') = todo
        /\ \A i \in 1..todo - 1 : sent'[i] = sent[i]
        /\ sent'[todo] = r
    BY <1>1, <2>2, <2>5
  <2>7. RepliesMatchKeys'
    <3> SUFFICES ASSUME NEW i \in 1..todo
                 PROVE  /\ sent'[i].about = keys[i]
                        /\ mode = "GET" => IF sent'[i].had = Absent
                                           THEN sent'[i].tag = "NUL"
                                           ELSE /\ sent'[i].tag = "VAL"
                                                /\ sent'[i].text = sent'[i].had
      BY <1>1, <2>5, <2>6 DEF RepliesMatchKeys
    <3>1. CASE i = todo
      BY <3>1, <2>1, <2>2, <2>6
    <3>2. CASE i # todo
      BY <3>2, <2>1, <2>5, <2>6 DEF SInv, Replying, RepliesMatchKeys
    <3> QED
      BY <3>1, <3>2
  <2> QED
    BY <2>3, <2>4, <2>6, <2>7 DEF SInv
<1>2. CASE pc' = "left" /\ UNCHANGED <<sent, todo>>
  BY <1>2, PcStep
<1> QED
  BY <1>1, <1>2 DEF Reply

LEMMA GetOneStep == ASSUME SInv, GetOne PROVE SInv'
<1>1. /\ pc = "GET" /\ todo <= Len(keys)
      /\ UNCHANGED <<kv, socket, mode, state, key, keys, vals>>
  BY DEF GetOne
<1>2. /\ kv' \in [Key -> Text \cup NonString \cup {Absent}]
      /\ key \in Key \cup {Blank} /\ Absent \notin Text
  BY <1>1, SessionAssumption DEF SInv, Types
<1>3. CASE /\ kv[keys[todo]] = Absent
           /\ Reply("NUL", IF Len(keys) > 1 THEN key ELSE Blank)
  BY <1>1, <1>2, <1>3, ReplyStep
<1>4. CASE kv[keys[todo]] \in Text /\ Reply("VAL", kv[keys[todo]])
  BY <1>1, <1>2, <1>4, ReplyStep
<1>5. CASE pc' = "panic" /\ UNCHANGED <<sent, todo>>
  BY <1>1, <1>2, <1>5, PcStep
<1> QED
  BY <1>3, <1>4, <1>5 DEF GetOne

LEMMA DelOneStep == ASSUME SInv, DelOne PROVE SInv'
<1>1. /\ pc = "DEL" /\ todo <= Len(keys)
      /\ kv' = [kv EXCEPT ![keys[todo]] = Absent]
      /\ UNCHANGED <<socket, mode, state, key, keys, vals>>
      /\ Reply("NUL", key) \/ Reply("ACK", Blank)
  BY DEF DelOne
<1>2. /\ kv' \in [Key -> Text \cup NonString \cup {Absent}]
      /\ key \in Key \cup {Blank}
  BY <1>1 DEF SInv, Types
<1> QED
  BY <1>1, <1>2, ReplyStep

LEMMA DoneSteps == ASSUME SInv, GetDone \/ DelDone PROVE SInv'
<1>1. CASE GetDone
  BY <1>1 DEF GetDone, SInv, Types, ValsOK, Collected, Replying, RepliesMatchKeys,
              Modes
<1>2. CASE DelDone
  BY <1>2, PcStep DEF DelDone, SInv, Types
<1> QED
  BY <1>1, <1>2

LEMMA WriteEndsStep == ASSUME SInv, WriteEnds PROVE SInv'
<1>1. /\ pc = "blocked" /\ UNCHANGED <<kv, socket, state, key, todo>>
      /\ \/ mode = "SET" /\ SetAcknowledged
         \/ /\ (mode # "SET" /\ pc' = mode) \/ pc' = "left"
            /\ UNCHANGED <<sent, keys, vals, mode>>
  BY DEF WriteEnds
<1>2. CASE pc' = "left" /\ UNCHANGED <<sent, keys, vals, mode>>
  BY <1>1, <1>2, PcStep DEF SInv, Types
<1>3. CASE mode # "SET" /\ pc' = mode /\ UNCHANGED <<sent, keys, vals, mode>>
  BY <1>1, <1>3 DEF SInv, Types, ValsOK, Collected, Replying, RepliesMatchKeys,
                    AtDelimiter, Modes
<1> QED
  BY <1>1, <1>2, <1>3, AcknowledgedStep

LEMMA NextKeeps == SInv /\ [Next]_vars => SInv'
<1> SUFFICES ASSUME SInv, [Next]_vars PROVE SInv'
  OBVIOUS
<1>0. kv \in [Key -> Text \cup NonString \cup {Absent}]
  BY DEF SInv, Types
<1>1. CASE Banner \/ ReadError
  BY <1>0, <1>1, PcStep DEF Banner, ReadError, Leave
<1>2. ASSUME NEW l \in Line, OnLine(l) PROVE SInv'
  <2>1. CASE Cancel(l)
    BY <1>0, <2>1, PcStep DEF Cancel, Leave
  <2> QED
    BY <1>2, <2>1, CommandStep, ReadSetKeyStep, ReadKeyStep, ReadValStep DEF OnLine
<1>3. CASE BatchStep
  BY <1>3, SetOneStep, SetDoneStep, GetOneStep, DelOneStep, DoneSteps DEF BatchStep
<1>4. CASE UNCHANGED vars
  BY <1>4, PcStep DEF vars, session, SInv, Types, ValsOK, Collected, Replying,
                      RepliesMatchKeys, AtDelimiter
<1> QED
  BY <1>1, <1>2, <1>3, <1>4, OtherCallStep, ReconnectStep, StartCommandStep,
     DelimiterStep, WriteEndsStep DEF Next
----------------------------------------------------------------------------
(* The theorems *)

\* The inductive invariant: what a session has collected in each mode and state.
THEOREM SessionInvariance == Spec => []SInv
BY InitHolds, NextKeeps, PTL DEF Spec

LEMMA AtMostOne == ASSUME NEW n, n = 0 \/ n = 1 PROVE n <= MaxKeys
BY SessionAssumption

\* Types: state stays within the states of its mode, a batch within its bound.
THEOREM SessionTypes == Spec => []TypeOK
<1>1. SInv => TypeOK
  <2> SUFFICES ASSUME SInv PROVE TypeOK
    OBVIOUS
  <2>1. mode \in {"no_mode", "SET", "GET", "DEL"} /\ keys \in Seq(Key)
    BY DEF SInv, Types, Modes
  <2>2. Len(keys) <= MaxKeys
    <3>1. CASE mode \in {"no_mode", "SET"}
      <4>1. Len(keys) = 0 \/ Len(keys) = 1
        BY <3>1 DEF SInv, Collected
      <4> QED
        BY <4>1, AtMostOne
    <3>2. CASE mode \in {"GET", "DEL"}
      BY <3>2, SessionAssumption DEF SInv, Collected
    <3> QED
      BY <2>1, <3>1, <3>2
  <2>3. vals # NilMap => \A k \in DOMAIN vals : k \in Key /\ vals[k] \in Text
    BY <2>1 DEF SInv, ValsOK
  <2> QED
    BY <2>2, <2>3 DEF SInv, Types, TypeOK
<1> QED
  BY <1>1, SessionInvariance, PTL

\* The ETB loop of modeSET finds a value for each of its keys, in a map that was
\* made, after any order of commands: it never ends the process.
THEOREM ValuesPresent == Spec => []SetHasValues
<1>1. SInv => SetHasValues
  <2> SUFFICES ASSUME SInv, mode = "SET"
               PROVE  vals # NilMap /\ DOMAIN vals = {keys[i] : i \in 1..Len(keys)}
    BY DEF SetHasValues
  <2>1. DOMAIN vals \subseteq Key
    BY DEF SInv, Types, ValsOK
  <2>2. DOMAIN NilMap = {"nil"}
    BY DEF NilMap
  <2> QED
    BY <2>1, <2>2, SessionAssumption DEF SInv, ValsOK
<1> QED
  BY <1>1, SessionInvariance, PTL

\* Commands find an empty batch, and a delimiter is read only after a key.
THEOREM StateTruthful == Spec => []StateMatchesBatch
<1>1. SInv => StateMatchesBatch
  <2> SUFFICES ASSUME SInv, pc = "read" PROVE StateMatchesBatch
    BY DEF StateMatchesBatch
  <2>1. mode \in {"no_mode", "SET", "GET", "DEL"} /\ keys \in Seq(Key)
    BY DEF SInv, Types, Modes
  <2>2. CASE mode \in {"no_mode", "SET"}
    BY <2>1, <2>2 DEF SInv, Collected, StateMatchesBatch, AtDelimiter, Modes
  <2>3. CASE mode \in {"GET", "DEL"}
    <3>1. state = 0 \/ (state = 1 /\ Len(keys) >= 1)
      BY <2>3 DEF SInv, Collected
    <3>2. Len(<<>>) = 0
      OBVIOUS
    <3> QED
      BY <2>3, <3>1, <3>2 DEF StateMatchesBatch, AtDelimiter
  <2> QED
    BY <2>1, <2>2, <2>3
<1> QED
  BY <1>1, SessionInvariance, PTL

\* The two together: mode and state against keys and vals.
THEOREM BatchTruthful == Spec => []BatchAgrees
<1>1. SetHasValues /\ StateMatchesBatch => BatchAgrees
  BY DEF BatchAgrees
<1> QED
  BY <1>1, ValuesPresent, StateTruthful, PTL

\* The i-th reply of a GET or DEL batch is about its i-th key, and tells what
\* the database held for it then.
THEOREM RepliesTruthful == Spec => []RepliesMatchKeys
<1>1. SInv => RepliesMatchKeys
  BY DEF SInv
<1> QED
  BY <1>1, SessionInvariance, PTL
----------------------------------------------------------------------------
(* An ETB is answered *)

(* WF is defined with ENABLED, of which the prover has no theory: that a     *)
(* step of a batch can be taken while one runs (BatchEnabled) is a           *)
(* hypothesis of the theorem, on which TLC and a reading of the steps agree. *)
(* The rest of the argument is proved.  Each step leaves less to do, and as  *)
(* there is no induction over temporal formulas, what holds of one step is   *)
(* doubled until it holds of more steps than a Go slice has keys.  A write   *)
(* may block on the way: a batch whose write never returns takes no step,    *)
(* and one whose write does goes on where it was.                            *)

BatchEnabled == pc \in Modes => ENABLED <<BatchStep>>_vars

AtBatch(m) == pc = m
Blocked    == pc = "blocked"
BatchOver  == \/ pc = "read" /\ Len(sent) = todo - 1
              \/ pc \in {"left", "panic"}

\* At most n steps are left; the ACK of a SET is written in a step of its own.
LeftOver(m, n) == /\ pc \in {m, "blocked"} /\ mode = m
                  /\ Len(keys) + (IF pc = "SET" THEN 2 ELSE 1) - todo <= n

Shortens(m, n, k) ==
    Spec /\ []BatchEnabled
        => [](LeftOver(m, n) => <>(LeftOver(m, k) \/ BatchOver \/ []Blocked))
AllShorten(m, d) == \A n \in Int : Shortens(m, n, n - d)

LEMMA Acknowledges ==
    ASSUME SInv, pc \in {"SET", "blocked"}, mode = "SET",
           pc = "SET" => todo > Len(keys), SetAcknowledged, UNCHANGED todo
    PROVE  BatchOver' /\ pc' = "read"
<1>1. todo = Len(keys) + 1 /\ state = 2
  BY SessionAssumption DEF SInv, Types, Collected, AtDelimiter, Modes
<1>2. Len(keys) = 1
  BY <1>1 DEF SInv, Collected
<1>3. Len(<<[tag |-> "ACK"]>>) = todo - 1
  BY <1>1, <1>2
<1> QED
  BY <1>3 DEF SetAcknowledged, BatchOver

\* Each step of a batch is about one key, or ends it, ...
LEMMA BatchSteps ==
    ASSUME SInv, BatchStep, NEW m \in Modes, NEW n \in Int, LeftOver(m, n)
    PROVE  (LeftOver(m, n - 1) /\ LeftOver(m, n))' \/ BatchOver'
<1>1. /\ pc = m /\ mode = m /\ keys \in Seq(Key) /\ todo \in Nat /\ Len(keys) \in Nat
      /\ Len(keys) + (IF m = "SET" THEN 2 ELSE 1) - todo <= n
  BY SessionAssumption DEF SInv, Types, LeftOver, BatchStep, SetOne, SetDone, GetOne,
                           GetDone, DelOne, DelDone, Modes
<1>2. ASSUME SetOne \/ GetOne \/ DelOne PROVE (LeftOver(m, n - 1) /\ LeftOver(m, n))' \/ BatchOver'
  <2>1. \/ /\ pc' = m \/ (pc' = "blocked" /\ m # "SET")
           /\ UNCHANGED <<keys, mode>> /\ todo' = todo + 1
        \/ pc' \in {"left", "panic"}
    BY <1>1, <1>2 DEF SetOne, GetOne, DelOne, Reply
  <2> QED
    BY <1>1, <2>1 DEF LeftOver, BatchOver, Modes
<1>3. ASSUME SetDone PROVE (LeftOver(m, n - 1) /\ LeftOver(m, n))' \/ BatchOver'
  <2>1. pc = "SET" /\ todo > Len(keys) /\ UNCHANGED todo
    BY <1>3 DEF SetDone
  <2>2. CASE SetAcknowledged
    BY <1>1, <2>1, <2>2, Acknowledges
  <2>3. CASE pc' \in {"blocked", "left"} /\ UNCHANGED <<sent, keys, vals, mode>>
    <3>1. CASE pc' = "blocked"
      <4>1. mode' = "SET" /\ m = "SET" /\ keys' = keys /\ todo' = todo
        BY <1>1, <2>1, <2>3
      <4>2. Len(keys) + 1 - todo <= n - 1 /\ Len(keys) + 1 - todo <= n
        BY <1>1, <4>1
      <4> QED
        BY <3>1, <4>1, <4>2 DEF LeftOver
    <3> QED
      BY <2>3, <3>1 DEF BatchOver
  <2> QED
    BY <1>3, <2>2, <2>3 DEF SetDone
<1>4. ASSUME GetDone \/ DelDone PROVE BatchOver'
  <2>1. pc \in {"GET", "DEL"} /\ pc' = "read" /\ UNCHANGED <<sent, todo>>
    BY <1>4 DEF GetDone, DelDone
  <2> QED
    BY <1>1, <2>1 DEF SInv, RepliesMatchKeys, BatchOver
<1> QED
  BY <1>2, <1>3, <1>4 DEF BatchStep

\* ... while no other step takes it further than to where its write returns.
LEMMA BatchMoves ==
    ASSUME SInv, [Next]_vars, NEW m \in Modes, NEW n \in Int, LeftOver(m, n)
    PROVE  /\ LeftOver(m, n)' \/ BatchOver'
           /\ Blocked \/ <<BatchStep>>_vars \/ ~Blocked'
<1>1. pc \in Modes \cup {"blocked"}
  BY DEF LeftOver
<1>2. BatchStep \/ WriteEnds \/ UNCHANGED session
  BY <1>1 DEF Next, Banner, ReadError, Reconnect, OtherCall, StartCommand, OnLine,
              RefuseCommand, Profile, Cancel, ReadSetKey, ReadKey, ReadVal, MoreKeys,
              IgnoreDelimiter, StartBatch, Read, Modes, vars
<1>3. CASE BatchStep
  <2>1. vars' # vars \/ UNCHANGED pc
    BY DEF vars, session
  <2> QED
    BY <1>3, <2>1, BatchSteps DEF Blocked
<1>4. CASE WriteEnds
  <2>1. pc = "blocked" /\ mode = m /\ UNCHANGED todo
    BY <1>4 DEF WriteEnds, LeftOver, Modes
  <2>2. CASE mode = "SET" /\ SetAcknowledged
    BY <2>1, <2>2, Acknowledges DEF Blocked
  <2>3. CASE mode # "SET" /\ pc' = mode /\ UNCHANGED <<sent, keys, vals, mode>>
    BY <2>1, <2>3 DEF LeftOver, Blocked
  <2>4. CASE pc' = "left"
    BY <2>1, <2>4 DEF BatchOver, Blocked
  <2> QED
    BY <1>4, <2>2, <2>3, <2>4 DEF WriteEnds
<1>5. CASE UNCHANGED session
  BY <1>5 DEF session, LeftOver, Blocked
<1> QED
  BY <1>2, <1>3, <1>4, <1>5

LEMMA StepShortens == ASSUME NEW m \in Modes PROVE AllShorten(m, 1)
<1> SUFFICES ASSUME NEW n \in Int PROVE Shortens(m, n, n - 1)
  BY DEF AllShorten
<1>1. SInv /\ LeftOver(m, n) /\ [Next]_vars
         => /\ LeftOver(m, n)' \/ BatchOver'
            /\ Blocked \/ <<BatchStep>>_vars \/ ~Blocked'
  BY BatchMoves
<1>2. SInv /\ LeftOver(m, n) /\ <<BatchStep>>_vars => LeftOver(m, n - 1)' \/ BatchOver'
  BY BatchSteps
<1>3. LeftOver(m, n) /\ ~Blocked => pc \in Modes
  BY DEF LeftOver, Blocked
<1> QED
  BY <1>1, <1>2, <1>3, SessionInvariance, PTL DEF Spec, Fairness, BatchEnabled, Shortens

LEMMA Twofold ==
    ASSUME NEW m \in Modes, NEW d \in Int, AllShorten(m, d)
    PROVE  AllShorten(m, 2 * d)
<1> SUFFICES ASSUME NEW n \in Int PROVE Shortens(m, n, n - 2 * d)
  BY DEF AllShorten
<1> DEFINE k == n - d
<1>1. k \in Int /\ k - d = n - 2 * d
  OBVIOUS
<1>2. Shortens(m, n, k) /\ Shortens(m, k, n - 2 * d)
  BY <1>1 DEF AllShorten
<1> HIDE DEF k
<1> QED
  BY <1>2, PTL DEF Shortens

LEMMA Sixteenfold ==
    ASSUME NEW m \in Modes, NEW d \in Int, AllShorten(m, d)
    PROVE  AllShorten(m, 16 * d)
<1>1. AllShorten(m, 2 * d)
  BY Twofold
<1>2. AllShorten(m, 4 * d)
  BY <1>1, Twofold, 2 * d \in Int, 2 * (2 * d) = 4 * d
<1>3. AllShorten(m, 8 * d)
  BY <1>2, Twofold, 4 * d \in Int, 2 * (4 * d) = 8 * d
<1> QED
  BY <1>3, Twofold, 8 * d \in Int, 2 * (8 * d) = 16 * d

LEMMA ManyFold ==
    ASSUME NEW m \in Modes, NEW d \in Int, AllShorten(m, d)
    PROVE  AllShorten(m, 65536 * d)
<1>1. AllShorten(m, 16 * d)
  BY Sixteenfold
<1>2. AllShorten(m, 256 * d)
  BY <1>1, Sixteenfold, 16 * d \in Int, 16 * (16 * d) = 256 * d
<1>3. AllShorten(m, 4096 * d)
  BY SMT, <1>2, Sixteenfold, 256 * d \in Int, 16 * (256 * d) = 4096 * d
<1> QED
  BY SMT, <1>3, Sixteenfold, 4096 * d \in Int, 16 * (4096 * d) = 65536 * d

\* The bytes a Go program can allocate (2^48): no slice is longer.
HeapSize == 281474976710656

LEMMA BatchEnds ==
    ASSUME NEW m \in Modes, MaxKeys < HeapSize
    PROVE  Spec /\ []BatchEnabled => (AtBatch(m) ~> BatchOver \/ []Blocked)
<1>1. AllShorten(m, 65536)
  BY SMT, StepShortens, ManyFold, 65536 * 1 = 65536
<1>2. AllShorten(m, 4294967296)
  BY SMT, <1>1, ManyFold, 65536 * 65536 = 4294967296
<1>3. AllShorten(m, 281474976710656)
  BY SMT, <1>2, ManyFold, 65536 * 4294967296 = 281474976710656
<1>4. AllShorten(m, 562949953421312)
  BY SMT, <1>3, Twofold, 2 * 281474976710656 = 562949953421312
<1> DEFINE none == MaxKeys + 1 - 562949953421312
<1>5. Shortens(m, MaxKeys + 1, none)
  BY SMT, <1>4, SessionAssumption DEF AllShorten
<1>6. /\ SInv /\ AtBatch(m) => LeftOver(m, MaxKeys + 1)
      /\ SInv => ~LeftOver(m, none)
  <2> SUFFICES ASSUME SInv, pc \in {m, "blocked"}
               PROVE  LET left == Len(keys) + (IF pc = "SET" THEN 2 ELSE 1) - todo
                      IN  /\ left <= MaxKeys + 1 /\ ~(left <= none)
                          /\ pc = m => mode = m
    BY DEF AtBatch, LeftOver
  <2>1. /\ todo \in Nat /\ todo >= 1 /\ todo <= Len(keys) + 1
        /\ Len(keys) \in 0..MaxKeys
        /\ pc = m => mode = m
    <3>1. /\ mode \in {"SET", "GET", "DEL"} /\ (pc = m => mode = m) /\ AtDelimiter
          /\ todo <= Len(keys) + 1
      BY DEF SInv, Collected, Modes
    <3>2. CASE mode = "SET"
      <4>1. Len(keys) = 1
        BY <3>1, <3>2 DEF SInv, Collected, AtDelimiter
      <4> QED
        BY <3>1, <4>1, SessionAssumption DEF SInv, Types
    <3>3. CASE mode # "SET"
      BY <3>1, <3>3, SessionAssumption DEF SInv, Types, Collected, AtDelimiter
    <3> QED
      BY <3>2, <3>3
  <2> QED
    BY SMT, <2>1, SessionAssumption DEF HeapSize
<1> HIDE DEF none
<1> QED
  BY <1>5, <1>6, SessionInvariance, PTL DEF Shortens, none

\* Every ETB is answered, one ACK for a SET and one reply per key for a GET or a
\* DEL, for batches of any number of keys, unless the connection breaks, the
\* process ends or a write waits for ever for a peer that neither reads nor goes.
THEOREM EtbsAnswered ==
    ASSUME MaxKeys < HeapSize
    PROVE  Spec /\ []BatchEnabled => EtbAnswered
<1>1. ASSUME NEW m \in Modes
      PROVE  Spec /\ []BatchEnabled
                => (pc = m ~> \/ pc = "read" /\ Len(sent) = todo - 1
                              \/ pc \in {"left", "panic"}
                              \/ [](pc = "blocked"))
  BY BatchEnds, PTL DEF AtBatch, BatchOver, Blocked
<1> QED
  BY <1>1 DEF EtbAnswered
----------------------------------------------------------------------------
(* The client library at the other end *)

Stored == ClientVal \cup HttpVal \cup {Absent}

\* The session waits for a command line, or will after a step that sends
\* nothing.  After a DEL it still is at the delimiter of modeDEL.
Rests == \/ pc = "read" /\ mode = "no_mode"
         \/ pc = "GET" /\ todo = 2 /\ Len(keys) = 1
         \/ /\ mode = "DEL" /\ state = 1
            /\ pc = "read" \/ (pc = "DEL" /\ todo = 2 /\ Len(keys) = 1)

Connecting ==
    /\ call = NoCall /\ result = NoResult /\ effects = {} /\ toServer = <<>>
    /\ \/ pc = "banner" /\ mode = "no_mode" /\ toClient = <<>>
       \/ pc = "read" /\ mode = "no_mode" /\ toClient = <<Welcome>>
       \/ pc = "left" /\ toClient \in {<<>>, <<Welcome>>}

Idle == /\ call \in Calls \cup {NoCall}
        /\ toClient = <<>>
        /\ ~PeerGone => toServer = <<>> /\ Rests
        /\ EffectsOfCall /\ GetReturnsHeld

\* A request, and what is left of it after its command line and after its key.
Whole(c) == IF c.op = "SET" THEN <<Started[c.op], c.key, c.val, ETB>>
                            ELSE <<Started[c.op], c.key, ETB>>
AfterCommand(c) == IF c.op = "SET" THEN <<c.key, c.val, ETB>> ELSE <<c.key, ETB>>
AfterKey(c)     == IF c.op = "SET" THEN <<c.val, ETB>> ELSE <<ETB>>

Unread == Rests /\ effects = {} /\ toServer = Whole(call)

Collecting ==
    /\ pc = "read" /\ mode = call.op /\ effects = {}
    /\ \/ state = 0 /\ keys = <<>> /\ toServer = AfterCommand(call)
       \/ /\ state = 1 /\ mode = "SET" /\ key = call.key /\ keys = <<>>
          /\ toServer = AfterKey(call)
       \/ /\ state = IF mode = "SET" THEN 2 ELSE 1
          /\ keys = <<call.key>> /\ toServer = <<ETB>>
          /\ mode = "SET" => vals[call.key] = call.val

Running ==
    /\ pc = call.op /\ mode = pc /\ keys = <<call.key>>
    /\ toServer = <<>> /\ sent = <<>>
    /\ pc = "DEL" => state = 1
    /\ \/ todo = 1 /\ effects = {} /\ (pc = "SET" => vals[call.key] = call.val)
       \/ todo = 2 /\ pc = "SET" /\ effects = Asked

\* No answer will come.
Lost == PeerGone /\ effects \subseteq Asked

Answered(reply) ==
    /\ ~PeerGone => toServer = <<>> /\ Rests
    /\ effects \subseteq Asked /\ (reply # CAN => effects = Asked)
    /\ call.op = "GET" /\ reply \notin {NUL, NamedNUL, CAN} =>
          /\ sent # <<>> /\ sent[1].tag = "VAL" /\ sent[1].about = call.key
          /\ sent[1].had = reply

Waiting ==
    /\ call \in Calls
    /\ \/ toClient = <<>> /\ (Unread \/ Collecting \/ Running \/ Lost)
       \/ \E reply \in Line \cup {NUL, NamedNUL, "ACK", CAN} :
              toClient = <<reply>> /\ Answered(reply)

\* Where the two ends of the connection can be at the same time.
CInv == /\ kv \in [Key -> Stored]
        /\ \/ cpc = "connecting" /\ Connecting
           \/ cpc = "idle" /\ Idle
           \/ cpc = "waiting" /\ Waiting
----------------------------------------------------------------------------
\* The command lines are not delimiters, and differ from them and each other.
LEMMA CommandLines ==
    /\ Started["SET"] = "S|1" /\ Started["GET"] = "G|1" /\ Started["DEL"] = "D|1"
    /\ \A m \in Modes : Started[m] \notin OneChar /\ Started[m] # TooLong
BY DEF Started, Modes, OneChar, ETB, BEL, TooLong

\* A call is a record whose parts are single lines.
LEMMA CallParts ==
    ASSUME SingleLines, NEW c \in Calls
    PROVE  /\ c.op \in Modes /\ c.key \in ClientKey /\ Lines[c.key] = <<c.key>>
           /\ c.op = "SET" => c.val \in ClientVal /\ Lines[c.val] = <<c.val>>
           /\ c.key \in Key /\ c.key # TooLong
           /\ c.op = "SET" => c.val \in Text /\ c.val # TooLong
BY SessionAssumption, ClientAssumption DEF Calls, Modes, SingleLines

\* Concatenation of few lines, as tuples.
LEMMA TwoLines ==
    ASSUME NEW a, NEW b
    PROVE  <<a>> \o <<b>> = <<a, b>>
<1> DEFINE S == {a, b}
<1>0. a \in S /\ b \in S
  OBVIOUS
<1> HIDE DEF S
<1> DEFINE x == <<a>> \o <<b>>
<1> DEFINE y == <<a, b>>
<1>1. <<a>> \in Seq(S) /\ <<b>> \in Seq(S) /\ y \in Seq(S) /\ Len(y) = 2
  BY <1>0
<1>2. x \in Seq(S) /\ Len(x) = 2 /\ x[1] = a /\ x[2] = b
  BY <1>0, <1>1
<1>3. \A i \in 1..2 : x[i] = y[i]
  BY <1>2
<1> HIDE DEF x, y
<1>4. x = y
  BY <1>1, <1>2, <1>3, SeqEqual
<1> QED
  BY <1>4 DEF x, y

LEMMA ThreeLines ==
    ASSUME NEW a, NEW b, NEW c
    PROVE  <<a, b>> \o <<c>> = <<a, b, c>>
<1> DEFINE S == {a, b, c}
<1>0. a \in S /\ b \in S /\ c \in S
  OBVIOUS
<1> HIDE DEF S
<1> DEFINE x == <<a, b>> \o <<c>>
<1> DEFINE y == <<a, b, c>>
<1>1. <<a, b>> \in Seq(S) /\ <<c>> \in Seq(S) /\ y \in Seq(S) /\ Len(y) = 3
  BY <1>0
<1>2. x \in Seq(S) /\ Len(x) = 3 /\ x[1] = a /\ x[2] = b /\ x[3] = c
  BY <1>0, <1>1
<1>3. \A i \in 1..3 : x[i] = y[i]
  BY <1>2
<1> HIDE DEF x, y
<1>4. x = y
  BY <1>1, <1>2, <1>3, SeqEqual
<1> QED
  BY <1>4 DEF x, y

LEMMA FourLines ==
    ASSUME NEW a, NEW b, NEW c, NEW d
    PROVE  <<a, b, c>> \o <<d>> = <<a, b, c, d>>
<1> DEFINE S == {a, b, c, d}
<1>0. a \in S /\ b \in S /\ c \in S /\ d \in S
  OBVIOUS
<1> HIDE DEF S
<1> DEFINE x == <<a, b, c>> \o <<d>>
<1> DEFINE y == <<a, b, c, d>>
<1>1. <<a, b, c>> \in Seq(S) /\ <<d>> \in Seq(S) /\ y \in Seq(S) /\ Len(y) = 4
  BY <1>0
<1>2. x \in Seq(S) /\ Len(x) = 4 /\ x[1] = a /\ x[2] = b /\ x[3] = c /\ x[4] = d
  BY <1>0, <1>1
<1>3. \A i \in 1..4 : x[i] = y[i]
  BY <1>2
<1> HIDE DEF x, y
<1>4. x = y
  BY <1>1, <1>2, <1>3, SeqEqual
<1> QED
  BY <1>4 DEF x, y

\* What a call writes, line by line.
LEMMA RequestLines ==
    ASSUME SingleLines, NEW c \in Calls
    PROVE  Request(c) = Whole(c)
<1> DEFINE S == {Started[c.op], c.key, c.val, ETB}
<1>1. Lines[c.key] = <<c.key>> /\ (c.op = "SET" => Lines[c.val] = <<c.val>>)
  BY CallParts
<1>2. CASE c.op = "SET"
  <2>1. Request(c) = <<Started[c.op]>> \o <<c.key>> \o <<c.val>> \o <<ETB>>
    BY <1>1, <1>2, Zenon DEF Request
  <2>2. /\ <<Started[c.op]>> \o <<c.key>> = <<Started[c.op], c.key>>
        /\ <<Started[c.op], c.key>> \o <<c.val>> = <<Started[c.op], c.key, c.val>>
    BY TwoLines, ThreeLines
  <2>3. <<Started[c.op], c.key, c.val>> \o <<ETB>> = <<Started[c.op], c.key, c.val, ETB>>
    BY FourLines
  <2> QED
    BY <1>2, <2>1, <2>2, <2>3, Zenon DEF Whole
<1>3. CASE c.op # "SET"
  <2>1. Request(c) = <<Started[c.op]>> \o <<c.key>> \o <<>> \o <<ETB>>
    BY <1>1, <1>3, Zenon DEF Request
  <2>2. <<Started[c.op]>> \o <<c.key>> = <<Started[c.op], c.key>>
    BY TwoLines
  <2>3. <<Started[c.op], c.key>> \o <<>> = <<Started[c.op], c.key>>
    <3>1. <<Started[c.op], c.key>> \in Seq(S)
      OBVIOUS
    <3> QED
      BY <3>1, ConcatEmptySeq
  <2>4. <<Started[c.op], c.key>> \o <<ETB>> = <<Started[c.op], c.key, ETB>>
    BY ThreeLines
  <2> QED
    BY <1>3, <2>1, <2>2, <2>3, <2>4, Zenon DEF Whole
<1> QED
  BY <1>2, <1>3

LEMMA WholeIsSeq == ASSUME NEW c PROVE <<>> \o Whole(c) = Whole(c)
<1> DEFINE S == {Started[c.op], c.key, c.val, ETB}
<1>1. <<Started[c.op], c.key, c.val, ETB>> \in Seq(S)
  OBVIOUS
<1>2. <<Started[c.op], c.key, ETB>> \in Seq(S)
  OBVIOUS
<1>3. Whole(c) \in Seq(S)
  BY <1>1, <1>2 DEF Whole
<1> QED
  BY <1>3, ConcatEmptySeq

LEMMA HeadsAndTails ==
    ASSUME NEW c \in Calls
    PROVE  /\ Head(Whole(c)) = Started[c.op] /\ Tail(Whole(c)) = AfterCommand(c)
           /\ Head(AfterCommand(c)) = c.key /\ Tail(AfterCommand(c)) = AfterKey(c)
           /\ c.op = "SET" => Head(AfterKey(c)) = c.val /\ Tail(AfterKey(c)) = <<ETB>>
           /\ c.op # "SET" => AfterKey(c) = <<ETB>>
           /\ Head(<<ETB>>) = ETB /\ Tail(<<ETB>>) = <<>>
BY DEF Whole, AfterCommand, AfterKey

LEMMA CInitHolds == CInit => CInv
BY DEF CInit, Init, FirstStep, CInv, Connecting, Stored

LEMMA ConnectedStep == ASSUME CInv, Connected PROVE CInv'
<1>1. /\ cpc = "connecting" /\ toClient # <<>> /\ toClient' = Tail(toClient)
      /\ cpc' = "idle" /\ UNCHANGED <<vars, toServer, call, result, effects>>
  BY DEF Connected
<1>2. Connecting /\ toClient = <<Welcome>> /\ kv \in [Key -> Stored]
  BY <1>1 DEF CInv, Connecting
<1>3. toClient' = <<>>
  BY <1>1, <1>2
<1>4. /\ call' = NoCall /\ effects' = {} /\ toServer' = <<>>
      /\ ~PeerGone' => Rests'
  BY <1>1, <1>2 DEF Connecting, Rests, PeerGone, vars, session
<1>5. EffectsOfCall' /\ GetReturnsHeld'
  BY <1>4 DEF EffectsOfCall, GetReturnsHeld, Asked, NoCall
<1> QED
  BY <1>1, <1>2, <1>3, <1>4, <1>5 DEF CInv, Idle, vars

LEMMA RestsUnchanged ==
    ASSUME UNCHANGED <<pc, mode, state, keys, todo>>, Rests
    PROVE  Rests'
BY DEF Rests

LEMMA CallStep == ASSUME SingleLines, CInv, NEW c \in Calls, Call(c) PROVE CInv'
<1>1. /\ cpc = "idle" /\ call' = c /\ effects' = {} /\ UNCHANGED <<vars, toClient>>
  BY DEF Call
<1>2. Idle /\ kv \in [Key -> Stored]
  BY <1>1 DEF CInv
<1>3. UNCHANGED <<kv, pc, mode, state, keys, todo, sent>>
  BY <1>1 DEF vars, session
<1>4. effects' \subseteq Asked'
  BY <1>1
<1>5. CASE /\ cpc' = "waiting"
           /\ toServer' = IF PeerGone THEN <<>> ELSE toServer \o Request(c)
  <2>1. CASE PeerGone
    BY <1>1, <1>2, <1>3, <1>4, <1>5, <2>1 DEF CInv, Waiting, Lost, Idle, PeerGone
  <2>2. CASE ~PeerGone
    <3>1. toServer = <<>> /\ Rests
      BY <1>2, <2>2 DEF Idle
    <3>4. toServer' = Whole(c)
      BY <1>5, <2>2, <3>1, RequestLines, WholeIsSeq
    <3>5. Unread'
      BY <1>1, <1>3, <3>1, <3>4, RestsUnchanged DEF Unread
    <3>6. toClient' = <<>>
      BY <1>1, <1>2 DEF Idle
    <3> QED
      BY <1>1, <1>2, <1>3, <1>5, <3>5, <3>6 DEF CInv, Waiting
  <2> QED
    BY <2>1, <2>2
<1>6. CASE PeerGone /\ Return(TRUE, "", FALSE) /\ UNCHANGED toServer
  <2>1. cpc' = "idle" /\ result'.err
    BY <1>6 DEF Return
  <2>2. EffectsOfCall' /\ GetReturnsHeld'
    BY <1>4, <2>1 DEF EffectsOfCall, GetReturnsHeld
  <2> QED
    BY <1>1, <1>2, <1>3, <1>6, <2>1, <2>2 DEF CInv, Idle, PeerGone
<1> QED
  BY <1>5, <1>6 DEF Call

LEMMA ReadReplyStep == ASSUME CInv, ReadReply PROVE CInv'
<1>1. /\ cpc = "waiting" /\ toClient # <<>> /\ toClient' = Tail(toClient)
      /\ UNCHANGED <<vars, toServer, call, effects>>
  BY DEF ReadReply
<1>2. Waiting /\ kv \in [Key -> Stored]
  BY <1>1 DEF CInv
<1>3. PICK reply \in Line \cup {NUL, NamedNUL, "ACK", CAN} :
          toClient = <<reply>> /\ Answered(reply)
  BY <1>1, <1>2 DEF Waiting
<1>4. /\ Head(toClient) = reply /\ toClient' = <<>> /\ call \in Calls
  BY <1>1, <1>2, <1>3 DEF Waiting
<1>5. UNCHANGED <<kv, pc, mode, state, keys, todo, sent>>
  BY <1>1 DEF vars, session
<1>6. ~PeerGone' => toServer' = <<>> /\ Rests'
  BY <1>1, <1>3, <1>5, RestsUnchanged DEF Answered, PeerGone
<1>7. /\ cpc' = "idle"
      /\ reply = CAN => result'.resp = CAN \/ result'.err
      /\ result'.resp = CAN => reply = CAN
      /\ call.op = "GET" /\ result'.resp # "" =>
            result'.resp = reply /\ reply # NamedNUL
  <2>1. CASE call.op = "SET" /\ SetReturns(reply)
    <3>1. cpc' = "idle"
      BY <2>1, Zenon DEF SetReturns, Return
    <3>2. CASE reply = Empty
      <4>1. result' = [err |-> TRUE, resp |-> reply, found |-> FALSE]
        BY <2>1, <3>2, Zenon DEF SetReturns, Return, Empty
      <4> QED
        BY <2>1, <3>1, <4>1
    <3>3. CASE reply # Empty
      <4>1. result' = [err |-> FALSE, resp |-> reply, found |-> FALSE]
        BY <2>1, <3>3, Zenon DEF SetReturns, Return
      <4> QED
        BY <2>1, <3>1, <4>1
    <3> QED
      BY <3>2, <3>3
  <2>2. CASE call.op # "SET" /\ (GetReturns(reply) \/ DelReturns(reply))
    <3>1. cpc' = "idle"
      BY <2>2, Zenon DEF GetReturns, DelReturns, Return
    <3>2. CASE reply \in {Empty, NamedNUL}
      <4>1. result' = [err |-> FALSE, resp |-> "", found |-> FALSE]
        BY <2>2, <3>2, Zenon DEF GetReturns, DelReturns, Return
      <4> QED
        BY <3>1, <3>2, <4>1 DEF CAN, Empty, NamedNUL
    <3>3. CASE reply \notin {Empty, NamedNUL}
      <4>1. \/ result' = [err |-> FALSE, resp |-> reply, found |-> TRUE]
            \/ result' = [err |-> FALSE, resp |-> reply, found |-> FALSE]
        BY <2>2, <3>3, Zenon DEF GetReturns, DelReturns, Return
      <4>2. result'.resp = reply
        BY <4>1
      <4> QED
        BY <3>1, <3>3, <4>2
    <3> QED
      BY <3>2, <3>3
  <2> QED
    BY <1>4, <2>1, <2>2, Zenon DEF ReadReply
<1>8. EffectsOfCall'
  BY <1>1, <1>3, <1>7 DEF EffectsOfCall, Answered, Asked
<1>9. GetReturnsHeld'
  <2> SUFFICES ASSUME call.op = "GET", result'.resp \notin {"", NUL, CAN}
               PROVE  /\ sent # <<>> /\ sent[1].tag = "VAL" /\ sent[1].about = call.key
                      /\ sent[1].had = result'.resp
    BY <1>1, <1>5 DEF GetReturnsHeld
  <2>1. result'.resp = reply /\ reply \notin {NUL, NamedNUL, CAN}
    BY <1>7
  <2> QED
    BY <1>3, <2>1 DEF Answered
<1> QED
  BY <1>1, <1>2, <1>4, <1>5, <1>6, <1>7, <1>8, <1>9 DEF CInv, Idle

LEMMA ReadFailsStep == ASSUME CInv, ReadFails PROVE CInv'
<1>1. /\ cpc = "waiting" /\ PeerGone /\ cpc' = "idle" /\ result'.err
      /\ toServer' = <<>> /\ toClient' = <<>> /\ UNCHANGED <<vars, call, effects>>
  BY DEF ReadFails, Return
<1>2. Waiting /\ kv \in [Key -> Stored]
  BY <1>1 DEF CInv
<1>3. effects \subseteq Asked
  BY <1>1, <1>2 DEF Waiting, Unread, Rests, Collecting, Running, Lost, Answered
<1>4. EffectsOfCall' /\ GetReturnsHeld'
  BY <1>1, <1>3 DEF EffectsOfCall, GetReturnsHeld, Asked
<1> QED
  BY <1>1, <1>2, <1>4 DEF CInv, Idle, Waiting, PeerGone, vars, session

LEMMA RedialStep == ASSUME CInv, Redial PROVE CInv'
<1>1. kv \in [Key -> Stored]
  BY DEF CInv
<1> QED
  BY <1>1 DEF Redial, Reconnect, FirstStep, CInv, Connecting

LEMMA GreetStep == ASSUME CInv, Greet PROVE CInv'
<1>1. /\ pc = "banner" /\ pc' \in {"read", "left"}
      /\ toClient' = IF pc' = "read" THEN <<Welcome>> ELSE toClient
      /\ UNCHANGED <<kv, mode, toServer, cpc, call, result, effects>>
  BY DEF Greet, Banner
<1>2. cpc = "connecting" /\ Connecting /\ kv \in [Key -> Stored]
  <2>1. ~(cpc = "idle" /\ Idle)
    BY <1>1 DEF Idle, Rests, PeerGone
  <2>2. ASSUME Waiting PROVE FALSE
    <3>1. call.op \in Modes /\ pc # "left"
      BY <1>1, <2>2 DEF Waiting, Calls, Modes
    <3>2. ~Rests /\ ~Collecting /\ ~Running /\ ~Lost
      BY <1>1, <3>1 DEF Rests, Collecting, Running, Lost, Modes, PeerGone
    <3> QED
      BY <1>1, <2>2, <3>1, <3>2 DEF Waiting, Unread, Answered, PeerGone
  <2> QED
    BY <2>1, <2>2 DEF CInv
<1> QED
  BY <1>1, <1>2 DEF CInv, Connecting

LEMMA BreakStep == ASSUME CInv, Break PROVE CInv'
<1>1. /\ pc = "read" /\ pc' = "left" /\ UNCHANGED client
      /\ UNCHANGED <<kv, mode, state, keys, todo, sent>>
  BY DEF Break, ReadError, Leave
<1>2. kv' \in [Key -> Stored]
  BY <1>1 DEF CInv
<1>3. CASE cpc = "connecting"
  BY <1>1, <1>2, <1>3 DEF CInv, Connecting, client
<1>4. CASE cpc = "idle"
  BY <1>1, <1>2, <1>4 DEF CInv, Idle, client, EffectsOfCall, GetReturnsHeld, Asked,
      PeerGone
<1>5. CASE cpc = "waiting"
  <2>1. Waiting
    BY <1>5 DEF CInv
  <2>2. CASE toClient = <<>> /\ (Unread \/ Collecting \/ Running \/ Lost)
    <3>1. effects \subseteq Asked
      BY <2>2 DEF Unread, Collecting, Running, Lost
    <3>2. Lost'
      BY <1>1, <3>1 DEF Lost, Asked, client, PeerGone
    <3> QED
      BY <1>1, <1>2, <1>5, <2>1, <2>2, <3>2 DEF CInv, Waiting, client
  <2>3. ASSUME NEW reply \in Line \cup {NUL, NamedNUL, "ACK", CAN},
               toClient = <<reply>>, Answered(reply)
        PROVE  CInv'
    <3>1. Answered(reply)'
      BY <1>1, <2>3 DEF Answered, Asked, client, PeerGone
    <3> QED
      BY <1>1, <1>2, <1>5, <2>1, <2>3, <3>1 DEF CInv, Waiting, client
  <2> QED
    BY <2>1, <2>2, <2>3 DEF Waiting
<1> QED
  BY <1>3, <1>4, <1>5 DEF CInv

\* What others store does not touch the connection.
LEMMA OthersStep == ASSUME CInv, Others PROVE CInv'
<1>1. kv' \in [Key -> Stored] /\ UNCHANGED <<session, client>>
  BY ClientAssumption DEF Others, CInv, Stored
<1> QED
  BY <1>1 DEF CInv, session, client, Connecting, Idle, Waiting, Unread, Rests, Collecting,
              Running, Lost, Answered, EffectsOfCall, GetReturnsHeld, Asked, PeerGone

(* The session reads the line that is next *)

\* A step that reads l is one of these.
Reads(l) == \/ \E m \in Modes : StartCommand(m)
            \/ OnLine(l) \/ MoreKeys \/ IgnoreDelimiter \/ StartBatch

LEMMA ReadLineIs ==
    ASSUME ReadLine
    PROVE  /\ toServer # <<>> /\ line' = Head(toServer) /\ Reads(line')
           /\ toServer' = Tail(toServer) /\ pc = "read"
           /\ UNCHANGED <<kv, cpc, call, result, effects>>
           /\ pc' # "left" => toClient' = toClient
           /\ pc' = "left" /\ mode \in Modes => toClient' = Append(toClient, CAN)
BY DEF ReadLine, Reads, OnLine, StartCommand, RefuseCommand, Profile, Cancel, Leave,
       ReadSetKey, ReadKey, ReadVal, MoreKeys, IgnoreDelimiter, StartBatch, Read

LEMMA CommandLineStep ==
    ASSUME SingleLines, CInv, ReadLine, cpc = "waiting", call \in Calls,
           toClient = <<>>, Unread
    PROVE  CInv'
<1>1. /\ line' = Started[call.op] /\ toServer' = AfterCommand(call)
      /\ call.op \in Modes /\ line' \notin OneChar /\ line' # TooLong
      /\ pc = "read" /\ Reads(line') /\ effects = {} /\ kv' \in [Key -> Stored]
  BY ReadLineIs, HeadsAndTails, CallParts, CommandLines DEF Unread, CInv
<1>2. CASE mode = "no_mode"
  <2>1. PICK m \in Modes : StartCommand(m)
    BY <1>1, <1>2 DEF Reads, OnLine, RefuseCommand, Profile, Cancel, ReadSetKey, ReadKey,
                      ReadVal, MoreKeys, IgnoreDelimiter, StartBatch, Modes, Started,
                      MemProfile, CpuProfile
  <2>2. m = call.op
    BY <1>1, <2>1 DEF StartCommand, Read, Modes, Started
  <2>3. Collecting' /\ toClient' = <<>>
    BY <1>1, <2>1, <2>2, ReadLineIs DEF StartCommand, Read, ClearBatch, Collecting, AfterCommand
  <2> QED
    BY <1>1, <2>3, ReadLineIs DEF CInv, Waiting
<1>3. CASE mode = "DEL" /\ state = 1
  <2>1. ~MoreKeys /\ ~IgnoreDelimiter /\ ~StartBatch
    BY <1>1 DEF MoreKeys, IgnoreDelimiter, StartBatch, Read, OneChar
  <2>2. \A m \in Modes : ~StartCommand(m)
    BY <1>3 DEF StartCommand
  <2>3. Cancel(line')
    BY <1>1, <1>3, <2>1, <2>2 DEF Reads, OnLine, RefuseCommand, Profile, ReadSetKey,
                                  ReadKey, ReadVal
  <2>4. pc' = "left" /\ toClient' = <<CAN>>
    BY <1>3, <2>3, ReadLineIs DEF Cancel, Leave, Modes
  <2>5. Answered(CAN)'
    BY <1>1, <2>4, ReadLineIs DEF Answered, PeerGone
  <2> QED
    BY <1>1, <2>4, <2>5, ReadLineIs DEF CInv, Waiting
<1> QED
  BY <1>1, <1>2, <1>3 DEF Unread, Rests

LEMMA KeyLineStep ==
    ASSUME SingleLines, CInv, ReadLine, cpc = "waiting", call \in Calls,
           toClient = <<>>, Collecting, state = 0, toServer = AfterCommand(call)
    PROVE  CInv'
<1>1. /\ line' = call.key /\ toServer' = AfterKey(call)
      /\ call.op \in Modes /\ line' # TooLong /\ mode = call.op
      /\ pc = "read" /\ Reads(line') /\ effects = {} /\ kv' \in [Key -> Stored]
  BY ReadLineIs, HeadsAndTails, CallParts DEF Collecting, CInv
<1>2. keys = <<>>
  BY DEF Collecting
<1>3. ReadSetKey(line') \/ ReadKey(line')
  BY <1>1 DEF Reads, OnLine, StartCommand, RefuseCommand, Profile, Cancel, ReadVal,
              MoreKeys, IgnoreDelimiter, StartBatch, Modes, AtDelimiter
<1>4. toClient' = <<>>
  BY <1>1, <1>3, ReadLineIs DEF ReadSetKey, ReadKey
<1>5. Collecting'
  <2>1. CASE ReadSetKey(line')
    BY <1>1, <1>2, <2>1, ReadLineIs DEF ReadSetKey, Read, Collecting
  <2>2. CASE ReadKey(line')
    <3>1. /\ mode' = mode /\ mode # "SET" /\ state' = 1 /\ pc' = pc
          /\ keys' = <<call.key>>
      BY <1>1, <1>2, <2>2 DEF ReadKey, Read
    <3>2. toServer' = <<ETB>>
      BY <1>1, <3>1, HeadsAndTails
    <3> QED
      BY <1>1, <3>1, <3>2, ReadLineIs DEF Collecting
  <2> QED
    BY <1>3, <2>1, <2>2
<1> QED
  BY <1>1, <1>4, <1>5, ReadLineIs DEF CInv, Waiting

LEMMA ValLineStep ==
    ASSUME SingleLines, CInv, ReadLine, cpc = "waiting", call \in Calls,
           toClient = <<>>, Collecting, state = 1, mode = "SET", key = call.key,
           keys = <<>>, toServer = AfterKey(call)
    PROVE  CInv'
<1>1. /\ line' = call.val /\ toServer' = <<ETB>> /\ line' # TooLong /\ call.op = "SET"
      /\ pc = "read" /\ Reads(line') /\ effects = {} /\ kv' \in [Key -> Stored]
  BY ReadLineIs, HeadsAndTails, CallParts DEF Collecting, CInv
<1>2. ReadVal(line')
  BY <1>1 DEF Reads, OnLine, StartCommand, RefuseCommand, Profile, Cancel, ReadSetKey,
              ReadKey, MoreKeys, IgnoreDelimiter, StartBatch, Modes, AtDelimiter
<1>3. toClient' = <<>>
  BY <1>1, <1>2, ReadLineIs DEF ReadVal
<1>4. Collecting'
  BY <1>1, <1>2, ReadLineIs DEF ReadVal, Read, Collecting
<1> QED
  BY <1>1, <1>3, <1>4, ReadLineIs DEF CInv, Waiting

LEMMA EtbLineStep ==
    ASSUME SingleLines, CInv, ReadLine, cpc = "waiting", call \in Calls,
           toClient = <<>>, Collecting, state = (IF mode = "SET" THEN 2 ELSE 1),
           keys = <<call.key>>, toServer = <<ETB>>,
           mode = "SET" => vals[call.key] = call.val
    PROVE  CInv'
<1>1. /\ line' = ETB /\ toServer' = <<>> /\ call.op \in Modes /\ mode = call.op
      /\ pc = "read" /\ Reads(line') /\ effects = {} /\ kv' \in [Key -> Stored]
  BY ReadLineIs, HeadsAndTails, CallParts DEF Collecting, CInv
<1>2. StartBatch
  BY <1>1 DEF Reads, OnLine, StartCommand, RefuseCommand, Profile, Cancel, ReadSetKey,
              ReadKey, ReadVal, MoreKeys, IgnoreDelimiter, Modes, AtDelimiter, OneChar,
              Read, ETB, BEL
<1>3. toClient' = <<>>
  BY <1>1, <1>2, ReadLineIs DEF StartBatch, Modes
<1>4. Running'
  BY <1>1, <1>2, ReadLineIs DEF StartBatch, Read, Running
<1> QED
  BY <1>1, <1>3, <1>4, ReadLineIs DEF CInv, Waiting

LEMMA ReadLineStep == ASSUME SingleLines, CInv, ReadLine PROVE CInv'
<1>1. pc = "read" /\ toServer # <<>>
  BY ReadLineIs
<1>2. cpc = "waiting" /\ Waiting
  BY <1>1 DEF CInv, Connecting, Idle, PeerGone
<1>3. call \in Calls /\ toClient = <<>> /\ (Unread \/ Collecting)
  BY <1>1, <1>2 DEF Waiting, Running, Lost, Answered, PeerGone
<1> QED
  BY <1>2, <1>3, CommandLineStep, KeyLineStep, ValLineStep, EtbLineStep DEF Collecting

(* The session answers *)

\* Nothing is added to what is on its way to the client, or one line.
LEMMA OneLineAtMost ==
    /\ CInv => toClient \o <<>> = toClient
    /\ \A r : <<>> \o <<r>> = <<r>>
<1>1. ASSUME NEW r PROVE <<>> \o <<r>> = <<r>> /\ <<r>> \o <<>> = <<r>>
  <2>1. <<r>> \in Seq({r})
    OBVIOUS
  <2> QED
    BY <2>1, ConcatEmptySeq
<1>2. <<>> \o <<>> = <<>>
  <2>1. <<>> \in Seq({})
    OBVIOUS
  <2> QED
    BY <2>1, ConcatEmptySeq
<1>3. CInv => toClient = <<>> \/ \E r : toClient = <<r>>
  BY DEF CInv, Connecting, Idle, Waiting
<1> QED
  BY <1>1, <1>2, <1>3

\* A batch that has been answered ends without a word.
LEMMA RestingStep ==
    ASSUME Answer, Rests, CInv
    PROVE  Rests' /\ pc' = "read" /\ UNCHANGED <<kv, sent, client>>
<1>1. (pc = "GET" /\ GetDone) \/ (pc = "DEL" /\ DelDone)
  BY DEF Answer, BatchStep, Rests, SetOne, SetDone, GetOne, GetDone, DelOne, DelDone
<1>2. sent' = sent /\ Effect = {}
  BY <1>1 DEF GetDone, DelDone, Effect, Rests
<1>3. UNCHANGED client
  BY <1>2, OneLineAtMost DEF Answer, client
<1> QED
  BY <1>1, <1>2, <1>3 DEF GetDone, DelDone, Rests

LEMMA RunningSet ==
    ASSUME SingleLines, CInv, Answer, cpc = "waiting", call \in Calls,
           toClient = <<>>, Running, pc = "SET"
    PROVE  CInv'
<1>1. /\ call.op = "SET" /\ call.key \in Key /\ call.val \in Stored
      /\ keys[1] = call.key /\ Len(keys) = 1 /\ Asked = {<<call.key, call.val>>}
  BY CallParts DEF Running, Asked, Stored
<1>2. UNCHANGED <<toServer, cpc, call, result>> /\ toServer = <<>>
  BY DEF Answer, Running
<1>3. CASE todo = 1
  <2>1. SetOne /\ vals[call.key] = call.val /\ effects = {}
    BY <1>1, <1>3 DEF Answer, BatchStep, SetOne, SetDone, GetOne, GetDone, DelOne, DelDone,
                      Running
  <2>2. toClient' = <<>> /\ effects' = Asked
    BY <1>1, <1>3, <2>1, OneLineAtMost DEF Answer, SetOne, Effect
  <2>3. kv' \in [Key -> Stored]
    BY <1>1, <1>3, <2>1 DEF SetOne, CInv
  <2>4. Running'
    BY <1>1, <1>2, <1>3, <2>1, <2>2 DEF SetOne, Running, Asked
  <2> QED
    BY <1>2, <2>2, <2>3, <2>4 DEF CInv, Waiting
<1>4. CASE todo = 2 /\ effects = Asked
  <2>1. SetDone
    BY <1>1, <1>4 DEF Answer, BatchStep, SetOne, SetDone, GetOne, GetDone, DelOne, DelDone
  <2>2. Effect = {} /\ effects' = Asked /\ kv' \in [Key -> Stored]
    BY <1>1, <1>4, <2>1 DEF Effect, Answer, SetDone, CInv
  <2>3. CASE pc' = "left" /\ UNCHANGED <<sent, keys, vals, mode>>
    BY <1>2, <2>2, <2>3, OneLineAtMost DEF Answer, CInv, Waiting, Lost, Asked, PeerGone
  <2>4. CASE /\ sent' = <<[tag |-> "ACK"]>> /\ keys' = <<>> /\ vals' = NilMap
             /\ mode' = "no_mode" /\ pc' = "read"
    <3>1. sent' # sent /\ Len(sent') = 1 /\ sent'[1].tag = "ACK"
      BY <2>4 DEF Running
    <3>2. toClient' = <<"ACK">>
      BY <3>1, OneLineAtMost DEF Answer, Wire, NUL
    <3>3. Answered("ACK")'
      BY <1>1, <1>2, <2>2, <2>4 DEF Answered, Rests, Asked
    <3> QED
      BY <1>2, <2>2, <3>2, <3>3 DEF CInv, Waiting
  <2> QED
    BY <2>1, <2>3, <2>4 DEF Answer, SetDone, SetAcknowledged
<1> QED
  BY <1>3, <1>4 DEF Running

\* The one reply of a GET or a DEL, unless it cannot be written.
LEMMA RunningReply ==
    ASSUME Running, todo = 1, NEW tag, NEW text, Reply(tag, text), pc' # "blocked"
    PROVE  \/ /\ sent' # sent /\ Len(sent') = 1 /\ todo' = 2 /\ pc' = pc
              /\ sent'[1] = [tag |-> tag, text |-> text, about |-> call.key,
                             had |-> kv[call.key]]
           \/ pc' = "left" /\ UNCHANGED sent
BY DEF Running, Reply

LEMMA WireOfTag ==
    ASSUME NEW r
    PROVE  /\ r.tag = "NUL" => Wire(r) = <<NUL>> \/ Wire(r) = <<NamedNUL>>
           /\ r.tag = "ACK" => Wire(r) = <<"ACK">>
BY DEF Wire, NUL

LEMMA RunningGet ==
    ASSUME SingleLines, CInv, Answer, cpc = "waiting", call \in Calls,
           toClient = <<>>, Running, pc = "GET"
    PROVE  CInv'
<1>1. /\ call.op = "GET" /\ call.key \in Key /\ todo = 1 /\ effects = {} /\ Asked = {}
      /\ keys[1] = call.key /\ Len(keys) = 1 /\ kv[call.key] \in Stored
  BY CallParts DEF Running, Asked, CInv
<1>2. /\ UNCHANGED <<toServer, cpc, call, result>> /\ toServer = <<>>
      /\ pc' # "blocked"
  BY DEF Answer, Running
<1>3. GetOne
  BY <1>1 DEF Answer, BatchStep, SetOne, SetDone, GetOne, GetDone, DelOne, DelDone
<1>4. effects' = {} /\ Asked' = {} /\ kv' \in [Key -> Stored] /\ keys' = keys
  BY <1>1, <1>2, <1>3 DEF Answer, Effect, Asked, CInv, GetOne
<1>5. CASE pc' \in {"left", "panic"} /\ UNCHANGED sent
  BY <1>2, <1>4, <1>5, OneLineAtMost DEF Answer, CInv, Waiting, Lost, PeerGone
<1>6. ASSUME NEW tag, NEW text, NEW reply \in Line \cup {NUL, NamedNUL},
             sent' # sent, Len(sent') = 1, todo' = 2, pc' = pc,
             sent'[1] = [tag |-> tag, text |-> text, about |-> call.key,
                         had |-> kv[call.key]],
             Wire(sent'[1]) = <<reply>>,
             reply \in {NUL, NamedNUL} \/ (tag = "VAL" /\ reply = kv[call.key])
      PROVE  CInv'
  <2>1. toClient' = <<reply>>
    BY <1>6, OneLineAtMost DEF Answer
  <2>2. /\ sent' # <<>> /\ sent'[1].tag = tag /\ sent'[1].about = call.key
        /\ sent'[1].had = kv[call.key]
    BY <1>6
  <2>3. Answered(reply)'
    BY <1>1, <1>2, <1>4, <1>6, <2>2 DEF Answered, Rests
  <2> QED
    BY <1>2, <1>4, <2>1, <2>3 DEF CInv, Waiting
<1>7. CASE /\ kv[call.key] = Absent
           /\ Reply("NUL", IF Len(keys) > 1 THEN key ELSE "")
  <2>0. PICK text : Reply("NUL", text)
    BY <1>7
  <2>1. CASE pc' = "left" /\ UNCHANGED sent
    BY <1>5, <2>1
  <2>2. CASE /\ sent' # sent /\ Len(sent') = 1 /\ todo' = 2 /\ pc' = pc
             /\ sent'[1] = [tag |-> "NUL", text |-> text, about |-> call.key,
                            had |-> kv[call.key]]
    <3>1. sent'[1].tag = "NUL"
      BY <2>2
    <3>2. Wire(sent'[1]) = <<NUL>> \/ Wire(sent'[1]) = <<NamedNUL>>
      BY <3>1, WireOfTag
    <3> QED
      BY <1>6, <2>2, <3>2
  <2> QED
    BY <1>1, <1>2, <2>0, <2>1, <2>2, RunningReply
<1>8. CASE kv[call.key] \in Text /\ Reply("VAL", kv[call.key])
  <2>1. CASE pc' = "left" /\ UNCHANGED sent
    BY <1>5, <2>1
  <2>2. CASE /\ sent' # sent /\ Len(sent') = 1 /\ todo' = 2 /\ pc' = pc
             /\ sent'[1] = [tag |-> "VAL", text |-> kv[call.key], about |-> call.key,
                            had |-> kv[call.key]]
    <3>1. sent'[1].tag = "VAL" /\ sent'[1].text = kv[call.key]
      BY <2>2
    <3>2. Lines[kv[call.key]] = <<kv[call.key]>>
      <4>1. kv[call.key] \in ClientVal \cup (HttpVal \cap Text)
        BY <1>1, <1>8, SessionAssumption DEF Stored
      <4> QED
        BY <4>1 DEF SingleLines
    <3>3. Wire(sent'[1]) = <<kv[call.key]>>
      BY <3>1, <3>2 DEF Wire
    <3>4. kv[call.key] \in Line
      BY <1>8 DEF Line
    <3> QED
      BY <1>6, <2>2, <3>3, <3>4
  <2> QED
    BY <1>1, <1>2, <1>8, <2>1, <2>2, RunningReply
<1> QED
  BY <1>1, <1>3, <1>5, <1>7, <1>8 DEF GetOne, Blank

LEMMA RunningDel ==
    ASSUME CInv, Answer, cpc = "waiting", call \in Calls, toClient = <<>>,
           Running, pc = "DEL", SingleLines
    PROVE  CInv'
<1>1. /\ call.op = "DEL" /\ call.key \in Key /\ todo = 1 /\ effects = {} /\ state = 1
      /\ Asked = {<<call.key, Absent>>} /\ keys[1] = call.key /\ Len(keys) = 1
      /\ mode = "DEL"
  BY CallParts DEF Running, Asked
<1>2. /\ UNCHANGED <<toServer, cpc, call, result>> /\ toServer = <<>>
      /\ pc' # "blocked"
  BY DEF Answer, Running
<1>3. DelOne
  BY <1>1 DEF Answer, BatchStep, SetOne, SetDone, GetOne, GetDone, DelOne, DelDone
<1>4. /\ effects' = Asked' /\ kv' \in [Key -> Stored]
      /\ UNCHANGED <<keys, mode, state>>
  BY <1>1, <1>2, <1>3 DEF Answer, Effect, Asked, CInv, DelOne, Stored
<1>5. PICK tag \in {"NUL", "ACK"}, text \in {key, Blank} : Reply(tag, text)
  BY <1>3 DEF DelOne
<1>6. CASE pc' = "left" /\ UNCHANGED sent
  BY <1>2, <1>4, <1>6, OneLineAtMost DEF Answer, CInv, Waiting, Lost, PeerGone
<1>7. CASE /\ sent' # sent /\ Len(sent') = 1 /\ todo' = 2 /\ pc' = pc
           /\ sent'[1] = [tag |-> tag, text |-> text, about |-> call.key,
                          had |-> kv[call.key]]
  <2>1. sent'[1].tag = tag
    BY <1>7
  <2>2. PICK reply \in {NUL, NamedNUL, "ACK"} : Wire(sent'[1]) = <<reply>>
    BY <2>1, <1>5, WireOfTag
  <2>3. toClient' = <<reply>>
    BY <1>7, <2>2, OneLineAtMost DEF Answer
  <2>4. Answered(reply)'
    BY <1>1, <1>2, <1>4, <1>7 DEF Answered, Rests
  <2> QED
    BY <1>2, <1>4, <2>3, <2>4 DEF CInv, Waiting
<1> QED
  BY <1>1, <1>2, <1>5, <1>6, <1>7, RunningReply

LEMMA AnswerStep == ASSUME SingleLines, CInv, Answer PROVE CInv'
<1>1. pc \in Modes
  BY DEF Answer, BatchStep, SetOne, SetDone, GetOne, GetDone, DelOne, DelDone, Modes
<1>2. CASE Rests
  <2>1. Rests' /\ pc' = "read" /\ UNCHANGED <<kv, sent, client>>
    BY <1>2, RestingStep
  <2>2. CASE cpc = "idle" /\ Idle
    BY <1>1, <2>1, <2>2 DEF CInv, Idle, client, EffectsOfCall, GetReturnsHeld, Asked, Modes,
        PeerGone
  <2>3. CASE cpc = "waiting" /\ Waiting
    <3>1. CASE toClient = <<>> /\ Unread
      BY <1>2, <2>1, <2>3, <3>1 DEF CInv, Waiting, Unread, client
    <3>2. CASE toClient = <<>> /\ (Collecting \/ Running \/ Lost)
      BY <1>1, <1>2, <3>2 DEF Collecting, Running, Lost, Rests, Modes, PeerGone
    <3>3. ASSUME NEW reply \in Line \cup {NUL, NamedNUL, "ACK", CAN},
                 toClient = <<reply>>, Answered(reply)
          PROVE  CInv'
      <4>1. Answered(reply)'
        BY <1>1, <2>1, <3>3 DEF Answered, client, Asked, Modes, PeerGone
      <4> QED
        BY <2>1, <2>3, <3>3, <4>1 DEF CInv, Waiting, client
    <3> QED
      BY <2>3, <3>1, <3>2, <3>3 DEF Waiting
  <2> QED
    BY <1>1, <2>2, <2>3 DEF CInv, Connecting, Modes
<1>3. CASE ~Rests
  <2>1. cpc = "waiting" /\ Waiting
    BY <1>1, <1>3 DEF CInv, Connecting, Idle, Modes, PeerGone
  <2>2. call \in Calls /\ toClient = <<>> /\ Running
    BY <1>1, <1>3, <2>1 DEF Waiting, Unread, Collecting, Lost, Answered, Modes, PeerGone
  <2> QED
    BY <1>1, <2>1, <2>2, RunningSet, RunningGet, RunningDel DEF Modes
<1> QED
  BY <1>2, <1>3

LEMMA CNextKeeps == ASSUME SingleLines PROVE CInv /\ [CNext]_cvars => CInv'
<1> SUFFICES ASSUME CInv, [CNext]_cvars PROVE CInv'
  OBVIOUS
<1>1. CASE ClientStep
  BY <1>1, ConnectedStep, ReadReplyStep, ReadFailsStep DEF ClientStep
<1>2. CASE SessionStep
  BY <1>2, GreetStep, ReadLineStep, AnswerStep DEF SessionStep
<1>3. CASE UNCHANGED cvars
  BY <1>3 DEF cvars, vars, session, client, CInv, Connecting, Idle, Waiting, Unread, Rests,
              Collecting, Running, Lost, Answered, EffectsOfCall, GetReturnsHeld, Asked,
      PeerGone
<1> QED
  BY <1>1, <1>2, <1>3, CallStep, RedialStep, BreakStep, OthersStep DEF CNext
----------------------------------------------------------------------------
(* A client of the library is one of the peers of SocketSession *)

\* The lines under way to the server are lines.
LinesOK == toServer \in Seq(Line)

LEMMA RequestIsLines == ASSUME NEW c \in Calls PROVE Request(c) \in Seq(Line)
<1>0. c.op \in Modes
  BY DEF Calls, Modes
<1>1. Started[c.op] \in Line /\ ETB \in Line
  BY <1>0 DEF Line, Command, OneChar
<1>2. Lines[c.key] \in Seq(Line) /\ (c.op = "SET" => Lines[c.val] \in Seq(Line))
  BY ClientAssumption DEF Calls
<1> DEFINE val == IF c.op = "SET" THEN Lines[c.val] ELSE <<>>
<1>3. val \in Seq(Line)
  BY <1>2
<1> HIDE DEF val
<1>4. <<Started[c.op]>> \o Lines[c.key] \o val \o <<ETB>> \in Seq(Line)
  BY <1>1, <1>2, <1>3
<1> QED
  BY <1>4, Zenon DEF Request, val

LEMMA LinesStep == LinesOK /\ [CNext]_cvars => LinesOK'
<1> SUFFICES ASSUME LinesOK, [CNext]_cvars PROVE LinesOK'
  OBVIOUS
<1>0. (toServer' = toServer => LinesOK') /\ (toServer' = <<>> => LinesOK')
  <2>1. <<>> \in Seq(Line)
    OBVIOUS
  <2>2. toServer' = toServer => LinesOK'
    BY DEF LinesOK
  <2>3. toServer' = <<>> => LinesOK'
    BY <2>1 DEF LinesOK
  <2> QED
    BY <2>2, <2>3
<1>1. ASSUME NEW c \in Calls, Call(c) PROVE LinesOK'
  <2>1. toServer \o Request(c) \in Seq(Line)
    BY RequestIsLines DEF LinesOK
  <2>2. CASE toServer' = IF PeerGone THEN <<>> ELSE toServer \o Request(c)
    <3>1. CASE PeerGone
      BY <1>0, <2>2, <3>1
    <3>2. CASE ~PeerGone
      BY <2>1, <2>2, <3>2 DEF LinesOK
    <3> QED
      BY <3>1, <3>2
  <2>3. CASE UNCHANGED toServer
    BY <1>0, <2>3
  <2> QED
    BY <1>1, <2>2, <2>3 DEF Call, Return
<1>2. CASE ClientStep
  <2>1. CASE Connected
    BY <1>0, <2>1 DEF Connected
  <2>2. CASE ReadReply
    <3>1. UNCHANGED toServer
      BY <2>2, Zenon DEF ReadReply
    <3> QED
      BY <1>0, <3>1
  <2>3. CASE ReadFails
    <3>1. toServer' = <<>>
      BY <2>3, Zenon DEF ReadFails
    <3> QED
      BY <1>0, <3>1
  <2> QED
    BY <1>2, <2>1, <2>2, <2>3 DEF ClientStep
<1>3. CASE SessionStep
  <2>1. toServer' = toServer \/ (toServer # <<>> /\ toServer' = Tail(toServer))
    BY <1>3, Zenon DEF SessionStep, Greet, ReadLine, Answer
  <2> QED
    BY <2>1 DEF LinesOK
<1>4. CASE Redial
  BY <1>0, <1>4 DEF Redial
<1>5. CASE Break \/ Others \/ UNCHANGED cvars
  <2>1. UNCHANGED client
    BY <1>5 DEF Break, Others, cvars
  <2> QED
    BY <1>0, <2>1 DEF client
<1> QED
  BY <1>1, <1>2, <1>3, <1>4, <1>5 DEF CNext

LEMMA PeerStep == LinesOK /\ [CNext]_cvars => [Next]_vars
<1> SUFFICES ASSUME LinesOK, [CNext]_cvars PROVE [Next]_vars
  OBVIOUS
<1>1. CASE SessionStep
  <2>1. CASE Greet
    BY <2>1 DEF Greet, Next
  <2>2. CASE ReadLine
    <3>1. line' \in Line /\ Reads(line')
      BY <2>2, ReadLineIs DEF LinesOK
    <3> QED
      BY <3>1 DEF Reads, Next
  <2>3. CASE Answer
    BY <2>3 DEF Answer, Next
  <2> QED
    BY <1>1, <2>1, <2>2, <2>3 DEF SessionStep
<1>2. CASE Others
  BY <1>2, ClientAssumption DEF Others, OtherCall, Next
<1>3. ASSUME NEW c \in Calls, Call(c) PROVE UNCHANGED vars
  BY <1>3 DEF Call
<1>4. CASE ClientStep
  BY <1>4 DEF ClientStep, Connected, ReadReply, ReadFails
<1> QED
  BY <1>1, <1>2, <1>3, <1>4 DEF CNext, Redial, Break, Next, cvars
----------------------------------------------------------------------------
(* The theorems about the client *)

\* What is proved of a session holds of one that serves the client library,
\* whatever keys, values and line breaks the library sends.
THEOREM ClientIsAPeer == CSpec => Init /\ [][Next]_vars
<1>1. CInit => LinesOK
  BY DEF CInit, LinesOK
<1>2. CInit => Init
  BY DEF CInit
<1> QED
  BY <1>1, <1>2, LinesStep, PeerStep, PTL DEF CSpec

\* The inductive invariant: where client and session can be at the same time.
THEOREM ConversationInvariance == ASSUME SingleLines PROVE CSpec => []CInv
BY CInitHolds, CNextKeeps, PTL DEF CSpec

\* Replies are read by the calls they answer: between two calls nothing is under
\* way, after any number of calls, refusals, broken connections and new ones.
THEOREM RepliesStayInStep == ASSUME SingleLines PROVE CSpec => []RepliesInStep
<1>1. CInv => RepliesInStep
  BY DEF CInv, Idle, RepliesInStep
<1> QED
  BY <1>1, ConversationInvariance, PTL

\* The session does what the call asked for, all of it if the call returns with
\* an answer, and nothing else.
THEOREM CallsTakeEffect == ASSUME SingleLines PROVE CSpec => []EffectsOfCall
<1>1. CInv => EffectsOfCall
  <2> SUFFICES ASSUME CInv PROVE EffectsOfCall
    OBVIOUS
  <2>1. CASE cpc = "connecting"
    BY <2>1 DEF CInv, Connecting, EffectsOfCall
  <2>2. CASE cpc = "idle"
    BY <2>2 DEF CInv, Idle
  <2>3. CASE cpc = "waiting"
    BY <2>3 DEF CInv, Waiting, Unread, Collecting, Running, Lost, Answered, EffectsOfCall
  <2> QED
    BY <2>1, <2>2, <2>3 DEF CInv
<1> QED
  BY <1>1, ConversationInvariance, PTL

\* A GET returns what its own key held when the session read it.
THEOREM GetsReturnTheirs == ASSUME SingleLines PROVE CSpec => []GetReturnsHeld
<1>1. CInv => GetReturnsHeld
  BY DEF CInv, Idle, GetReturnsHeld
<1> QED
  BY <1>1, ConversationInvariance, PTL
----------------------------------------------------------------------------
(* A call returns *)

\* The client has a line to read, or the session or the server has ended.
Due == cpc = "waiting" /\ (toClient # <<>> \/ PeerGone)

\* What the session has left to do: the end of the last batch, the lines of the
\* request, and the two steps of a batch of one key.
LinesToAnswer == IF toServer = <<>> THEN 3 - todo
                 ELSE Len(toServer) + 2 + (IF pc = "read" THEN 0 ELSE 1)

Pending(n) == cpc = "waiting" /\ ~Due /\ LinesToAnswer <= n

LEMMA RequestLengths ==
    ASSUME NEW c \in Calls
    PROVE  /\ Len(Whole(c)) \in 3..4 /\ Len(AfterCommand(c)) = Len(Whole(c)) - 1
           /\ Len(AfterKey(c)) = Len(Whole(c)) - 2
           /\ Whole(c) # <<>> /\ AfterCommand(c) # <<>> /\ AfterKey(c) # <<>>
<1>1. CASE c.op = "SET"
  BY <1>1 DEF Whole, AfterCommand, AfterKey
<1>2. CASE c.op # "SET"
  BY <1>2 DEF Whole, AfterCommand, AfterKey
<1> QED
  BY <1>1, <1>2

\* Reading a line of the request leaves one line less.
LEMMA RequestShortens ==
    ASSUME NEW c \in Calls, NEW s \in {Whole(c), AfterCommand(c), AfterKey(c), <<ETB>>}
    PROVE  /\ s # <<>> /\ Len(s) \in 1..4 /\ Tail(s) # Whole(c)
           /\ Tail(s) # <<>> => Len(Tail(s)) = Len(s) - 1
<1>1. Len(<<ETB>>) = 1 /\ <<ETB>> # <<>>
  OBVIOUS
<1>2. \/ s = Whole(c) /\ Tail(s) = AfterCommand(c)
      \/ s = AfterCommand(c) /\ Tail(s) = AfterKey(c)
      \/ s = AfterKey(c) /\ c.op = "SET" /\ Tail(s) = <<ETB>> /\ Len(s) = 2
      \/ s = <<ETB>> /\ Tail(s) = <<>>
  <2>1. CASE c.op = "SET"
    <3>1. Len(AfterKey(c)) = 2
      BY <2>1 DEF AfterKey
    <3> QED
      BY <2>1, <3>1, HeadsAndTails
  <2>2. CASE c.op # "SET"
    BY <2>2, HeadsAndTails
  <2> QED
    BY <2>1, <2>2
<1>3. /\ Len(Whole(c)) \in 3..4 /\ Len(AfterCommand(c)) = Len(Whole(c)) - 1
      /\ Len(AfterKey(c)) = Len(Whole(c)) - 2 /\ Len(<<>>) = 0
      /\ Whole(c) # <<>> /\ AfterCommand(c) # <<>> /\ AfterKey(c) # <<>>
  BY RequestLengths
<1>4. Len(s) \in 1..4 /\ s # <<>>
  <2>1. CASE s = <<ETB>>
    BY <1>1, <2>1
  <2>2. CASE s = Whole(c)
    BY <1>3, <2>2
  <2>3. CASE s = AfterCommand(c)
    <3>1. Len(AfterCommand(c)) \in 1..4
      BY <1>3
    <3> QED
      BY <1>3, <2>3, <3>1
  <2>4. CASE s = AfterKey(c)
    <3>1. Len(AfterKey(c)) \in 1..4
      BY <1>3
    <3> QED
      BY <1>3, <2>4, <3>1
  <2> QED
    BY <2>1, <2>2, <2>3, <2>4
<1>5. Tail(s) = <<>> \/ Len(Tail(s)) = Len(s) - 1
  BY <1>1, <1>2, <1>3
<1>6. Len(Tail(s)) < Len(Whole(c))
  <2>1. CASE s = Whole(c) \/ s = AfterCommand(c)
    BY <1>1, <1>2, <1>3, <2>1
  <2>2. CASE ~(s = Whole(c) \/ s = AfterCommand(c))
    <3>1. Tail(s) = <<ETB>> \/ Tail(s) = <<>>
      BY <1>2, <2>2
    <3> QED
      BY <1>1, <1>3, <3>1
  <2> QED
    BY <2>1, <2>2
<1> QED
  BY <1>4, <1>5, <1>6

\* Where a call waits without anything to read, and how much is left.
Stage == /\ call \in Calls /\ toClient = <<>> /\ ~PeerGone
         /\ \/ Unread
            \/ /\ Collecting
               /\ toServer \in {AfterCommand(call), AfterKey(call), <<ETB>>}
            \/ Running

LEMMA PendingStages == CInv /\ cpc = "waiting" /\ ~Due => Stage
<1> SUFFICES ASSUME CInv, cpc = "waiting", ~Due PROVE Stage
  OBVIOUS
<1>1. Waiting /\ toClient = <<>> /\ ~PeerGone
  BY DEF CInv, Due
<1>2. call \in Calls /\ (Unread \/ Collecting \/ Running)
  <2>1. \A reply : toClient # <<reply>>
    BY <1>1
  <2> QED
    BY <1>1, <2>1 DEF Waiting, Lost
<1>3. Collecting => toServer \in {AfterCommand(call), AfterKey(call), <<ETB>>}
  BY DEF Collecting
<1> QED
  BY <1>1, <1>2, <1>3 DEF Stage

LEMMA ReadLineShortens ==
    ASSUME CInv, CInv', NEW n \in Int, Pending(n), ReadLine
    PROVE  Pending(n - 1)' \/ Due'
<1> SUFFICES ASSUME ~Due' PROVE Pending(n - 1)'
  OBVIOUS
<1>1. /\ toServer # <<>> /\ toServer' = Tail(toServer) /\ pc = "read"
      /\ call' = call /\ cpc = "waiting" /\ cpc' = "waiting"
  BY ReadLineIs DEF Pending
<1>2. call \in Calls /\ toServer \in {Whole(call), AfterCommand(call), AfterKey(call), <<ETB>>}
  BY <1>1, PendingStages DEF Pending, Stage, Unread, Running
<1>3. /\ Len(toServer) \in 1..4 /\ toServer' # Whole(call)
      /\ toServer' # <<>> => Len(toServer') = Len(toServer) - 1
  BY <1>1, <1>2, RequestShortens
<1>4. LinesToAnswer = Len(toServer) + 2
  BY <1>1, <1>3 DEF LinesToAnswer
<1>5. \/ toServer' # <<>> /\ pc' = "read"
      \/ toServer' = <<>> /\ todo' \in {1, 2}
  <2>1. \/ toServer' = Whole(call)
        \/ pc' = "read" /\ toServer' \in {AfterCommand(call), AfterKey(call), <<ETB>>}
        \/ toServer' = <<>> /\ todo' \in {1, 2}
    <3>1. (CInv /\ cpc = "waiting" /\ ~Due)' => Stage'
      BY PendingStages, PTL
    <3> QED
      BY <1>1, <3>1 DEF Stage, Unread, Collecting, Running
  <2>2. Whole(call) # <<>> /\ AfterCommand(call) # <<>> /\ AfterKey(call) # <<>> /\ <<ETB>> # <<>>
    BY <1>2, RequestLengths
  <2> QED
    BY <1>3, <2>1, <2>2
<1>6. LinesToAnswer' <= LinesToAnswer - 1
  BY <1>3, <1>4, <1>5 DEF LinesToAnswer
<1>7. LinesToAnswer \in Int /\ LinesToAnswer' \in Int /\ LinesToAnswer <= n
  BY <1>3, <1>4, <1>5 DEF LinesToAnswer, Pending
<1> QED
  BY <1>1, <1>6, <1>7 DEF Pending

LEMMA AnswerShortens ==
    ASSUME CInv, CInv', NEW n \in Int, Pending(n), Answer
    PROVE  Pending(n - 1)' \/ Due'
<1> SUFFICES ASSUME ~Due' PROVE Pending(n - 1)'
  OBVIOUS
<1>1. /\ pc \in Modes /\ cpc = "waiting" /\ cpc' = cpc /\ toServer' = toServer
      /\ call' = call
  BY DEF Pending, Answer, BatchStep, SetOne, SetDone, GetOne, GetDone, DelOne, DelDone, Modes
<1>2. Stage
  BY PendingStages DEF Pending
<1>3. CASE Unread
  <2>1. pc' = "read"
    BY <1>3, RestingStep DEF Unread
  <2>2. toServer # <<>> /\ Len(toServer) \in 3..4 /\ pc # "read"
    BY <1>1, <1>2, <1>3, RequestLengths DEF Unread, Stage, Modes
  <2> QED
    BY <1>1, <2>1, <2>2 DEF Pending, LinesToAnswer
<1>4. CASE Running
  <2>1. toServer = <<>> /\ Len(keys) = 1 /\ todo \in {1, 2}
    BY <1>4 DEF Running
  <2>2. Stage'
    <3>1. (CInv /\ cpc = "waiting" /\ ~Due)' => Stage'
      BY PendingStages, PTL
    <3> QED
      BY <1>1, <3>1
  <2>3. Whole(call) # <<>> /\ AfterCommand(call) # <<>> /\ AfterKey(call) # <<>> /\ <<ETB>> # <<>>
    BY <1>2, RequestLengths DEF Stage
  <2>4. Running'
    BY <1>1, <2>1, <2>2, <2>3 DEF Stage, Unread, Collecting
  <2>5. pc' \in Modes /\ todo' \in {1, 2}
    BY <1>1, <1>2, <2>4, CallParts DEF Running, Stage, Calls, Modes
  <2>6. todo' = todo + 1
    BY <2>1, <2>5 DEF Answer, BatchStep, SetOne, SetDone, SetAcknowledged, GetOne,
                      GetDone, DelOne, DelDone, Reply, Modes
  <2> QED
    BY <1>1, <2>1, <2>5, <2>6 DEF Pending, LinesToAnswer
<1> QED
  BY <1>1, <1>2, <1>3, <1>4 DEF Stage, Collecting, Modes

LEMMA PendingMoves ==
    ASSUME CInv, CInv', NEW n \in Int, Pending(n), [CNext]_cvars
    PROVE  /\ SessionStep => Pending(n - 1)' \/ Due'
           /\ Pending(n)' \/ Pending(n - 1)' \/ Due'
<1>1. cpc = "waiting" /\ toClient = <<>> /\ ~PeerGone /\ pc # "banner"
  <2>1. Stage
    BY PendingStages DEF Pending
  <2> QED
    BY <2>1 DEF Pending, Stage, Due, Unread, Rests, Collecting, Running, Calls
<1>2. SessionStep => Pending(n - 1)' \/ Due'
  BY <1>1, ReadLineShortens, AnswerShortens DEF SessionStep, Greet, Banner
<1>3. Break => Due'
  BY <1>1 DEF Break, ReadError, Leave, Due, client, PeerGone
<1>4. ASSUME Others \/ UNCHANGED cvars PROVE Pending(n)'
  <2>1. UNCHANGED <<session, client>>
    BY <1>4 DEF Others, cvars, vars
  <2> QED
    BY <2>1 DEF session, client, Pending, Due, LinesToAnswer, PeerGone
<1>5. ~ClientStep /\ ~Redial /\ \A c \in Calls : ~Call(c)
  BY <1>1 DEF ClientStep, Connected, ReadReply, ReadFails, Redial, Call
<1> QED
  BY <1>2, <1>3, <1>4, <1>5 DEF CNext

\* What is due stays so until the client takes it.
LEMMA DueMoves ==
    ASSUME CInv, CInv', Due, [CNext]_cvars
    PROVE  /\ ClientStep => cpc' = "idle"
           /\ Due' \/ cpc' = "idle"
<1>1. cpc = "waiting"
  BY DEF Due
<1>2. ClientStep => cpc' = "idle"
  BY <1>1 DEF ClientStep, Connected, ReadReply, ReadFails, Return, SetReturns,
                    GetReturns, DelReturns
<1>3. ReadLine => Due'
  BY <1>1, ReadLineIs DEF Due, PeerGone
<1>4. ASSUME Answer PROVE Due'
  <2>1. pc \in Modes /\ cpc' = cpc
    BY <1>4 DEF Answer, BatchStep, SetOne, SetDone, GetOne, GetDone, DelOne, DelDone, Modes
  <2>2. toClient # <<>> /\ Rests
    BY <1>1, <2>1 DEF Due, CInv, Waiting, Answered, Modes, PeerGone
  <2>3. toClient' = toClient
    BY <1>4, <2>2, RestingStep DEF client
  <2> QED
    BY <1>1, <2>1, <2>2, <2>3 DEF Due
<1>5. ~Greet
  <2>1. pc # "banner"
    BY <1>1 DEF CInv, Waiting, Unread, Rests, Collecting, Running, Lost, Answered, Calls,
        PeerGone
  <2> QED
    BY <2>1 DEF Greet, Banner
<1>6. Break => Due'
  BY <1>1 DEF Break, ReadError, Leave, Due, client, PeerGone
<1>7. ASSUME Others \/ UNCHANGED cvars PROVE Due'
  <2>1. UNCHANGED <<session, client>>
    BY <1>7 DEF Others, cvars, vars
  <2> QED
    BY <2>1 DEF session, client, Due, PeerGone
<1>8. ~Redial /\ \A c \in Calls : ~Call(c)
  BY <1>1 DEF Redial, Call
<1> QED
  BY <1>2, <1>3, <1>4, <1>5, <1>6, <1>7, <1>8 DEF CNext, SessionStep

\* The part of ENABLED, a hypothesis.
CallEnabled == /\ Due => ENABLED <<ClientStep>>_cvars
               /\ cpc = "waiting" /\ ~Due => ENABLED <<SessionStep>>_cvars

CallEnds == CSpec /\ []CallEnabled

LEMMA DueTaken == ASSUME SingleLines PROVE CallEnds => (Due ~> cpc = "idle")
<1>1. CInv /\ CInv' /\ Due /\ [CNext]_cvars => Due' \/ (cpc = "idle")'
  BY DueMoves
<1>2. CInv /\ CInv' /\ Due /\ [CNext]_cvars /\ ClientStep => (cpc = "idle")'
  BY DueMoves
<1> QED
  BY <1>1, <1>2, ConversationInvariance, PTL DEF CSpec, CallEnds, CallEnabled

LEMMA OneStepLess ==
    ASSUME SingleLines, NEW n \in Int
    PROVE  CallEnds => (Pending(n) ~> Pending(n - 1) \/ Due)
<1>1. CInv /\ CInv' /\ Pending(n) /\ [CNext]_cvars => Pending(n)' \/ Pending(n - 1)' \/ Due'
  BY PendingMoves
<1>2. CInv /\ CInv' /\ Pending(n) /\ [CNext]_cvars /\ SessionStep => Pending(n - 1)' \/ Due'
  BY PendingMoves
<1>3. Pending(n) => cpc = "waiting" /\ ~Due
  BY DEF Pending
<1> QED
  BY <1>1, <1>2, <1>3, ConversationInvariance, PTL DEF CSpec, CallEnds, CallEnabled

LEMMA LinesLeft == CInv /\ cpc = "waiting" /\ ~Due => LinesToAnswer \in 1..7
<1> SUFFICES ASSUME CInv, cpc = "waiting", ~Due PROVE LinesToAnswer \in 1..7
  OBVIOUS
<1>1. Stage
  BY PendingStages
<1>2. CASE toServer = <<>>
  <2>1. todo \in {1, 2}
    BY <1>1, <1>2, RequestLengths DEF Stage, Unread, Collecting, Running
  <2> QED
    BY <1>2, <2>1 DEF LinesToAnswer
<1>3. CASE toServer # <<>>
  <2> DEFINE k == Len(toServer)
  <2>1. k \in 1..4
    BY <1>1, <1>3, RequestShortens DEF Stage, Unread, Running
  <2>2. LinesToAnswer = k + 2 \/ LinesToAnswer = k + 3
    <3>1. LinesToAnswer = k + 2 + (IF pc = "read" THEN 0 ELSE 1)
      BY <1>3 DEF LinesToAnswer
    <3> HIDE DEF k
    <3>2. CASE pc = "read"
      BY <2>1, <3>1, <3>2
    <3>3. CASE pc # "read"
      BY <2>1, <3>1, <3>3
    <3> QED
      BY <3>2, <3>3
  <2> HIDE DEF k
  <2> QED
    BY <2>1, <2>2
<1> QED
  BY <1>2, <1>3

LessLeft(n, m) == CallEnds => (Pending(n) ~> Pending(m) \/ Due)

\* Every call returns, with its reply or an error, whatever broke before and
\* whatever others store meanwhile, the number or list included that, read, ends
\* the server and with it the call.
THEOREM CallsReturn == ASSUME SingleLines PROVE CSpec /\ []CallEnabled => CallReturns
<1>1. \A n \in Int : LessLeft(n, n - 1)
  BY OneStepLess DEF LessLeft
<1>2. /\ LessLeft(7, 6) /\ LessLeft(6, 5) /\ LessLeft(5, 4) /\ LessLeft(4, 3) /\ LessLeft(3, 2) /\ LessLeft(2, 1)
      /\ LessLeft(1, 0)
  <2>1. /\ 7 - 1 = 6 /\ 6 - 1 = 5 /\ 5 - 1 = 4 /\ 4 - 1 = 3 /\ 3 - 1 = 2 /\ 2 - 1 = 1
        /\ 1 - 1 = 0
    OBVIOUS
  <2> QED
    BY <1>1, <2>1
<1>3. CInv /\ cpc = "waiting" => Due \/ Pending(7)
  BY LinesLeft DEF Pending
<1>4. CInv => ~Pending(0)
  BY LinesLeft DEF Pending
<1> QED
  BY <1>2, <1>3, <1>4, DueTaken, ConversationInvariance, PTL DEF CallEnds, CallReturns, LessLeft
----------------------------------------------------------------------------
(* Escape and UnEscape, for texts of any length *)

\* Induction, for a set of numbers and for a set of sequences.
LEMMA SmallestExists ==
    ASSUME NEW T \in SUBSET Nat, T # {}
    PROVE  \E n \in T : \A m \in T : n <= m
<1>1. PICK n \in T : \A m \in T : ~(<<m, n>> \in OpToRel(<, Nat))
  BY NatLessThanWellFounded, WFMin, Zenon
<1>2. \A m \in Nat : m < n => <<m, n>> \in OpToRel(<, Nat)
  BY DEF OpToRel
<1>3. \A m \in T : ~(m < n)
  BY <1>1, <1>2
<1> QED
  BY <1>3

LEMMA AllNaturals ==
    ASSUME NEW T, 0 \in T, \A n \in Nat : n \in T => n + 1 \in T
    PROVE  Nat \subseteq T
<1> SUFFICES ASSUME Nat \ T # {} PROVE FALSE
  OBVIOUS
<1>1. PICK n \in Nat \ T : \A m \in Nat \ T : n <= m
  BY SmallestExists
<1>2. n # 0 /\ n - 1 \in Nat /\ n - 1 \notin T
  BY <1>1
<1> QED
  BY <1>1, <1>2

LEMMA AllSequences ==
    ASSUME NEW C, NEW T, <<>> \in T,
           \A s \in Seq(C), x \in C : s \in T => Append(s, x) \in T
    PROVE  Seq(C) \subseteq T
<1> DEFINE N == {n \in Nat : \A s \in Seq(C) : Len(s) = n => s \in T}
<1>1. 0 \in N
  <2>1. \A s \in Seq(C) : Len(s) = 0 => s = <<>>
    BY EmptySeq
  <2> QED
    BY <2>1
<1>2. ASSUME NEW n \in Nat, n \in N PROVE n + 1 \in N
  <2> SUFFICES ASSUME NEW s \in Seq(C), Len(s) = n + 1 PROVE s \in T
    OBVIOUS
  <2>1. /\ SubSeq(s, 1, n) \in Seq(C) /\ Len(SubSeq(s, 1, n)) = n
        /\ s[n + 1] \in C /\ s = Append(SubSeq(s, 1, n), s[n + 1])
    OBVIOUS
  <2>2. SubSeq(s, 1, n) \in T
    BY <1>2, <2>1
  <2> QED
    BY <2>1, <2>2
<1>3. Nat \subseteq N
  BY <1>1, <1>2, AllNaturals
<1> QED
  BY <1>3, LenProperties

\* What escaping makes of one more character.
More(a, x, c, l) == a \o (IF x = c THEN <<Backslash, l>> ELSE <<x>>)

\* What unescaping makes of the i-th, w being what it made of those before.
Less(w, s, i, l, c) == IF i > 1 /\ s[i-1] = Backslash /\ s[i] = l
                       THEN Append(w[i-2], c) ELSE Append(w[i-1], s[i])

\* The recursions define what they say.
LEMMA EscapedIs ==
    ASSUME NEW C, NEW s \in Seq(C), NEW c, NEW l
    PROVE  /\ Escaped(s, c, l)[0] = <<>>
           /\ \A i \in 1..Len(s) :
                 Escaped(s, c, l)[i] = More(Escaped(s, c, l)[i - 1], s[i], c, l)
<1> DEFINE Is(w, n) ==
        w = [i \in 0..n |-> IF i = 0 THEN <<>> ELSE More(w[i-1], s[i], c, l)]
<1> DEFINE T == {n \in Nat : \E w : Is(w, n)}
<1>1. 0 \in T
  <2>1. Is([i \in 0..0 |-> <<>>], 0)
    OBVIOUS
  <2> QED
    BY <2>1
<1>2. ASSUME NEW n \in Nat, n \in T PROVE n + 1 \in T
  <2>1. PICK w : Is(w, n)
    BY <1>2
  <2> DEFINE v == [i \in 0..n+1 |->
                      IF i = n + 1 THEN More(w[n], s[n+1], c, l) ELSE w[i]]
  <2>2. Is(v, n + 1)
    <3>1. \A i \in 0..n : v[i] = w[i]
      OBVIOUS
    <3>2. ASSUME NEW i \in 0..n+1
          PROVE  v[i] = IF i = 0 THEN <<>> ELSE More(v[i-1], s[i], c, l)
      <4>1. CASE i = n + 1
        BY <3>1, <4>1
      <4>2. CASE i \in 0..n
        <5>1. v[i] = w[i] /\ (i # 0 => v[i-1] = w[i-1])
          BY <3>1, <4>2
        <5>2. w[i] = IF i = 0 THEN <<>> ELSE More(w[i-1], s[i], c, l)
          BY <2>1, <4>2
        <5> QED
          BY <5>1, <5>2
      <4> QED
        BY <4>1, <4>2
    <3> QED
      BY <3>2
  <2> HIDE DEF v, Is
  <2> QED
    BY <2>2
<1>3. \E w : Is(w, Len(s))
  <2>1. Len(s) \in Nat
    OBVIOUS
  <2> HIDE DEF Is
  <2>2. Nat \subseteq T
    BY <1>1, <1>2, AllNaturals
  <2> QED
    BY <2>1, <2>2
<1>4. Is(Escaped(s, c, l), Len(s))
  BY <1>3 DEF Escaped, More
<1> QED
  BY <1>4

LEMMA UnEscapedIs ==
    ASSUME NEW C, NEW s \in Seq(C), NEW c, NEW l
    PROVE  /\ UnEscaped(s, l, c)[0] = <<>>
           /\ \A i \in 1..Len(s) :
                 UnEscaped(s, l, c)[i] = Less(UnEscaped(s, l, c), s, i, l, c)
<1> DEFINE Nth(w, i) == IF i = 0 THEN <<>> ELSE Less(w, s, i, l, c)
<1> DEFINE Is(w, n) == w = [i \in 0..n |-> Nth(w, i)]
<1> DEFINE T == {n \in Nat : \E w : Is(w, n)}
<1>1. 0 \in T
  <2>1. Is([i \in 0..0 |-> <<>>], 0)
    OBVIOUS
  <2> QED
    BY <2>1
<1>2. ASSUME NEW n \in Nat, n \in T PROVE n + 1 \in T
  <2>1. PICK w : Is(w, n)
    BY <1>2
  <2> DEFINE v == [i \in 0..n+1 |-> IF i = n + 1 THEN Nth(w, n + 1) ELSE w[i]]
  <2>2. Is(v, n + 1)
    <3>1. \A i \in 0..n : v[i] = w[i]
      OBVIOUS
    <3>2. ASSUME NEW i \in 0..n+1 PROVE v[i] = Nth(v, i)
      <4>0. Nth(v, i) = Nth(w, i)
        <5>1. /\ i > 0 => v[i-1] = w[i-1]
              /\ i > 1 => v[i-2] = w[i-2]
          BY <3>1
        <5>2. i > 0 => Less(v, s, i, l, c) = Less(w, s, i, l, c)
          <6> HIDE DEF v
          <6> QED
            BY <5>1 DEF Less
        <5> HIDE DEF v
        <5> QED
          BY <5>2
      <4>1. CASE i = n + 1
        BY <4>0, <4>1
      <4>2. CASE i \in 0..n
        <5>1. v[i] = w[i]
          BY <3>1, <4>2
        <5>2. w[i] = Nth(w, i)
          BY <2>1, <4>2
        <5> QED
          BY <4>0, <5>1, <5>2
      <4> QED
        BY <4>1, <4>2
    <3> HIDE DEF Nth
    <3> QED
      BY <3>2
  <2> HIDE DEF v, Is
  <2> QED
    BY <2>2
<1>3. \E w : Is(w, Len(s))
  <2>1. Len(s) \in Nat
    OBVIOUS
  <2> HIDE DEF Is
  <2>2. Nat \subseteq T
    BY <1>1, <1>2, AllNaturals
  <2> QED
    BY <2>1, <2>2
<1> DEFINE u == UnEscaped(s, l, c)
<1>4. u = [i \in 0..Len(s) |-> Nth(u, i)]
  BY <1>3 DEF UnEscaped, Less
<1> HIDE DEF u, Nth
<1>5. \A i \in 0..Len(s) : u[i] = Nth(u, i)
  BY <1>4, Zenon
<1>6. Len(s) \in Nat /\ 0 \in 0..Len(s) /\ \A i \in 1..Len(s) : i # 0 /\ i \in 0..Len(s)
  BY LenProperties
<1>7. u[0] = <<>>
  BY <1>5, <1>6 DEF Nth
<1>8. \A i \in 1..Len(s) : u[i] = Less(u, s, i, l, c)
  BY <1>5, <1>6 DEF Nth
<1> QED
  BY <1>7, <1>8 DEF u

\* What follows in a text does not change what was made of it so far.
LEMMA EscapedPrefix ==
    ASSUME NEW C, NEW s \in Seq(C), NEW x \in C, NEW c, NEW l
    PROVE  \A i \in 0..Len(s) : Escaped(Append(s, x), c, l)[i] = Escaped(s, c, l)[i]
<1> DEFINE t == Append(s, x)
           v == Escaped(t, c, l)
           w == Escaped(s, c, l)
           n == Len(s)
           T == {i \in Nat : i <= n => v[i] = w[i]}
<1>1. t \in Seq(C) /\ Len(t) = n + 1 /\ n \in Nat /\ \A i \in 1..n : t[i] = s[i]
  BY AppendProperties
<1> HIDE DEF t
<1>2. v[0] = <<>> /\ \A i \in 1..n+1 : v[i] = More(v[i - 1], t[i], c, l)
  BY <1>1, EscapedIs
<1>3. w[0] = <<>> /\ \A i \in 1..n : w[i] = More(w[i - 1], s[i], c, l)
  BY EscapedIs
<1> HIDE DEF n, v, w
<1>4. v[0] = w[0]
  BY <1>2, <1>3, Zenon
<1>5. ASSUME NEW i \in Nat, i \in T PROVE i + 1 \in T
  <2> SUFFICES ASSUME i + 1 <= n PROVE v[i + 1] = w[i + 1]
    OBVIOUS
  <2> DEFINE j == i + 1
  <2>1. v[j - 1] = w[j - 1] /\ j \in 1..n /\ j \in 1..n+1
    BY <1>1, <1>5
  <2> HIDE DEF j
  <2>2. v[j] = w[j]
    BY <1>1, <1>2, <1>3, <2>1, Zenon
  <2> QED
    BY <2>2 DEF j
<1>6. Nat \subseteq T
  BY <1>4, <1>5, AllNaturals
<1>7. \A i \in 0..n : v[i] = w[i]
  BY <1>1, <1>6
<1> QED
  BY <1>7 DEF n, t, v, w

LEMMA UnEscapedPrefix ==
    ASSUME NEW C, NEW s \in Seq(C), NEW x \in C, NEW c, NEW l
    PROVE  \A i \in 0..Len(s) :
              UnEscaped(Append(s, x), l, c)[i] = UnEscaped(s, l, c)[i]
<1> DEFINE t == Append(s, x)
           v == UnEscaped(t, l, c)
           w == UnEscaped(s, l, c)
           n == Len(s)
           T == {i \in Nat : \A h \in 0..i : h <= n => v[h] = w[h]}
<1>1. t \in Seq(C) /\ Len(t) = n + 1 /\ n \in Nat /\ \A i \in 1..n : t[i] = s[i]
  BY AppendProperties
<1> HIDE DEF t
<1>2. v[0] = <<>> /\ \A i \in 1..n+1 : v[i] = Less(v, t, i, l, c)
  BY <1>1, UnEscapedIs
<1>3. w[0] = <<>> /\ \A i \in 1..n : w[i] = Less(w, s, i, l, c)
  BY UnEscapedIs
<1> HIDE DEF n, v, w
<1>4. 0 \in T
  <2>1. v[0] = w[0]
    BY <1>2, <1>3, Zenon
  <2>2. \A h \in 0..0 : h = 0
    OBVIOUS
  <2> QED
    BY <2>1, <2>2
<1>5. ASSUME NEW i \in Nat, i \in T PROVE i + 1 \in T
  <2> DEFINE j == i + 1
  <2>1. ASSUME j <= n PROVE v[j] = w[j]
    <3>1. /\ v[j - 1] = w[j - 1] /\ (j > 1 => v[j - 2] = w[j - 2])
          /\ j \in 1..n /\ j \in 1..n+1 /\ (j > 1 => j - 1 \in 1..n)
      BY <1>1, <1>5, <2>1
    <3> HIDE DEF j
    <3>2. t[j] = s[j] /\ (j > 1 => t[j - 1] = s[j - 1])
      BY <1>1, <3>1
    <3>3. Less(v, t, j, l, c) = Less(w, s, j, l, c)
      BY <3>1, <3>2 DEF Less
    <3>4. v[j] = Less(v, t, j, l, c) /\ w[j] = Less(w, s, j, l, c)
      BY <1>2, <1>3, <3>1
    <3> QED
      BY <3>3, <3>4
  <2>2. \A h \in 0..j : h \in 0..i \/ h = j
    OBVIOUS
  <2> HIDE DEF j
  <2>3. \A h \in 0..j : h <= n => v[h] = w[h]
    BY <1>5, <2>1, <2>2
  <2> QED
    BY <2>3 DEF j
<1>6. Nat \subseteq T
  BY <1>4, <1>5, AllNaturals
<1>7. \A i \in 0..n : v[i] = w[i]
  <2>1. \A i \in 0..n : i \in Nat /\ i <= n /\ i \in 0..i
    BY <1>1
  <2> QED
    BY <1>6, <2>1
<1> QED
  BY <1>7 DEF n, t, v, w

\* Escaping one more character, unescaping one more.
LEMMA EscapeFirst == ASSUME NEW c, NEW l PROVE EscapeChar(<<>>, c, l) = <<>>
<1> DEFINE e == <<>>
<1>1. e \in Seq({c}) /\ Len(e) = 0
  OBVIOUS
<1>2. Escaped(e, c, l)[0] = <<>>
  <2> HIDE DEF e
  <2> QED
    BY <1>1, EscapedIs
<1> QED
  BY <1>1, <1>2 DEF EscapeChar

LEMMA EscapeMore ==
    ASSUME NEW C, NEW s \in Seq(C), NEW x \in C, NEW c, NEW l
    PROVE  EscapeChar(Append(s, x), c, l) = More(EscapeChar(s, c, l), x, c, l)
<1> DEFINE t == Append(s, x)
           n == Len(s)
<1>1. t \in Seq(C) /\ Len(t) = n + 1 /\ n \in Nat /\ t[n + 1] = x
  BY AppendProperties
<1>2. n + 1 \in 1..n+1 /\ n + 1 - 1 = n /\ n \in 0..n
  BY <1>1
<1>3. Escaped(t, c, l)[n] = Escaped(s, c, l)[n]
  BY <1>2, EscapedPrefix
<1> HIDE DEF t
<1>4. \A i \in 1..n+1 : Escaped(t, c, l)[i] = More(Escaped(t, c, l)[i - 1], t[i], c, l)
  BY <1>1, EscapedIs
<1>5. Escaped(t, c, l)[n + 1] = More(Escaped(s, c, l)[n], x, c, l)
  BY <1>1, <1>2, <1>3, <1>4
<1>6. EscapeChar(t, c, l) = More(EscapeChar(s, c, l), x, c, l)
  BY <1>1, <1>5 DEF EscapeChar
<1> QED
  BY <1>6 DEF t

LEMMA UnEscapeFirst ==
    ASSUME NEW x, NEW c, NEW l
    PROVE  /\ UnEscapeChar(<<>>, l, c) = <<>>
           /\ UnEscapeChar(Append(<<>>, x), l, c) = Append(<<>>, x)
<1> DEFINE e == <<>>
<1>0. x \in {x} /\ e \in Seq({x}) /\ Len(e) = 0
  OBVIOUS
<1>1. UnEscapeChar(e, l, c) = <<>>
  <2> HIDE DEF e
  <2>1. UnEscaped(e, l, c)[0] = <<>>
    BY <1>0, UnEscapedIs
  <2> QED
    BY <1>0, <2>1 DEF UnEscapeChar
<1>2. UnEscapeChar(Append(e, x), l, c) = Append(e, x)
  <2> DEFINE t == Append(e, x)
             u == UnEscaped(t, l, c)
  <2>1. t \in Seq({x}) /\ Len(t) = 1 /\ t[1] = x
    BY <1>0, AppendProperties
  <2> HIDE DEF t
  <2>2. u[0] = e /\ \A i \in 1..Len(t) : u[i] = Less(u, t, i, l, c)
    BY <2>1, UnEscapedIs
  <2> HIDE DEF u, e
  <2>3. u[1] = Less(u, t, 1, l, c) /\ Less(u, t, 1, l, c) = Append(u[1 - 1], t[1])
    BY <2>1, <2>2 DEF Less
  <2>4. u[1] = Append(e, x)
    BY <2>1, <2>2, <2>3
  <2> QED
    BY <2>1, <2>4 DEF UnEscapeChar, t, u
<1> QED
  BY <1>1, <1>2

LEMMA UnEscapeLast ==
    ASSUME NEW C, NEW s \in Seq(C), NEW y \in C, NEW x \in C, NEW c, NEW l
    PROVE  UnEscapeChar(Append(Append(s, y), x), l, c) =
               IF y = Backslash /\ x = l
               THEN Append(UnEscapeChar(s, l, c), c)
               ELSE Append(UnEscapeChar(Append(s, y), l, c), x)
<1> DEFINE r == Append(s, y)
           t == Append(r, x)
           n == Len(s)
           u == UnEscaped(t, l, c)
<1>1. r \in Seq(C) /\ Len(r) = n + 1 /\ n \in Nat /\ r[n + 1] = y
  BY AppendProperties
<1>2. UnEscaped(r, l, c)[n] = UnEscaped(s, l, c)[n]
  BY <1>1, UnEscapedPrefix
<1> HIDE DEF r
<1>3. t \in Seq(C) /\ Len(t) = n + 2 /\ t[n + 1] = y /\ t[n + 2] = x
  <2>1. /\ t \in Seq(C) /\ Len(t) = Len(r) + 1 /\ t[Len(r) + 1] = x
        /\ \A i \in 1..Len(r) : t[i] = r[i]
    BY <1>1, AppendProperties
  <2> HIDE DEF t
  <2> QED
    BY <1>1, <2>1
<1>4. u[n + 1] = UnEscaped(r, l, c)[n + 1] /\ u[n] = UnEscaped(r, l, c)[n]
  BY <1>1, UnEscapedPrefix
<1> HIDE DEF t
<1>5. \A i \in 1..Len(t) : u[i] = Less(u, t, i, l, c)
  BY <1>3, UnEscapedIs
<1> HIDE DEF u, n
<1>6. Less(u, t, n + 2, l, c) = IF y = Backslash /\ x = l THEN Append(u[n], c)
                                ELSE Append(u[n + 1], x)
  <2> DEFINE at == n + 2
  <2>2. at > 1 /\ t[at - 1] = y /\ t[at] = x /\ u[at - 2] = u[n] /\ u[at - 1] = u[n + 1]
    BY <1>1, <1>3
  <2> HIDE DEF at
  <2>3. Less(u, t, at, l, c) = IF y = Backslash /\ x = l THEN Append(u[n], c)
                               ELSE Append(u[n + 1], x)
    BY <2>2 DEF Less
  <2> QED
    BY <2>3 DEF at
<1>7. u[n + 2] = Less(u, t, n + 2, l, c)
  BY <1>1, <1>3, <1>5
<1>8. UnEscapeChar(t, l, c) = u[n + 2]
  BY <1>3 DEF UnEscapeChar, u
<1>9. UnEscapeChar(r, l, c) = UnEscaped(r, l, c)[n + 1]
  BY <1>1 DEF UnEscapeChar
<1>10. UnEscapeChar(s, l, c) = UnEscaped(s, l, c)[n]
  BY DEF UnEscapeChar, n
<1>11. UnEscapeChar(t, l, c) = IF y = Backslash /\ x = l
                               THEN Append(UnEscapeChar(s, l, c), c)
                               ELSE Append(UnEscapeChar(r, l, c), x)
  BY <1>4, <1>2, <1>8, <1>9, <1>10, <1>6, <1>7
<1> QED
  BY <1>11 DEF r, t

\* Induction that looks two characters back.
LEMMA AllSequencesByTwo ==
    ASSUME NEW C, NEW T, <<>> \in T, \A x \in C : Append(<<>>, x) \in T,
           \A s \in Seq(C), y \in C, x \in C :
              s \in T /\ Append(s, y) \in T => Append(Append(s, y), x) \in T
    PROVE  Seq(C) \subseteq T
<1> DEFINE e == <<>>
           U == {s \in Seq(C) : s \in T /\ \A x \in C : Append(s, x) \in T}
<1>1. e \in Seq(C)
  OBVIOUS
<1>2. e \in U
  BY <1>1
<1>3. ASSUME NEW s \in Seq(C), NEW y \in C, s \in U PROVE Append(s, y) \in U
  <2>1. Append(s, y) \in Seq(C)
    BY AppendProperties
  <2> QED
    BY <1>3, <2>1
<1> HIDE DEF U
<1>4. Seq(C) \subseteq U
  BY <1>2, <1>3, AllSequences
<1> QED
  BY <1>4 DEF U

\* An escaped text has only the characters D, c not among them.
LEMMA EscapedIn ==
    ASSUME NEW C, NEW D, NEW c, NEW l, Backslash \in D, l \in D, C \ {c} \subseteq D
    PROVE  \A s \in Seq(C) : EscapeChar(s, c, l) \in Seq(D)
<1> DEFINE e == <<>>
           T == {s \in Seq(C) : EscapeChar(s, c, l) \in Seq(D)}
<1>1. e \in Seq(C) /\ e \in Seq(D)
  OBVIOUS
<1>2. e \in T
  <2>1. EscapeChar(e, c, l) = e
    BY EscapeFirst, Zenon
  <2> QED
    BY <1>1, <2>1
<1>3. ASSUME NEW s \in Seq(C), NEW x \in C, s \in T PROVE Append(s, x) \in T
  <2> DEFINE a == EscapeChar(s, c, l)
  <2>1. EscapeChar(Append(s, x), c, l) = More(a, x, c, l)
    BY EscapeMore
  <2>2. a \in Seq(D)
    BY <1>3
  <2> HIDE DEF a
  <2>3. More(a, x, c, l) \in Seq(D)
    <3>1. CASE x = c
      <4>1. <<Backslash, l>> \in Seq(D)
        OBVIOUS
      <4> QED
        BY <2>2, <3>1, <4>1, ConcatProperties DEF More
    <3>2. CASE x # c
      <4>1. <<x>> \in Seq(D)
        BY <3>2
      <4> QED
        BY <2>2, <3>2, <4>1, ConcatProperties DEF More
    <3> QED
      BY <3>1, <3>2
  <2>4. Append(s, x) \in Seq(C)
    BY AppendProperties
  <2> QED
    BY <2>1, <2>3, <2>4
<1> HIDE DEF T
<1>4. Seq(C) \subseteq T
  BY <1>2, <1>3, AllSequences
<1> QED
  BY <1>4 DEF T

\* Escaping one more character, as Append.
AppendsOne(C, c, l) ==
    \A s \in Seq(C), x \in C :
       /\ EscapeChar(s, c, l) \in Seq(C) /\ Append(s, x) \in Seq(C)
       /\ x = c => EscapeChar(Append(s, x), c, l) =
                      Append(Append(EscapeChar(s, c, l), Backslash), l)
       /\ x # c => EscapeChar(Append(s, x), c, l) = Append(EscapeChar(s, c, l), x)

LEMMA EscapeOne ==
    ASSUME NEW C, NEW c \in C, NEW l \in C, Backslash \in C
    PROVE  AppendsOne(C, c, l)
<1> USE DEF AppendsOne
<1> TAKE s \in Seq(C), x \in C
<1>0. Append(s, x) \in Seq(C)
  BY AppendProperties
<1> DEFINE a == EscapeChar(s, c, l)
<1>1. EscapeChar(Append(s, x), c, l) = More(a, x, c, l)
  BY EscapeMore
<1>2. a \in Seq(C)
  BY EscapedIn
<1> HIDE DEF a
<1>3. \A b \in C : a \o <<b>> = Append(a, b)
  BY <1>2
<1>4. a \o <<Backslash, l>> = Append(Append(a, Backslash), l)
  BY <1>2
<1>5. x = c => More(a, x, c, l) = Append(Append(a, Backslash), l)
  BY <1>4 DEF More
<1>6. x # c => More(a, x, c, l) = Append(a, x)
  BY <1>3 DEF More
<1> QED
  BY <1>0, <1>1, <1>2, <1>5, <1>6 DEF a

\* Unescaping one more character, other than the letter.
LEMMA UnEscapeOther ==
    ASSUME NEW C, NEW s \in Seq(C), NEW x \in C, NEW c, NEW l, x # l
    PROVE  UnEscapeChar(Append(s, x), l, c) = Append(UnEscapeChar(s, l, c), x)
<1> DEFINE e == <<>>
<1>1. CASE s = e
  <2>1. UnEscapeChar(Append(e, x), l, c) = Append(UnEscapeChar(e, l, c), x)
    BY UnEscapeFirst, Zenon
  <2> QED
    BY <1>1, <2>1, Zenon
<1>2. CASE s # e
  <2>1. PICK r \in Seq(C), y \in C : s = Append(r, y)
    <3>1. Len(s) \in Nat /\ Len(s) # 0
      BY <1>2, EmptySeq, LenProperties
    <3>2. /\ SubSeq(s, 1, Len(s) - 1) \in Seq(C) /\ s[Len(s)] \in C
          /\ s = Append(SubSeq(s, 1, Len(s) - 1), s[Len(s)])
      BY <3>1
    <3> QED
      BY <3>2
  <2>2. UnEscapeChar(Append(Append(r, y), x), l, c) =
            Append(UnEscapeChar(Append(r, y), l, c), x)
    <3>1. ~(y = Backslash /\ x = l)
      OBVIOUS
    <3> QED
      BY <3>1, UnEscapeLast
  <2> QED
    BY <2>1, <2>2, Zenon
<1> QED
  BY <1>1, <1>2

LEMMA UnEscapedIn ==
    ASSUME NEW C, NEW c \in C, NEW l
    PROVE  \A s \in Seq(C) : UnEscapeChar(s, l, c) \in Seq(C)
<1> DEFINE e == <<>>
           T == {s \in Seq(C) : UnEscapeChar(s, l, c) \in Seq(C)}
<1>1. e \in Seq(C)
  OBVIOUS
<1>2. e \in T
  <2>1. UnEscapeChar(e, l, c) = e
    BY UnEscapeFirst, Zenon
  <2> QED
    BY <1>1, <2>1
<1>3. ASSUME NEW x \in C PROVE Append(e, x) \in T
  <2>1. Append(e, x) \in Seq(C)
    BY <1>1, AppendProperties
  <2>2. UnEscapeChar(Append(e, x), l, c) = Append(e, x)
    BY UnEscapeFirst, Zenon
  <2> QED
    BY <2>1, <2>2
<1>4. ASSUME NEW s \in Seq(C), NEW y \in C, NEW x \in C, s \in T, Append(s, y) \in T
      PROVE  Append(Append(s, y), x) \in T
  <2>1. Append(Append(s, y), x) \in Seq(C)
    BY AppendProperties
  <2>2. /\ Append(UnEscapeChar(s, l, c), c) \in Seq(C)
        /\ Append(UnEscapeChar(Append(s, y), l, c), x) \in Seq(C)
    BY <1>4, AppendProperties
  <2>3. UnEscapeChar(Append(Append(s, y), x), l, c) =
            IF y = Backslash /\ x = l THEN Append(UnEscapeChar(s, l, c), c)
            ELSE Append(UnEscapeChar(Append(s, y), l, c), x)
    BY UnEscapeLast
  <2> QED
    BY <2>1, <2>2, <2>3
<1> HIDE DEF T
<1>5. Seq(C) \subseteq T
  BY <1>2, <1>3, <1>4, AllSequencesByTwo
<1> QED
  BY <1>5 DEF T

\* Unescaping undoes escaping, but also unescapes what was there before.
LEMMA UnEscapeEscape ==
    ASSUME NEW C, NEW c \in C, NEW l \in C, Backslash \in C,
           c # Backslash, l # Backslash, c # l
    PROVE  \A s \in Seq(C) :
              UnEscapeChar(EscapeChar(s, c, l), l, c) = UnEscapeChar(s, l, c)
<1> DEFINE e == <<>>
           E(s) == EscapeChar(s, c, l)
           U(s) == UnEscapeChar(s, l, c)
           T == {s \in Seq(C) : U(E(s)) = U(s)}
<1>1. e \in Seq(C) /\ E(e) = e
  <2>1. E(e) = e
    BY EscapeFirst, Zenon
  <2>2. e \in Seq(C)
    OBVIOUS
  <2> QED
    BY <2>1, <2>2
<1>2. \A s \in Seq(C), x \in C :
         /\ E(s) \in Seq(C) /\ Append(s, x) \in Seq(C)
         /\ x = c => E(Append(s, x)) = Append(Append(E(s), Backslash), l)
         /\ x # c => E(Append(s, x)) = Append(E(s), x)
  <2>1. AppendsOne(C, c, l)
    BY EscapeOne
  <2> QED
    BY <2>1 DEF AppendsOne
<1>3. \A s \in Seq(C), x \in C : x # l => U(Append(s, x)) = Append(U(s), x)
  BY UnEscapeOther
<1>4. \A s \in Seq(C), y \in C :
         U(Append(Append(s, y), l)) = IF y = Backslash THEN Append(U(s), c)
                                      ELSE Append(U(Append(s, y)), l)
  BY UnEscapeLast
<1> HIDE DEF E, U
<1>5. ASSUME NEW s \in T, NEW x \in C, x # l PROVE Append(s, x) \in T
  <2>1. CASE x = c
    <3>1. E(Append(s, x)) = Append(Append(E(s), Backslash), l) /\ Append(s, x) \in Seq(C)
      BY <1>2, <2>1
    <3>2. U(E(Append(s, x))) = Append(U(E(s)), c)
      BY <1>2, <1>4, <3>1
    <3>3. U(Append(s, x)) = Append(U(s), c)
      BY <1>3, <1>5, <2>1
    <3> QED
      BY <3>1, <3>2, <3>3
  <2>2. CASE x # c
    <3>1. E(Append(s, x)) = Append(E(s), x) /\ Append(s, x) \in Seq(C)
      BY <1>2, <2>2
    <3>2. U(E(Append(s, x))) = Append(U(E(s)), x)
      BY <1>2, <1>3, <1>5, <3>1
    <3>3. U(Append(s, x)) = Append(U(s), x)
      BY <1>3, <1>5
    <3> QED
      BY <3>1, <3>2, <3>3
  <2> QED
    BY <2>1, <2>2
<1>6. ASSUME NEW s \in T, NEW y \in C, Append(s, y) \in T
      PROVE  Append(Append(s, y), l) \in T
  <2> DEFINE r == Append(s, y)
  <2>1. r \in Seq(C) /\ Append(r, l) \in Seq(C) /\ E(Append(r, l)) = Append(E(r), l)
    BY <1>2
  <2>2. CASE y = Backslash
    <3>1. E(r) = Append(E(s), Backslash) /\ E(s) \in Seq(C)
      BY <1>2, <2>2
    <3>2. U(E(Append(r, l))) = Append(U(E(s)), c)
      BY <1>4, <2>1, <3>1
    <3>3. U(Append(r, l)) = Append(U(s), c)
      BY <1>4, <2>2
    <3> QED
      BY <2>1, <3>2, <3>3
  <2>3. CASE y # Backslash
    <3>1. \E a \in Seq(C), z \in C : z # Backslash /\ E(r) = Append(a, z)
      <4>1. CASE y = c
        <5>1. E(r) = Append(Append(E(s), Backslash), l) /\ Append(E(s), Backslash) \in Seq(C)
          BY <1>2, <4>1
        <5> QED
          BY <5>1
      <4>2. CASE y # c
        BY <1>2, <2>3, <4>2
      <4> QED
        BY <4>1, <4>2
    <3>2. U(E(Append(r, l))) = Append(U(E(r)), l)
      BY <1>4, <2>1, <3>1
    <3>3. U(Append(r, l)) = Append(U(r), l)
      BY <1>4, <2>3
    <3> QED
      BY <1>6, <2>1, <3>2, <3>3
  <2> QED
    BY <2>2, <2>3
<1>7. e \in T
  BY <1>1
<1>8. \A x \in C : Append(e, x) \in T
  <2>1. Append(e, l) \in Seq(C) /\ E(Append(e, l)) = Append(e, l)
    BY <1>1, <1>2
  <2> QED
    BY <1>5, <1>7, <2>1
<1> HIDE DEF T
<1>9. ASSUME NEW s \in Seq(C), NEW y \in C, NEW x \in C, s \in T, Append(s, y) \in T
      PROVE  Append(Append(s, y), x) \in T
  BY <1>5, <1>6, <1>9
<1>10. Seq(C) \subseteq T
  BY <1>7, <1>8, <1>9, AllSequencesByTwo
<1> QED
  BY <1>10 DEF T, E, U

\* Unescaping one character and escaping another can be done in either order.
LEMMA UnEscapeCommutes ==
    ASSUME NEW C, NEW c \in C, NEW l \in C, NEW d \in C, NEW m \in C, Backslash \in C,
           c # d, l # d, l # m, l # Backslash, d # Backslash, m # Backslash
    PROVE  \A s \in Seq(C) : UnEscapeChar(EscapeChar(s, d, m), l, c) =
                              EscapeChar(UnEscapeChar(s, l, c), d, m)
<1> DEFINE e == <<>>
           E(s) == EscapeChar(s, d, m)
           U(s) == UnEscapeChar(s, l, c)
           T == {s \in Seq(C) : U(E(s)) = E(U(s))}
<1>1. e \in Seq(C) /\ E(e) = e
  <2>1. E(e) = e
    BY EscapeFirst, Zenon
  <2>2. e \in Seq(C)
    OBVIOUS
  <2> QED
    BY <2>1, <2>2
<1>2. \A s \in Seq(C), x \in C :
         /\ E(s) \in Seq(C) /\ Append(s, x) \in Seq(C)
         /\ x = d => E(Append(s, x)) = Append(Append(E(s), Backslash), m)
         /\ x # d => E(Append(s, x)) = Append(E(s), x)
  <2>1. AppendsOne(C, d, m)
    BY EscapeOne
  <2> QED
    BY <2>1 DEF AppendsOne
<1>3. \A s \in Seq(C), x \in C : x # l => U(Append(s, x)) = Append(U(s), x)
  BY UnEscapeOther
<1>4. \A s \in Seq(C), y \in C :
         U(Append(Append(s, y), l)) = IF y = Backslash THEN Append(U(s), c)
                                      ELSE Append(U(Append(s, y)), l)
  BY UnEscapeLast
<1>5. \A s \in Seq(C) : U(s) \in Seq(C)
  BY UnEscapedIn
<1>6. U(e) = e
  BY UnEscapeFirst, Zenon
<1>7. U(Append(e, l)) = Append(e, l)
  BY UnEscapeFirst, Zenon
<1> HIDE DEF E, U
<1>8. ASSUME NEW s \in T, NEW x \in C, x # l PROVE Append(s, x) \in T
  <2>1. CASE x = d
    <3>1. E(Append(s, x)) = Append(Append(E(s), Backslash), m) /\ Append(s, x) \in Seq(C)
      BY <1>2, <2>1
    <3>2. U(E(Append(s, x))) = Append(Append(U(E(s)), Backslash), m)
      <4>1. E(s) \in Seq(C) /\ Append(E(s), Backslash) \in Seq(C)
        BY <1>2
      <4>2. U(Append(E(s), Backslash)) = Append(U(E(s)), Backslash)
        BY <1>3, <4>1
      <4>3. U(Append(Append(E(s), Backslash), m)) = Append(U(Append(E(s), Backslash)), m)
        BY <1>3, <4>1
      <4> QED
        BY <3>1, <4>2, <4>3
    <3>3. E(U(Append(s, x))) = Append(Append(E(U(s)), Backslash), m)
      <4>1. U(Append(s, x)) = Append(U(s), x) /\ U(s) \in Seq(C)
        BY <1>3, <1>5, <1>8
      <4>2. E(Append(U(s), x)) = Append(Append(E(U(s)), Backslash), m)
        BY <1>2, <2>1, <4>1
      <4> QED
        BY <4>1, <4>2
    <3> QED
      BY <3>1, <3>2, <3>3
  <2>2. CASE x # d
    <3>1. E(Append(s, x)) = Append(E(s), x) /\ Append(s, x) \in Seq(C)
      BY <1>2, <2>2
    <3>2. U(E(Append(s, x))) = Append(U(E(s)), x)
      BY <1>2, <1>3, <1>8, <3>1
    <3>3. E(U(Append(s, x))) = Append(E(U(s)), x)
      <4>1. U(Append(s, x)) = Append(U(s), x) /\ U(s) \in Seq(C)
        BY <1>3, <1>5, <1>8
      <4>2. E(Append(U(s), x)) = Append(E(U(s)), x)
        BY <1>2, <2>2, <4>1
      <4> QED
        BY <4>1, <4>2
    <3> QED
      BY <3>1, <3>2, <3>3
  <2> QED
    BY <2>1, <2>2
<1>9. ASSUME NEW s \in T, NEW y \in C, Append(s, y) \in T
      PROVE  Append(Append(s, y), l) \in T
  <2> DEFINE r == Append(s, y)
  <2>1. r \in Seq(C) /\ Append(r, l) \in Seq(C) /\ E(Append(r, l)) = Append(E(r), l)
    BY <1>2
  <2>2. CASE y = Backslash
    <3>1. E(r) = Append(E(s), Backslash) /\ E(s) \in Seq(C)
      BY <1>2, <2>2
    <3>2. U(E(Append(r, l))) = Append(U(E(s)), c)
      BY <1>4, <2>1, <3>1
    <3>3. E(U(Append(r, l))) = Append(E(U(s)), c)
      <4>1. U(Append(r, l)) = Append(U(s), c) /\ U(s) \in Seq(C)
        BY <1>4, <1>5, <2>2
      <4>2. E(Append(U(s), c)) = Append(E(U(s)), c)
        BY <1>2, <4>1
      <4> QED
        BY <4>1, <4>2
    <3> QED
      BY <2>1, <3>2, <3>3
  <2>3. CASE y # Backslash
    <3>1. \E a \in Seq(C), z \in C : z # Backslash /\ E(r) = Append(a, z)
      <4>1. CASE y = d
        <5>1. E(r) = Append(Append(E(s), Backslash), m) /\ Append(E(s), Backslash) \in Seq(C)
          BY <1>2, <4>1
        <5> QED
          BY <5>1
      <4>2. CASE y # d
        BY <1>2, <2>3, <4>2
      <4> QED
        BY <4>1, <4>2
    <3>2. U(E(Append(r, l))) = Append(U(E(r)), l)
      BY <1>4, <2>1, <3>1
    <3>3. U(Append(r, l)) = Append(U(r), l)
      BY <1>4, <2>3
    <3>4. E(Append(U(r), l)) = Append(E(U(r)), l)
      BY <1>2, <1>5, <2>1
    <3> QED
      BY <1>9, <2>1, <3>2, <3>3, <3>4
  <2> QED
    BY <2>2, <2>3
<1>10. e \in T
  BY <1>1, <1>6
<1>11. \A x \in C : Append(e, x) \in T
  <2>1. Append(e, l) \in Seq(C) /\ E(Append(e, l)) = Append(e, l)
    BY <1>1, <1>2
  <2> QED
    BY <1>7, <1>8, <1>10, <2>1
<1> HIDE DEF T
<1>12. ASSUME NEW s \in Seq(C), NEW y \in C, NEW x \in C, s \in T, Append(s, y) \in T
       PROVE  Append(Append(s, y), x) \in T
  BY <1>8, <1>9, <1>12
<1>13. Seq(C) \subseteq T
  BY <1>10, <1>11, <1>12, AllSequencesByTwo
<1> QED
  BY <1>13 DEF T, E, U

\* Where unescaping finds nothing it changes nothing; where it finds something the
\* text gets shorter.
LEMMA UnEscapeShortens ==
    ASSUME NEW C, NEW c \in C, NEW l
    PROVE  \A s \in Seq(C) :
              /\ Len(UnEscapeChar(s, l, c)) <= Len(s)
              /\ IF \E i \in 1..Len(s)-1 : s[i] = Backslash /\ s[i+1] = l
                 THEN Len(UnEscapeChar(s, l, c)) < Len(s)
                 ELSE UnEscapeChar(s, l, c) = s
<1> DEFINE e == <<>>
           U(s) == UnEscapeChar(s, l, c)
           Occurs(s) == \E i \in 1..Len(s)-1 : s[i] = Backslash /\ s[i+1] = l
           T == {s \in Seq(C) : /\ Len(U(s)) <= Len(s)
                                /\ Occurs(s) => Len(U(s)) < Len(s)
                                /\ ~Occurs(s) => U(s) = s}
<1>1. e \in Seq(C) /\ U(e) = e /\ ~Occurs(e)
  <2>1. U(e) = e
    BY UnEscapeFirst, Zenon
  <2>2. e \in Seq(C) /\ ~Occurs(e)
    OBVIOUS
  <2> QED
    BY <2>1, <2>2
<1>2. ASSUME NEW x \in C
      PROVE  Append(e, x) \in Seq(C) /\ U(Append(e, x)) = Append(e, x) /\ ~Occurs(Append(e, x))
  <2>1. U(Append(e, x)) = Append(e, x)
    BY UnEscapeFirst, Zenon
  <2>2. Append(e, x) \in Seq(C) /\ Len(Append(e, x)) = 1
    BY <1>1, AppendProperties
  <2> QED
    BY <2>1, <2>2
<1>3. ASSUME NEW s \in Seq(C), NEW y \in C, NEW x \in C
      PROVE  U(Append(Append(s, y), x)) = IF y = Backslash /\ x = l
                                          THEN Append(U(s), c)
                                          ELSE Append(U(Append(s, y)), x)
  BY UnEscapeLast
<1>4. ASSUME NEW s \in Seq(C) PROVE U(s) \in Seq(C) /\ Len(U(s)) \in Nat /\ Len(s) \in Nat
  <2>1. U(s) \in Seq(C)
    BY UnEscapedIn
  <2> QED
    BY <2>1, LenProperties
<1>5. ASSUME NEW s \in Seq(C), NEW y \in C, NEW x \in C
      PROVE  Occurs(Append(Append(s, y), x)) <=>
                Occurs(Append(s, y)) \/ (y = Backslash /\ x = l)
  <2> DEFINE r == Append(s, y)
             t == Append(r, x)
             n == Len(s)
  <2>1. r \in Seq(C) /\ Len(r) = n + 1 /\ n \in Nat /\ r[n + 1] = y
    BY AppendProperties
  <2> HIDE DEF r
  <2>2. Len(t) = n + 2 /\ t[n + 2] = x /\ \A i \in 1..n+1 : t[i] = r[i]
    BY <2>1, AppendProperties
  <2> HIDE DEF t, n
  <2>3. Occurs(r) <=> \E i \in 1..n : r[i] = Backslash /\ r[i+1] = l
    BY <2>1
  <2>4. Occurs(t) <=> \E i \in 1..n+1 : t[i] = Backslash /\ t[i+1] = l
    BY <2>1, <2>2
  <2>5. t[n + 1] = y
    BY <2>1, <2>2
  <2>6. \A i \in 1..n : t[i] = r[i] /\ t[i+1] = r[i+1]
    BY <2>1, <2>2
  <2>7. \A i \in 1..n+1 : i \in 1..n \/ (i = n + 1 /\ i + 1 = n + 2)
    BY <2>1
  <2>8. 1..n \subseteq 1..n+1 /\ n + 1 \in 1..n+1 /\ n + 1 + 1 = n + 2
    BY <2>1
  <2>9. Occurs(t) <=> Occurs(r) \/ (y = Backslash /\ x = l)
    <3> HIDE DEF Occurs
    <3> QED
      BY <2>2, <2>3, <2>4, <2>5, <2>6, <2>7, <2>8
  <2> QED
    BY <2>9 DEF r, t
<1> HIDE DEF U, Occurs
<1>6. ASSUME NEW s \in Seq(C), NEW y \in C, NEW x \in C, s \in T, Append(s, y) \in T
      PROVE  Append(Append(s, y), x) \in T
  <2> DEFINE r == Append(s, y)
             t == Append(r, x)
  <2>1. r \in Seq(C) /\ Len(r) = Len(s) + 1
    BY AppendProperties
  <2>2. t \in Seq(C) /\ Len(t) = Len(r) + 1
    BY <2>1, AppendProperties
  <2>3. /\ Len(U(s)) <= Len(s) /\ Len(U(r)) <= Len(r)
        /\ Occurs(r) => Len(U(r)) < Len(r)
        /\ ~Occurs(r) => U(r) = r
    BY <1>6
  <2>4. Occurs(t) <=> Occurs(r) \/ (y = Backslash /\ x = l)
    BY <1>5
  <2>5. /\ U(s) \in Seq(C) /\ U(r) \in Seq(C)
        /\ Len(U(s)) \in Nat /\ Len(U(r)) \in Nat /\ Len(s) \in Nat
    BY <1>4, <2>1
  <2>6. U(t) = IF y = Backslash /\ x = l THEN Append(U(s), c) ELSE Append(U(r), x)
    BY <1>3
  <2>7. Len(Append(U(s), c)) = Len(U(s)) + 1 /\ Len(Append(U(r), x)) = Len(U(r)) + 1
    BY <2>5, AppendProperties
  <2>8. CASE y = Backslash /\ x = l
    <3>1. U(t) = Append(U(s), c)
      BY <2>6, <2>8
    <3> HIDE DEF r, t
    <3>2. Len(U(t)) = Len(U(s)) + 1
      BY <2>7, <3>1
    <3>3. Occurs(t) /\ Len(U(t)) < Len(t)
      BY <2>1, <2>2, <2>3, <2>4, <2>5, <2>8, <3>2
    <3>4. t \in T
      BY <2>1, <2>2, <2>5, <3>2, <3>3
    <3> QED
      BY <3>4 DEF r, t
  <2>9. CASE ~(y = Backslash /\ x = l)
    <3>1. U(t) = Append(U(r), x)
      BY <2>6, <2>9
    <3>2. ~Occurs(r) => U(t) = t
      BY <2>3, <3>1
    <3> HIDE DEF r, t
    <3>3. Len(U(t)) = Len(U(r)) + 1
      BY <2>7, <3>1
    <3>4. t \in T
      BY <2>1, <2>2, <2>3, <2>4, <2>5, <2>9, <3>2, <3>3
    <3> QED
      BY <3>4 DEF r, t
  <2> QED
    BY <2>8, <2>9
<1>7. e \in T
  BY <1>1
<1>8. \A x \in C : Append(e, x) \in T
  <2> TAKE x \in C
  <2> DEFINE t == Append(e, x)
  <2>1. t \in Seq(C) /\ U(t) = t /\ ~Occurs(t)
    BY <1>2
  <2> HIDE DEF t
  <2>2. t \in T
    BY <1>4, <2>1
  <2> QED
    BY <2>2 DEF t
<1> HIDE DEF T
<1>9. Seq(C) \subseteq T
  BY <1>6, <1>7, <1>8, AllSequencesByTwo
<1> QED
  BY <1>9 DEF T, U, Occurs

\* Escape leaves no line break in a text: what it returns is one line of the socket
\* protocol, whatever the text is.
THEOREM EscapedIsOneLine ==
    ASSUME NEW C, {Backslash, "r", "n"} \subseteq C, NEW s \in Seq(C)
    PROVE  Escape(s) \in Seq(C \ {CR, LF})
<1> DEFINE D == C \ {LF}
           F == C \ {CR, LF}
<1>1. /\ Backslash \in D /\ "n" \in D /\ C \ {LF} \subseteq D
      /\ Backslash \in F /\ "r" \in F /\ D \ {CR} \subseteq F
  BY DEF Backslash, CR, LF
<1> HIDE DEF D, F
<1>2. EscapeLF(s) \in Seq(D)
  BY <1>1, EscapedIn DEF EscapeLF
<1>3. EscapeCR(EscapeLF(s)) \in Seq(F)
  BY <1>1, <1>2, EscapedIn DEF EscapeCR
<1> QED
  BY <1>3 DEF F, Escape

\* UnEscape undoes Escape on the texts that are not ambiguous, of any length and
\* any characters, and on no other: the two passes of each, of which the later sees
\* what the earlier put there, are those of UnEscape alone.
THEOREM UnEscapeUndoesEscape ==
    ASSUME NEW C, {CR, LF, Backslash, "r", "n"} \subseteq C, NEW s \in Seq(C)
    PROVE  UnEscape(Escape(s)) = s <=> ~Ambiguous(s)
<1> DEFINE N(a) == UnEscapeChar(a, "n", LF)
           R(a) == UnEscapeChar(a, "r", CR)
           HasN == \E i \in 1..Len(s)-1 : s[i] = Backslash /\ s[i+1] = "n"
           HasR == \E i \in 1..Len(s)-1 : s[i] = Backslash /\ s[i+1] = "r"
<1>1. /\ CR \in C /\ LF \in C /\ Backslash \in C /\ "r" \in C /\ "n" \in C
      /\ CR # LF /\ CR # Backslash /\ LF # Backslash /\ "n" # LF /\ "n" # CR
      /\ "n" # "r" /\ "n" # Backslash /\ "r" # Backslash /\ CR # "r"
  BY DEF CR, LF, Backslash
<1>2. EscapeLF(s) \in Seq(C) /\ N(s) \in Seq(C)
  BY <1>1, EscapedIn, UnEscapedIn DEF EscapeLF
<1>3. UnEscapeLF(EscapeCR(EscapeLF(s))) = EscapeCR(UnEscapeLF(EscapeLF(s)))
  BY <1>1, <1>2, UnEscapeCommutes DEF EscapeCR, UnEscapeLF
<1>4. UnEscapeLF(EscapeLF(s)) = N(s)
  BY <1>1, UnEscapeEscape DEF EscapeLF, UnEscapeLF
<1>5. UnEscapeCR(EscapeCR(N(s))) = R(N(s))
  BY <1>1, <1>2, UnEscapeEscape DEF EscapeCR, UnEscapeCR
<1>6. UnEscape(Escape(s)) = R(N(s))
  BY <1>3, <1>4, <1>5 DEF Escape, UnEscape
<1>7. IF HasN THEN Len(N(s)) < Len(s) ELSE N(s) = s
  BY <1>1, UnEscapeShortens
<1>8. IF HasR THEN Len(R(s)) < Len(s) ELSE R(s) = s
  BY <1>1, UnEscapeShortens
<1>9. Len(R(N(s))) <= Len(N(s)) /\ R(N(s)) \in Seq(C)
  BY <1>1, <1>2, UnEscapeShortens, UnEscapedIn
<1>10. Ambiguous(s) <=> HasN \/ HasR
  BY DEF Ambiguous
<1>11. Len(s) \in Nat /\ Len(N(s)) \in Nat /\ Len(R(N(s))) \in Nat
  BY <1>2, <1>9, LenProperties
<1> HIDE DEF N, R, HasN, HasR
<1>12. R(N(s)) = s <=> ~(HasN \/ HasR)
  <2>1. CASE HasN
    <3>1. Len(R(N(s))) < Len(s)
      BY <1>7, <1>9, <1>11, <2>1
    <3> QED
      BY <1>11, <2>1, <3>1
  <2>2. CASE ~HasN /\ HasR
    <3>1. N(s) = s /\ Len(R(s)) < Len(s)
      BY <1>7, <1>8, <2>2
    <3> QED
      BY <1>11, <2>2, <3>1
  <2>3. CASE ~HasN /\ ~HasR
    <3>1. N(s) = s /\ R(s) = s
      BY <1>7, <1>8, <2>3
    <3> QED
      BY <2>3, <3>1
  <2> QED
    BY <2>1, <2>2, <2>3
<1> QED
  BY <1>6, <1>10, <1>12

\* The texts that do not come back are the ambiguous ones.
LEMMA MangledAreAmbiguous == Mangled = Ambiguities
<1> DEFINE S == {CR, LF, Backslash, "r", "n"}
<1>1. Texts \subseteq Seq(S)
  <2>1. \A k \in 0..5 : [1..k -> S] \subseteq Seq(S)
    <3> HIDE DEF S
    <3>1. 0..5 \subseteq Nat /\ Seq(S) = UNION {[1..k -> S] : k \in Nat}
      BY SeqDef
    <3> QED
      BY <3>1, Zenon
  <2>2. Texts = UNION {[1..k -> S] : k \in 0..5}
    BY DEF Texts
  <2> HIDE DEF S
  <2> QED
    BY <2>1, <2>2, Zenon
<1> HIDE DEF S
<1>2. \A s \in Texts : UnEscape(Escape(s)) = s <=> ~Ambiguous(s)
  <2> TAKE s \in Texts
  <2>1. s \in Seq(S) /\ {CR, LF, Backslash, "r", "n"} \subseteq S
    BY <1>1 DEF S
  <2> QED
    BY <2>1, UnEscapeUndoesEscape
<1> QED
  BY <1>2 DEF Mangled, Ambiguities

\* A value escaped by its application and returned by a GET is what it was, but for
\* the ambiguous texts (Escape, UnEscape).
THEOREM EscapedValuesReturn == CSpec => []EscapeRoundTrip
<1>1. EscapeRoundTrip
  BY MangledAreAmbiguous DEF EscapeRoundTrip
<1> QED
  BY <1>1, PTL
=============================================================================

---------------------------- MODULE XDickProofs ----------------------------
(***************************************************************************)
(* Theorems about the database under concurrent calls, for every set of    *)
(* goroutines, keys and values, any number of sub-dictionaries and every   *)
(* hash function.                                                          *)
(*                                                                         *)
(* XInv adds to XDick's invariants what each goroutine's pc says of its    *)
(* call.  A goroutine in its critical section is the only one there for    *)
(* its sub-dictionary (LockHeld), so what get saw stays true between the   *)
(* two steps of a Set (LookupStaysTrue), and so add is called only for an  *)
(* absent key, which is what DickOpsProofs needs of its callers.  A call   *)
(* returns because nothing in its section waits, so that every submux is   *)
(* given back and a goroutine that waits for one gets it.                  *)
(*                                                                         *)
(* Which sub-dictionary a call goes to does not depend on the hasher the   *)
(* pool gives it: HasTaken says what a hasher holds after n bytes of a key.*)
(***************************************************************************)
EXTENDS Routing, DickOpsProofs, SequenceTheorems

\* A goroutine has a call while it is in one, and works on the call it has.
CallsMatch ==
    \A c \in Client :
        /\ pc[c] = "idle" => call[c] = NoCall
        /\ pc[c] # "idle" => call[c] \in Calls
        /\ pc[c] \in {"Get", "Del", "Set"} => call[c].op = pc[c]
        /\ pc[c] \in {"overwrite", "add"} => call[c].op = "Set"

Types == /\ submux \in [Sub -> Client \cup {Free}]
         /\ pc \in [Client -> {"idle", "lock"} \cup InCall]
         /\ call \in [Client -> Calls \cup {NoCall}]
         /\ ret \in [Client -> Value \cup {Nil, "ok", "entry not found"}]
         /\ SubDICKs = [i \in Sub |-> SubDICKs[i]]

DicksOK == \A i \in Sub : /\ DickOK(HashOf, SubDICKs[i])
                          /\ \A k \in AllKeys(SubDICKs[i]) : Route[k] = i

XInv == Types /\ CallsMatch /\ DicksOK /\ LockHeld /\ LookupStaysTrue

LEMMA Assumptions ==
    /\ HashOf \in Hash
    /\ Sub = 0..SubCount-1
    /\ \A k \in Key : Route[k] \in Sub
    /\ Absent \notin Value /\ Free \notin Client
BY XDickAssumption DEF Hash, Sub

\* A call has a key, and a Set has a value.
LEMMA CallFields ==
    ASSUME NEW o \in Calls
    PROVE  /\ o.key \in Key
           /\ o.op \in {"Get", "Del", "Set"}
           /\ o.op = "Set" => o.value \in Value
BY DEF Calls

LEMMA NewSubDICKOK ==
    /\ DickOK(HashOf, NewSubDICK)
    /\ AllKeys(NewSubDICK) = {}
<1> DEFINE z == NewDickTable(0)
<1>1. TableOK(HashOf, z) /\ KeysIn(z) = {} /\ z.size = 0 /\ z.used = 0
  BY Assumptions, NewTableOK
<1>2. NewSubDICK = [main |-> z, rehashing |-> z, rehashidx |-> -1]
  BY DEF NewSubDICK
<1>3. NewSubDICK.rehashing = NewDickTable(0)
  BY <1>2
<1> HIDE DEF z
<1>4. CursorOK(NewSubDICK) /\ LoadOK(NewSubDICK)
  BY <1>1, <1>2, <1>3 DEF CursorOK, LoadOK, isRehashing
<1> QED
  BY <1>1, <1>2, <1>4 DEF DickOK, AllKeys

LEMMA XInitInv == XInit => XInv
<1> SUFFICES ASSUME XInit PROVE XInv
  OBVIOUS
<1> USE DEF XInit
<1>1. Types
  BY DEF Types, NewXDICK
<1>2. CallsMatch
  BY DEF CallsMatch
<1>3. DicksOK
  BY NewSubDICKOK DEF DicksOK, NewXDICK
<1>4. LockHeld
  BY Assumptions DEF LockHeld, InCall
<1>5. LookupStaysTrue
  BY DEF LookupStaysTrue
<1> QED
  BY <1>1, <1>2, <1>3, <1>4, <1>5 DEF XInv

----------------------------------------------------------------------------
(* One goroutine at a time in a sub-dictionary *)

LEMMA MutualExclusion ==
    ASSUME XInv, NEW c \in Client, pc[c] \in InCall
    PROVE  /\ call[c] \in Calls
           /\ idx(c) \in Sub
           /\ submux[idx(c)] = c
           /\ \A b \in Client : b # c /\ pc[b] \in InCall => idx(b) # idx(c)
<1>1. call[c] \in Calls
  BY DEF XInv, CallsMatch, InCall
<1>2. idx(c) \in Sub
  BY <1>1, CallFields, Assumptions DEF idx
<1>3. submux[idx(c)] = c
  BY <1>2 DEF XInv, LockHeld
<1>4. ASSUME NEW b \in Client, b # c, pc[b] \in InCall PROVE idx(b) # idx(c)
  BY <1>2, <1>3, <1>4 DEF XInv, LockHeld
<1> QED
  BY <1>1, <1>2, <1>3, <1>4

\* A step inside a critical section: it leaves locks and calls alone, and puts
\* a well-formed sub-dictionary in the place of its own.
LEMMA CriticalStep ==
    ASSUME XInv, NEW c \in Client, NEW from \in InCall, NEW to \in InCall,
           Goes(c, from, to), UNCHANGED <<submux, call>>,
           NEW d, SubDICKs' = [SubDICKs EXCEPT ![idx(c)] = d],
           DickOK(HashOf, d), \A k \in AllKeys(d) : Route[k] = idx(c),
           ret' \in [Client -> Value \cup {Nil, "ok", "entry not found"}],
           to \in {"overwrite", "add"} => call[c].op = "Set",
           to \notin {"Get", "Del", "Set"},
           to = "overwrite" => Finds(HashOf, call[c].key, d),
           to = "add" => ~Finds(HashOf, call[c].key, d)
    PROVE  XInv'
<1>0. pc[c] \in InCall /\ pc[c] = from
  BY DEF Goes
<1>1. /\ call[c] \in Calls /\ idx(c) \in Sub
      /\ \A b \in Client : b # c /\ pc[b] \in InCall => idx(b) # idx(c)
  BY <1>0, MutualExclusion
<1>2. /\ pc' = [pc EXCEPT ![c] = to]
      /\ pc' \in [Client -> {"idle", "lock"} \cup InCall]
      /\ pc'[c] = to
      /\ \A b \in Client : b # c => pc'[b] = pc[b]
  BY DEF Goes, XInv, Types
<1>3. /\ SubDICKs' = [i \in Sub |-> SubDICKs'[i]]
      /\ SubDICKs'[idx(c)] = d
      /\ \A i \in Sub : i # idx(c) => SubDICKs'[i] = SubDICKs[i]
  BY <1>1 DEF XInv, Types
<1>4. Types'
  BY <1>2, <1>3 DEF XInv, Types
<1>5. CallsMatch'
  BY <1>1, <1>2 DEF XInv, CallsMatch, InCall
<1>6. DicksOK'
  BY <1>3 DEF XInv, DicksOK
<1>7. LockHeld'
  <2> SUFFICES ASSUME NEW i \in Sub, NEW b \in Client
               PROVE  submux[i] = b <=> pc'[b] \in InCall /\ idx(b) = i
    BY DEF LockHeld, idx
  <2>1. submux[i] = b <=> pc[b] \in InCall /\ idx(b) = i
    BY DEF XInv, LockHeld
  <2> QED
    BY <2>1, <1>0, <1>2
<1>8. LookupStaysTrue'
  <2> SUFFICES ASSUME NEW b \in Client, pc'[b] \in {"overwrite", "add"}
               PROVE  LET found == Finds(HashOf, call[b].key, SubDICKs'[idx(b)])
                      IN  /\ pc'[b] = "overwrite" => found
                          /\ pc'[b] = "add" => ~found
    BY DEF LookupStaysTrue, idx
  <2>1. CASE b = c
    BY <2>1, <1>2, <1>3
  <2>2. CASE b # c
    <3>1. pc[b] = pc'[b] /\ pc[b] \in InCall
      BY <2>2, <1>2 DEF InCall
    <3>2. idx(b) \in Sub /\ idx(b) # idx(c)
      BY <2>2, <3>1, <1>1, MutualExclusion
    <3>3. SubDICKs'[idx(b)] = SubDICKs[idx(b)]
      BY <3>2, <1>3
    <3> QED
      BY <3>1, <3>3 DEF XInv, LookupStaysTrue
  <2> QED
    BY <2>1, <2>2
<1> QED
  BY <1>4, <1>5, <1>6, <1>7, <1>8 DEF XInv

----------------------------------------------------------------------------
(* Each action preserves XInv *)

LEMMA EnterInv == ASSUME XInv, NEW c \in Client, NEW o \in Calls, Enter(c, o)
                  PROVE  XInv'
<1>0. pc[c] = "idle" /\ pc'[c] = "lock" /\ call'[c] = o
  BY DEF Enter, Goes, XInv, Types
<1>1. \A b \in Client : b # c => pc'[b] = pc[b] /\ call'[b] = call[b]
  BY DEF Enter, Goes, XInv, Types
<1>2. UNCHANGED <<SubDICKs, submux, ret>>
  BY DEF Enter
<1>3. Types'
  BY <1>2 DEF XInv, Types, Enter, Goes
<1>4. CallsMatch'
  BY <1>0, <1>1 DEF XInv, CallsMatch
<1>5. DicksOK'
  BY <1>2 DEF XInv, DicksOK
<1>6. \A b \in Client : b # c => idx(b)' = idx(b)
  BY <1>1 DEF idx
<1>7. LockHeld'
  <2> SUFFICES ASSUME NEW i \in Sub, NEW b \in Client
               PROVE  submux[i] = b <=> pc'[b] \in InCall /\ idx(b)' = i
    BY <1>2 DEF LockHeld
  <2>1. submux[i] = b <=> pc[b] \in InCall /\ idx(b) = i
    BY DEF XInv, LockHeld
  <2> QED
    BY <2>1, <1>0, <1>1, <1>6 DEF InCall
<1>8. LookupStaysTrue'
  BY <1>0, <1>1, <1>2, <1>6 DEF XInv, LookupStaysTrue
<1> QED
  BY <1>3, <1>4, <1>5, <1>7, <1>8 DEF XInv

LEMMA LockInv == ASSUME XInv, NEW c \in Client, Lock(c) PROVE XInv'
<1>0. /\ pc[c] = "lock" /\ pc'[c] = call[c].op
      /\ submux[idx(c)] = Free
      /\ submux' = [submux EXCEPT ![idx(c)] = c]
      /\ UNCHANGED <<SubDICKs, call, ret>>
  BY DEF Lock, Goes, XInv, Types
<1>1. /\ call[c] \in Calls /\ call[c].op \in {"Get", "Del", "Set"}
      /\ idx(c) \in Sub
  BY <1>0, CallFields, Assumptions DEF XInv, CallsMatch, idx
<1>2. \A b \in Client : b # c => pc'[b] = pc[b]
  BY DEF Lock, Goes, XInv, Types
<1>3. /\ submux'[idx(c)] = c
      /\ \A i \in Sub : i # idx(c) => submux'[i] = submux[i]
  BY <1>0, <1>1 DEF XInv, Types
<1>4. Types'
  <2>1. pc' \in [Client -> {"idle", "lock"} \cup InCall]
    BY <1>1 DEF XInv, Types, Lock, Goes, InCall
  <2> QED
    BY <1>0, <2>1 DEF XInv, Types
<1>5. CallsMatch'
  BY <1>0, <1>1, <1>2 DEF XInv, CallsMatch
<1>6. DicksOK'
  BY <1>0 DEF XInv, DicksOK
<1>7. LockHeld'
  <2> SUFFICES ASSUME NEW i \in Sub, NEW b \in Client
               PROVE  submux'[i] = b <=> pc'[b] \in InCall /\ idx(b) = i
    BY <1>0 DEF LockHeld, idx
  <2>1. submux[i] = b <=> pc[b] \in InCall /\ idx(b) = i
    BY DEF XInv, LockHeld
  <2>2. submux[idx(c)] # b
    BY <1>0, Assumptions
  <2>3. pc[c] \notin InCall /\ pc'[c] \in InCall
    BY <1>0, <1>1 DEF InCall
  <2> QED
    BY <2>1, <2>2, <2>3, <1>2, <1>3
<1>8. LookupStaysTrue'
  BY <1>0, <1>1, <1>2 DEF XInv, LookupStaysTrue, idx
<1> QED
  BY <1>4, <1>5, <1>6, <1>7, <1>8 DEF XInv

LEMMA UnlockInv == ASSUME XInv, NEW c \in Client, Unlock(c) PROVE XInv'
<1>0. /\ pc[c] = "unlock" /\ pc'[c] = "idle" /\ call'[c] = NoCall
      /\ submux' = [submux EXCEPT ![idx(c)] = Free]
      /\ UNCHANGED SubDICKs
  BY DEF Unlock, Goes, XInv, Types
<1>1. /\ idx(c) \in Sub /\ submux[idx(c)] = c
      /\ \A b \in Client : b # c /\ pc[b] \in InCall => idx(b) # idx(c)
  BY <1>0, MutualExclusion DEF InCall
<1>2. \A b \in Client : b # c => pc'[b] = pc[b] /\ call'[b] = call[b]
  BY DEF Unlock, Goes, XInv, Types
<1>3. /\ submux'[idx(c)] = Free
      /\ \A i \in Sub : i # idx(c) => submux'[i] = submux[i]
  BY <1>0, <1>1 DEF XInv, Types
<1>4. Types'
  BY <1>0 DEF XInv, Types, Unlock, Goes
<1>5. CallsMatch'
  BY <1>0, <1>2 DEF XInv, CallsMatch
<1>6. DicksOK'
  BY <1>0 DEF XInv, DicksOK
<1>7. \A b \in Client : b # c => idx(b)' = idx(b)
  BY <1>2 DEF idx
<1>8. LockHeld'
  <2> SUFFICES ASSUME NEW i \in Sub, NEW b \in Client
               PROVE  submux'[i] = b <=> pc'[b] \in InCall /\ idx(b)' = i
    BY DEF LockHeld
  <2>1. submux[i] = b <=> pc[b] \in InCall /\ idx(b) = i
    BY DEF XInv, LockHeld
  <2>2. submux'[idx(c)] # b
    BY <1>3, Assumptions
  <2>3. pc[c] \in InCall /\ pc'[c] \notin InCall
    BY <1>0 DEF InCall
  <2>4. CASE b = c
    <3>1. i # idx(c) => submux'[i] # b
      BY <2>1, <2>4, <1>3
    <3> QED
      BY <2>2, <2>3, <2>4, <3>1
  <2>5. CASE b # c
    BY <2>1, <2>2, <2>5, <1>1, <1>2, <1>3, <1>7
  <2> QED
    BY <2>4, <2>5
<1>9. LookupStaysTrue'
  BY <1>0, <1>2, <1>7 DEF XInv, LookupStaysTrue
<1> QED
  BY <1>4, <1>5, <1>6, <1>8, <1>9 DEF XInv

\* What a goroutine in its critical section finds: a well-formed dictionary
\* with keys of its own only, and a legal call.
LEMMA InSection ==
    ASSUME XInv, NEW c \in Client, pc[c] \in InCall
    PROVE  LET d == SubDICKs[idx(c)] IN
           /\ DickOK(HashOf, d)
           /\ \A k \in AllKeys(d) : Route[k] = idx(c)
           /\ call[c].key \in Key /\ Route[call[c].key] = idx(c)
           /\ call[c].op = "Set" => call[c].value \in Value
<1>1. call[c] \in Calls /\ idx(c) \in Sub
  BY MutualExclusion
<1>2. call[c].key \in Key /\ (call[c].op = "Set" => call[c].value \in Value)
  BY <1>1, CallFields
<1> QED
  BY <1>1, <1>2 DEF XInv, DicksOK, idx

\* Only the key of the call can be new in the dictionary.
LEMMA KeysRouted ==
    ASSUME NEW d, NEW x, NEW k, NEW i, Route[k] = i,
           \A j \in AllKeys(d) : Route[j] = i,
           \A e \in AllEntries(x) : e \in AllEntries(d) \/ e.key = k
    PROVE  \A j \in AllKeys(x) : Route[j] = i
BY KeysOfEntries

LEMMA GetReturns ==
    ASSUME NEW d, DickOK(HashOf, d), NEW k \in Key, Finds(HashOf, k, d)
    PROVE  /\ get(HashOf, k, d) \in Value
           /\ Contents(d)[k] = get(HashOf, k, d)
           /\ Contents(d)[k] # Absent
<1>0. HashOf \in Hash /\ Absent \notin Value
  BY Assumptions
<1>1. PICK e \in AllEntries(d) : e.key = k /\ e.value = get(HashOf, k, d)
  BY <1>0, GetOK
<1>2. e \in Entry /\ Contents(d)[e.key] = e.value
  BY <1>0, ContentsValue
<1>3. e.value \in Value
  BY <1>2 DEF Entry
<1> QED
  BY <1>0, <1>1, <1>2, <1>3

LEMMA GetInv == ASSUME XInv, NEW c \in Client, DoGet(c) PROVE XInv'
<1> DEFINE d == SubDICKs[idx(c)]
           k == call[c].key
           r == IF Finds(HashOf, k, d) THEN get(HashOf, k, d) ELSE Nil
<1>1. /\ Goes(c, "Get", "unlock") /\ pc[c] = "Get"
      /\ SubDICKs' = [SubDICKs EXCEPT ![idx(c)] = d]
      /\ ret' = [ret EXCEPT ![c] = r]
      /\ UNCHANGED <<submux, call>>
  BY DEF DoGet, Does, Goes
<1>2. /\ DickOK(HashOf, d) /\ k \in Key
      /\ \A j \in AllKeys(d) : Route[j] = idx(c)
  BY <1>1, InSection DEF InCall
<1>3. r \in Value \cup {Nil}
  BY <1>2, GetReturns
<1>4. ret' \in [Client -> Value \cup {Nil, "ok", "entry not found"}]
  BY <1>1, <1>3 DEF XInv, Types
<1>5. {"Get", "unlock"} \subseteq InCall
  BY DEF InCall
<1> HIDE DEF d
<1> QED
  BY <1>1, <1>2, <1>4, <1>5, CriticalStep

LEMMA DelInv == ASSUME XInv, NEW c \in Client, DoDel(c) PROVE XInv'
<1> DEFINE d == SubDICKs[idx(c)]
           k == call[c].key
           x == del(HashOf, k, d)
<1>1. /\ Goes(c, "Del", "unlock") /\ pc[c] = "Del"
      /\ SubDICKs' = [SubDICKs EXCEPT ![idx(c)] = x]
      /\ ret' = [ret EXCEPT ![c] = IF delFinds(HashOf, k, d) THEN "ok"
                                   ELSE "entry not found"]
      /\ UNCHANGED <<submux, call>>
  BY DEF DoDel, Does, Goes
<1>2. /\ DickOK(HashOf, d) /\ k \in Key /\ Route[k] = idx(c)
      /\ \A j \in AllKeys(d) : Route[j] = idx(c)
  BY <1>1, InSection DEF InCall
<1>3. DickOK(HashOf, x) /\ AllEntries(x) = {e \in AllEntries(d) : e.key # k}
  BY <1>2, Assumptions, DelOK
<1>4. \A j \in AllKeys(x) : Route[j] = idx(c)
  <2>1. \A e \in AllEntries(x) : e \in AllEntries(d) \/ e.key = k
    BY <1>3
  <2> HIDE DEF d, k, x
  <2> QED
    BY <1>2, <2>1, KeysRouted
<1>5. ret' \in [Client -> Value \cup {Nil, "ok", "entry not found"}]
  BY <1>1 DEF XInv, Types
<1>6. {"Del", "unlock"} \subseteq InCall
  BY DEF InCall
<1> HIDE DEF x
<1> QED
  BY <1>1, <1>3, <1>4, <1>5, <1>6, CriticalStep

LEMMA LookupInv == ASSUME XInv, NEW c \in Client, SetLookup(c) PROVE XInv'
<1> DEFINE d == SubDICKs[idx(c)]
           k == call[c].key
           to == IF Finds(HashOf, k, d) THEN "overwrite" ELSE "add"
<1>1. /\ Goes(c, "Set", to) /\ pc[c] = "Set"
      /\ UNCHANGED <<SubDICKs, submux, call, ret>>
  BY DEF SetLookup, Goes
<1>2. DickOK(HashOf, d) /\ \A j \in AllKeys(d) : Route[j] = idx(c)
  BY <1>1, InSection DEF InCall
<1>3. idx(c) \in Sub
  BY <1>1, MutualExclusion DEF InCall
<1>4. SubDICKs' = [SubDICKs EXCEPT ![idx(c)] = d]
  BY <1>1, <1>3 DEF XInv, Types
<1>5. call[c].op = "Set"
  BY <1>1 DEF XInv, CallsMatch
<1>6. ret' \in [Client -> Value \cup {Nil, "ok", "entry not found"}]
  BY <1>1 DEF XInv, Types
<1>7. "Set" \in InCall /\ to \in InCall /\ to \notin {"Get", "Del", "Set"}
  BY DEF InCall
<1>8. /\ to = "overwrite" => Finds(HashOf, k, d)
      /\ to = "add" => ~Finds(HashOf, k, d)
  OBVIOUS
<1> HIDE DEF d, to
<1> QED
  BY <1>1, <1>2, <1>4, <1>5, <1>6, <1>7, <1>8, CriticalStep

LEMMA SetOverwriteInv ==
    ASSUME XInv, NEW c \in Client, SetOverwrite(c) PROVE XInv'
<1> DEFINE d == SubDICKs[idx(c)]
           k == call[c].key
           v == call[c].value
           x == overwrite(HashOf, k, v, d)
<1>1. /\ Goes(c, "overwrite", "unlock") /\ pc[c] = "overwrite"
      /\ SubDICKs' = [SubDICKs EXCEPT ![idx(c)] = x]
      /\ ret' = [ret EXCEPT ![c] = "ok"]
      /\ UNCHANGED <<submux, call>>
  BY DEF SetOverwrite, Does, Goes
<1>2. /\ DickOK(HashOf, d) /\ k \in Key /\ v \in Value
      /\ \A j \in AllKeys(d) : Route[j] = idx(c)
      /\ Finds(HashOf, k, d)
  BY <1>1, InSection DEF InCall, XInv, CallsMatch, LookupStaysTrue
<1>3. DickOK(HashOf, x) /\ AllKeys(x) = AllKeys(d)
  BY <1>2, Assumptions, OverwriteOK
<1>4. ret' \in [Client -> Value \cup {Nil, "ok", "entry not found"}]
  BY <1>1 DEF XInv, Types
<1>5. {"overwrite", "unlock"} \subseteq InCall
  BY DEF InCall
<1> HIDE DEF x
<1> QED
  BY <1>1, <1>2, <1>3, <1>4, <1>5, CriticalStep

LEMMA SetAddInv == ASSUME XInv, NEW c \in Client, SetAdd(c) PROVE XInv'
<1> DEFINE d == SubDICKs[idx(c)]
           k == call[c].key
           v == call[c].value
           x == add(HashOf, k, v, d)
<1>1. /\ Goes(c, "add", "unlock") /\ pc[c] = "add"
      /\ SubDICKs' = [SubDICKs EXCEPT ![idx(c)] = x]
      /\ ret' = [ret EXCEPT ![c] = IF addFails(HashOf, k, d)
                                   THEN "unexpectedly found" ELSE "ok"]
      /\ UNCHANGED <<submux, call>>
  BY DEF SetAdd, Does, Goes
<1>2. /\ DickOK(HashOf, d) /\ k \in Key /\ v \in Value
      /\ Route[k] = idx(c)
      /\ \A j \in AllKeys(d) : Route[j] = idx(c)
      /\ ~Finds(HashOf, k, d)
  BY <1>1, InSection DEF InCall, XInv, CallsMatch, LookupStaysTrue
<1>3. /\ ~addFails(HashOf, k, d)
      /\ DickOK(HashOf, x)
      /\ AllEntries(x) = AllEntries(d) \cup {[key |-> k, value |-> v]}
  BY <1>2, Assumptions, AddOK
<1>4. \A j \in AllKeys(x) : Route[j] = idx(c)
  <2>1. \A e \in AllEntries(x) : e \in AllEntries(d) \/ e.key = k
    BY <1>3
  <2> HIDE DEF d, k, x
  <2> QED
    BY <1>2, <2>1, KeysRouted
<1>5. ret' \in [Client -> Value \cup {Nil, "ok", "entry not found"}]
  BY <1>1, <1>3 DEF XInv, Types
<1>6. {"add", "unlock"} \subseteq InCall
  BY DEF InCall
<1> HIDE DEF x
<1> QED
  BY <1>1, <1>3, <1>4, <1>5, <1>6, CriticalStep

LEMMA XStepInv == XInv /\ [XNext]_xvars => XInv'
<1> SUFFICES ASSUME XInv, [XNext]_xvars PROVE XInv'
  OBVIOUS
<1>1. ASSUME NEW c \in Client, NEW o \in Calls, Enter(c, o) PROVE XInv'
  BY <1>1, EnterInv
<1>2. ASSUME NEW c \in Client, Lock(c) PROVE XInv'
  BY <1>2, LockInv
<1>3. ASSUME NEW c \in Client, Working(c) PROVE XInv'
  BY <1>3, GetInv, DelInv, LookupInv, SetOverwriteInv, SetAddInv, UnlockInv
     DEF Working
<1>4. CASE UNCHANGED xvars
  BY <1>4 DEF xvars, XInv, Types, CallsMatch, DicksOK, LockHeld,
              LookupStaysTrue, idx
<1> QED
  BY <1>1, <1>2, <1>3, <1>4 DEF XNext

LEMMA XInvImplies == XInv => XTypeOK /\ SubDICKsOK
<1> SUFFICES ASSUME XInv PROVE XTypeOK /\ SubDICKsOK
  OBVIOUS
<1>1. \A i \in Sub : DickTypeOK(SubDICKs[i])
  BY DEF XInv, DicksOK, DickOK, TableOK, DickTypeOK
<1>2. XTypeOK
  BY <1>1 DEF XInv, Types, XTypeOK
<1>3. SubDICKsOK
  BY DEF XInv, DicksOK, DickOK, TableOK, SubDICKsOK, AllKeys
<1> QED
  BY <1>2, <1>3

\* XInv holds in every state the concurrent calls can reach.
THEOREM XInvariance == XSpec => []XInv
<1>1. XInit => XInv
  BY XInitInv
<1>2. XInv /\ [XNext]_xvars => XInv'
  BY XStepInv
<1> QED
  BY <1>1, <1>2, PTL DEF XSpec

\* Types hold, and no Set ever returns the error add has for a key it finds.
THEOREM XTypes == XSpec => []XTypeOK
BY XInvariance, XInvImplies, PTL

\* Any number of goroutines: each sub-dictionary has one at a time, which acts
\* on what is still so, and leaves it well-formed.
THEOREM XSafe == XSpec => [](LockHeld /\ LookupStaysTrue /\ SubDICKsOK)
<1>1. XInv => LockHeld /\ LookupStaysTrue /\ SubDICKsOK
  BY XInvImplies DEF XInv
<1> QED
  BY <1>1, XInvariance, PTL

\* Its parts: a goroutine between Lock and Unlock holds the submux of its key's
\* sub-dictionary, and nobody else does (Get, Set, Del),
THEOREM SubmuxHeld == XSpec => []LockHeld
BY XSafe, PTL

\* and every sub-dictionary is well-formed whichever calls run on the others.
THEOREM SubDICKsWellFormed == XSpec => []SubDICKsOK
BY XSafe, PTL

----------------------------------------------------------------------------
(* Linearizability: the safety part *)

kvBar    == [k \in Key |-> Contents(SubDICKs[Route[k]])[k]]
phaseBar == [c \in Client |-> Phase(pc[c])]

\* A step that changes one binding of its dictionary changes that binding of
\* the one map, and no other.
LEMMA StoreStep ==
    ASSUME XInv, NEW c \in Client, pc[c] \in InCall, NEW x, NEW v,
           SubDICKs' = [SubDICKs EXCEPT ![idx(c)] = x],
           Contents(x) = [Contents(SubDICKs[idx(c)]) EXCEPT ![call[c].key] = v]
    PROVE  kvBar' = [kvBar EXCEPT ![call[c].key] = v]
<1> DEFINE k == call[c].key
           d == SubDICKs[idx(c)]
<1>1. k \in Key /\ Route[k] = idx(c) /\ idx(c) \in Sub
  BY InSection, MutualExclusion
<1>2. /\ SubDICKs'[idx(c)] = x
      /\ \A i \in Sub : i # idx(c) => SubDICKs'[i] = SubDICKs[i]
  BY <1>1 DEF XInv, Types
<1>3. \A j \in Key : Contents(x)[j] = IF j = k THEN v ELSE Contents(d)[j]
  BY DEF Contents
<1> HIDE DEF k
<1>4. ASSUME NEW j \in Key
      PROVE  Contents(SubDICKs'[Route[j]])[j] = IF j = k THEN v ELSE kvBar[j]
  <2>1. kvBar[j] = Contents(SubDICKs[Route[j]])[j]
    BY DEF kvBar
  <2>2. CASE Route[j] = idx(c)
    BY <1>2, <1>3, <2>1, <2>2
  <2>3. CASE Route[j] # idx(c)
    <3>1. j # k /\ SubDICKs'[Route[j]] = SubDICKs[Route[j]]
      BY <1>1, <1>2, <2>3, Assumptions
    <3> QED
      BY <2>1, <3>1
  <2> QED
    BY <2>2, <2>3
<1>5. kvBar' = [j \in Key |-> Contents(SubDICKs'[Route[j]])[j]]
  BY DEF kvBar
<1>6. [kvBar EXCEPT ![k] = v] = [j \in Key |-> IF j = k THEN v ELSE kvBar[j]]
  BY DEF kvBar
<1>7. kvBar' = [kvBar EXCEPT ![k] = v]
  BY <1>4, <1>5, <1>6
<1> QED
  BY <1>7 DEF k

LEMMA PhaseStep ==
    ASSUME XInv, NEW c \in Client, NEW from, NEW to, Goes(c, from, to)
    PROVE  /\ phaseBar[c] = Phase(from)
           /\ phaseBar' = [phaseBar EXCEPT ![c] = Phase(to)]
<1>1. pc[c] = from /\ pc' = [pc EXCEPT ![c] = to] /\ DOMAIN pc = Client
  BY DEF Goes, XInv, Types
<1>2. \A b \in Client : Phase(pc'[b]) = IF b = c THEN Phase(to) ELSE Phase(pc[b])
  BY <1>1
<1>3. phaseBar' = [b \in Client |-> Phase(pc'[b])]
  BY DEF phaseBar
<1> QED
  BY <1>1, <1>2, <1>3 DEF phaseBar

LEMMA Phases ==
    /\ Phase("idle") = "idle" /\ Phase("unlock") = "done"
    /\ \A p \in {"lock", "Get", "Del", "Set", "overwrite", "add"} :
          Phase(p) = "pending"
BY DEF Phase

\* A step that ends the work of a call, with the map and the answer the call
\* promises, is the instant the call takes effect.
LEMMA EffectStep ==
    ASSUME XInv, NEW c \in Client,
           NEW from \in {"Get", "Del", "overwrite", "add"},
           Goes(c, from, "unlock"),
           kvBar' = Service!After(kvBar, call[c]),
           ret' = [ret EXCEPT ![c] = Service!Result(kvBar, call[c])],
           UNCHANGED call
    PROVE  Service!TakeEffect(c)
<1>1. /\ phaseBar[c] = "pending"
      /\ phaseBar' = [phaseBar EXCEPT ![c] = "done"]
  BY PhaseStep, Phases
<1> QED
  BY <1>1 DEF Service!TakeEffect, kvBar, phaseBar

LEMMA GetEffect == ASSUME XInv, NEW c \in Client, DoGet(c)
                   PROVE  Service!TakeEffect(c)
<1> DEFINE d == SubDICKs[idx(c)]
           k == call[c].key
<1>1. /\ Goes(c, "Get", "unlock") /\ pc[c] = "Get"
      /\ SubDICKs' = [SubDICKs EXCEPT ![idx(c)] = d]
      /\ ret' = [ret EXCEPT ![c] = IF Finds(HashOf, k, d)
                                   THEN get(HashOf, k, d) ELSE Nil]
      /\ UNCHANGED call
  BY DEF DoGet, Does, Goes
<1>2. /\ DickOK(HashOf, d) /\ k \in Key /\ Route[k] = idx(c)
      /\ call[c].op = "Get"
  BY <1>1, InSection DEF InCall, XInv, CallsMatch
<1>3. SubDICKs' = SubDICKs
  BY <1>1, <1>2, Assumptions DEF XInv, Types
<1>4. kvBar' = kvBar
  BY <1>3 DEF kvBar
<1>5. kvBar[k] = Contents(d)[k]
  BY <1>2 DEF kvBar
<1>6. Finds(HashOf, k, d) => kvBar[k] # Absent /\ kvBar[k] = get(HashOf, k, d)
  BY <1>2, <1>5, GetReturns
<1>7. ~Finds(HashOf, k, d) => kvBar[k] = Absent
  BY <1>2, <1>5, Assumptions, SearchOK, ContentsValue
<1>8. Service!After(kvBar, call[c]) = kvBar
  BY <1>2 DEF Service!After
<1>9. Service!Result(kvBar, call[c])
        = IF Finds(HashOf, k, d) THEN get(HashOf, k, d) ELSE Nil
  BY <1>2, <1>6, <1>7 DEF Service!Result
<1> QED
  BY <1>1, <1>4, <1>8, <1>9, EffectStep

LEMMA DelEffect == ASSUME XInv, NEW c \in Client, DoDel(c)
                   PROVE  Service!TakeEffect(c)
<1> DEFINE d == SubDICKs[idx(c)]
           k == call[c].key
           x == del(HashOf, k, d)
<1>1. /\ Goes(c, "Del", "unlock") /\ pc[c] = "Del"
      /\ SubDICKs' = [SubDICKs EXCEPT ![idx(c)] = x]
      /\ ret' = [ret EXCEPT ![c] = IF delFinds(HashOf, k, d) THEN "ok"
                                   ELSE "entry not found"]
      /\ UNCHANGED call
  BY DEF DoDel, Does, Goes
<1>2. /\ DickOK(HashOf, d) /\ k \in Key /\ Route[k] = idx(c)
      /\ call[c].op = "Del"
  BY <1>1, InSection DEF InCall, XInv, CallsMatch
<1>3. /\ delFinds(HashOf, k, d) <=> k \in AllKeys(d)
      /\ DickOK(HashOf, x)
      /\ AllEntries(x) = {e \in AllEntries(d) : e.key # k}
  BY <1>2, Assumptions, DelOK
<1>4. Contents(x) = [Contents(d) EXCEPT ![k] = Absent]
  BY <1>2, <1>3, Assumptions, ContentsRemove
<1>5. kvBar' = [kvBar EXCEPT ![k] = Absent]
  BY <1>1, <1>4, StoreStep DEF InCall
<1>6. kvBar[k] = Contents(d)[k]
  BY <1>2 DEF kvBar
<1>7. delFinds(HashOf, k, d) <=> kvBar[k] # Absent
  BY <1>2, <1>3, <1>6, Assumptions, ContentsValue
<1>8. Service!After(kvBar, call[c]) = [kvBar EXCEPT ![k] = Absent]
  BY <1>2 DEF Service!After
<1>9. Service!Result(kvBar, call[c])
        = IF delFinds(HashOf, k, d) THEN "ok" ELSE "entry not found"
  BY <1>2, <1>7 DEF Service!Result
<1> QED
  BY <1>1, <1>5, <1>8, <1>9, EffectStep

LEMMA OverwriteEffect == ASSUME XInv, NEW c \in Client, SetOverwrite(c)
                         PROVE  Service!TakeEffect(c)
<1> DEFINE d == SubDICKs[idx(c)]
           k == call[c].key
           v == call[c].value
           x == overwrite(HashOf, k, v, d)
<1>1. /\ Goes(c, "overwrite", "unlock") /\ pc[c] = "overwrite"
      /\ SubDICKs' = [SubDICKs EXCEPT ![idx(c)] = x]
      /\ ret' = [ret EXCEPT ![c] = "ok"]
      /\ UNCHANGED call
  BY DEF SetOverwrite, Does, Goes
<1>2. /\ DickOK(HashOf, d) /\ k \in Key /\ v \in Value
      /\ Finds(HashOf, k, d) /\ call[c].op = "Set"
  BY <1>1, InSection DEF InCall, XInv, CallsMatch, LookupStaysTrue
<1>3. /\ DickOK(HashOf, x)
      /\ AllEntries(x) = {e \in AllEntries(d) : e.key # k}
                            \cup {[key |-> k, value |-> v]}
  BY <1>2, Assumptions, OverwriteOK
<1>4. Contents(x) = [Contents(d) EXCEPT ![k] = v]
  BY <1>2, <1>3, Assumptions, ContentsPut
<1>5. kvBar' = [kvBar EXCEPT ![k] = v]
  BY <1>1, <1>4, StoreStep DEF InCall
<1>6. Service!After(kvBar, call[c]) = [kvBar EXCEPT ![k] = v]
  BY <1>2 DEF Service!After
<1>7. Service!Result(kvBar, call[c]) = "ok"
  BY <1>2 DEF Service!Result
<1> QED
  BY <1>1, <1>5, <1>6, <1>7, EffectStep

LEMMA AddEffect == ASSUME XInv, NEW c \in Client, SetAdd(c)
                   PROVE  Service!TakeEffect(c)
<1> DEFINE d == SubDICKs[idx(c)]
           k == call[c].key
           v == call[c].value
           x == add(HashOf, k, v, d)
<1>1. /\ Goes(c, "add", "unlock") /\ pc[c] = "add"
      /\ SubDICKs' = [SubDICKs EXCEPT ![idx(c)] = x]
      /\ ret' = [ret EXCEPT ![c] = IF addFails(HashOf, k, d)
                                   THEN "unexpectedly found" ELSE "ok"]
      /\ UNCHANGED call
  BY DEF SetAdd, Does, Goes
<1>2. /\ DickOK(HashOf, d) /\ k \in Key /\ v \in Value
      /\ ~Finds(HashOf, k, d) /\ call[c].op = "Set"
  BY <1>1, InSection DEF InCall, XInv, CallsMatch, LookupStaysTrue
<1>3. /\ ~addFails(HashOf, k, d)
      /\ DickOK(HashOf, x)
      /\ AllEntries(x) = AllEntries(d) \cup {[key |-> k, value |-> v]}
  BY <1>2, Assumptions, AddOK
<1>4. AllEntries(d) = {e \in AllEntries(d) : e.key # k}
  <2>1. k \notin AllKeys(d)
    BY <1>2, Assumptions, SearchOK
  <2> HIDE DEF d, k
  <2> QED
    BY <2>1, KeysOfEntries
<1>5. Contents(x) = [Contents(d) EXCEPT ![k] = v]
  BY <1>2, <1>3, <1>4, Assumptions, ContentsPut
<1>6. kvBar' = [kvBar EXCEPT ![k] = v]
  BY <1>1, <1>5, StoreStep DEF InCall
<1>7. Service!After(kvBar, call[c]) = [kvBar EXCEPT ![k] = v]
  BY <1>2 DEF Service!After
<1>8. Service!Result(kvBar, call[c]) = "ok"
  BY <1>2 DEF Service!Result
<1> QED
  BY <1>1, <1>3, <1>6, <1>7, <1>8, EffectStep

LEMMA XInitRefines == XInit => Service!SInit
<1> SUFFICES ASSUME XInit PROVE Service!SInit
  OBVIOUS
<1>1. \A k \in Key : Contents(SubDICKs[Route[k]])[k] = Absent
  BY NewSubDICKOK, Assumptions, ContentsValue DEF XInit, NewXDICK
<1>2. \A c \in Client : Phase(pc[c]) = "idle"
  BY Phases DEF XInit
<1> QED
  BY <1>1, <1>2 DEF XInit, Service!SInit, NoCall, Service!NoCall

LEMMA XStepRefines ==
    XInv /\ [XNext]_xvars => [Service!SNext]_(Service!svars)
<1> SUFFICES ASSUME XInv, [XNext]_xvars
             PROVE  [Service!SNext]_(Service!svars)
  OBVIOUS
<1> DEFINE Stutter == UNCHANGED <<kvBar, phaseBar, call, ret>>
<1>0. Stutter => UNCHANGED Service!svars
  BY DEF Service!svars, kvBar, phaseBar
<1>1. ASSUME NEW c \in Client, NEW o \in Calls, Enter(c, o)
      PROVE  Service!Invoke(c, o) /\ o \in Service!Calls
  <2>1. /\ phaseBar[c] = "idle"
        /\ phaseBar' = [phaseBar EXCEPT ![c] = "pending"]
    BY <1>1, PhaseStep, Phases DEF Enter
  <2>2. kvBar' = kvBar
    BY <1>1 DEF Enter, kvBar
  <2>3. o \in Service!Calls
    BY DEF Calls, Service!Calls
  <2> QED
    BY <1>1, <2>1, <2>2, <2>3 DEF Enter, Service!Invoke, kvBar, phaseBar
<1>2. ASSUME NEW c \in Client, Lock(c) PROVE Stutter
  <2>1. call[c].op \in {"Get", "Del", "Set"}
    BY <1>2, CallFields DEF Lock, Goes, XInv, CallsMatch
  <2>2. /\ phaseBar[c] = "pending"
        /\ phaseBar' = [phaseBar EXCEPT ![c] = "pending"]
    BY <1>2, <2>1, PhaseStep, Phases DEF Lock
  <2>3. phaseBar' = phaseBar
    BY <2>2 DEF phaseBar
  <2> QED
    BY <1>2, <2>3 DEF Lock, kvBar
<1>3. ASSUME NEW c \in Client, SetLookup(c) PROVE Stutter
  <2>1. /\ phaseBar[c] = "pending"
        /\ phaseBar' = [phaseBar EXCEPT ![c] = "pending"]
    BY <1>3, PhaseStep, Phases DEF SetLookup
  <2>2. phaseBar' = phaseBar
    BY <2>1 DEF phaseBar
  <2> QED
    BY <1>3, <2>2 DEF SetLookup, kvBar
<1>4. ASSUME NEW c \in Client, Unlock(c) PROVE Service!Return(c)
  <2>1. /\ phaseBar[c] = "done"
        /\ phaseBar' = [phaseBar EXCEPT ![c] = "idle"]
    BY <1>4, PhaseStep, Phases DEF Unlock
  <2>2. kvBar' = kvBar
    BY <1>4 DEF Unlock, kvBar
  <2> QED
    BY <1>4, <2>1, <2>2 DEF Unlock, Service!Return, NoCall, Service!NoCall,
                            kvBar, phaseBar
<1>5. ASSUME NEW c \in Client,
             DoGet(c) \/ DoDel(c) \/ SetOverwrite(c) \/ SetAdd(c)
      PROVE  Service!TakeEffect(c)
  BY <1>5, GetEffect, DelEffect, OverwriteEffect, AddEffect
<1>6. CASE UNCHANGED xvars
  BY <1>6, <1>0 DEF xvars, kvBar, phaseBar
<1> HIDE DEF Stutter
<1> QED
  BY <1>0, <1>1, <1>2, <1>3, <1>4, <1>5, <1>6 DEF XNext, Working, Service!SNext

\* The safety part of Linearizable: each concurrent call takes effect once, at
\* one instant between its invocation and its return, on one map, and returns
\* what it saw there.
THEOREM LinearizableSafety ==
    XSpec => Service!SInit /\ [][Service!SNext]_(Service!svars)
<1>1. XInit => Service!SInit
  BY XInitRefines
<1>2. XInv /\ [XNext]_xvars => [Service!SNext]_(Service!svars)
  BY XStepRefines
<1> QED
  BY <1>1, <1>2, XInvariance, PTL DEF XSpec
----------------------------------------------------------------------------
(* Every call returns *)

(* WF and SF are defined with ENABLED, of which the prover has no theory:    *)
(* that an action can be taken where its guard holds (CallsEnabled) is a     *)
(* hypothesis of the theorem, on which TLC and a reading of the actions      *)
(* agree.  The rest of the argument is proved.                               *)

PcAt(c, p)   == pc[c] = p
CallAt(c, S) == pc[c] \in S
WaitsAt(c, i) == pc[c] = "lock" /\ idx(c) = i
SubmuxHas(i, c) == submux[i] = c
SubmuxFree(i) == submux[i] = Free

InLookup == {"Get", "Del", "Set"}
InEffect == {"overwrite", "add"}

\* A goroutine moves on by its own steps alone: to its Lock, and once past it,
\* from what it is called for to what it found to do, to its Unlock, to its return ...
LEMMA CallMoves ==
    ASSUME XInv, [XNext]_xvars, NEW c \in Client, NEW i \in Sub
    PROVE  /\ WaitsAt(c, i) => WaitsAt(c, i)' \/ CallAt(c, InCall)'
           /\ CallAt(c, InLookup) =>
                  CallAt(c, InLookup)' \/ CallAt(c, InEffect)' \/ PcAt(c, "unlock")'
           /\ CallAt(c, InEffect) => CallAt(c, InEffect)' \/ PcAt(c, "unlock")'
           /\ PcAt(c, "unlock") => PcAt(c, "unlock")' \/ PcAt(c, "idle")'
           /\ SubmuxHas(i, c) => SubmuxHas(i, c)' \/ SubmuxFree(i)'
<1> DEFINE Moves ==
           /\ WaitsAt(c, i) => WaitsAt(c, i)' \/ CallAt(c, InCall)'
           /\ CallAt(c, InLookup) =>
                  CallAt(c, InLookup)' \/ CallAt(c, InEffect)' \/ PcAt(c, "unlock")'
           /\ CallAt(c, InEffect) => CallAt(c, InEffect)' \/ PcAt(c, "unlock")'
           /\ PcAt(c, "unlock") => PcAt(c, "unlock")' \/ PcAt(c, "idle")'
           /\ SubmuxHas(i, c) => SubmuxHas(i, c)' \/ SubmuxFree(i)'
<1>1. ASSUME pc'[c] = pc[c], call'[c] = call[c],
             SubmuxHas(i, c) => SubmuxHas(i, c)' \/ SubmuxFree(i)'
      PROVE  Moves
  BY <1>1 DEF WaitsAt, PcAt, CallAt, idx
<1>2. ASSUME NEW b \in Client, b # c,
             (\E o \in Calls : Enter(b, o)) \/ Lock(b) \/ Working(b)
      PROVE  Moves
  <2>1. pc'[c] = pc[c] /\ call'[c] = call[c]
    BY <1>2 DEF XInv, Types, Enter, Lock, Working, DoGet, DoDel, SetLookup, SetOverwrite,
                SetAdd, Unlock, Goes, Does
  <2>2. UNCHANGED submux \/ Lock(b) \/ Unlock(b)
    BY <1>2 DEF Enter, Lock, Working, DoGet, DoDel, SetLookup, SetOverwrite, SetAdd, Unlock,
                Does
  <2>3. SubmuxHas(i, c) => SubmuxHas(i, c)' \/ SubmuxFree(i)'
    BY <2>2, Assumptions DEF XInv, Types, Lock, Unlock, SubmuxHas, SubmuxFree
  <2> QED
    BY <1>1, <2>1, <2>3
<1>3. ASSUME (\E o \in Calls : Enter(c, o)) \/ Lock(c) \/ Working(c) PROVE Moves
  <2> USE Assumptions
      DEF XInv, Types, Goes, WaitsAt, PcAt, CallAt, InLookup, InEffect, InCall, SubmuxHas,
          SubmuxFree
  <2>1. CASE \E o \in Calls : Enter(c, o)
    BY <2>1 DEF Enter
  <2>2. CASE Lock(c)
    <3>1. pc[c] = "lock" /\ call[c] \in Calls /\ pc'[c] = call[c].op
      BY <2>2 DEF Lock, CallsMatch
    <3>2. SubmuxHas(i, c) => SubmuxHas(i, c)'
      BY <2>2 DEF Lock
    <3> QED
      BY <3>1, <3>2, CallFields
  <2>3. CASE DoGet(c) \/ DoDel(c) \/ SetLookup(c) \/ SetOverwrite(c) \/ SetAdd(c)
    BY <2>3 DEF DoGet, DoDel, SetLookup, SetOverwrite, SetAdd, Does
  <2>4. CASE Unlock(c)
    BY <2>4 DEF Unlock
  <2> QED
    BY <1>3, <2>1, <2>2, <2>3, <2>4 DEF Working
<1>4. CASE UNCHANGED xvars
  BY <1>1, <1>4 DEF xvars, SubmuxHas
<1> QED
  BY <1>1, <1>2, <1>3, <1>4 DEF XNext

\* ... and with each of them it does.
LEMMA CallSteps ==
    ASSUME XInv, NEW c \in Client, NEW i \in Sub
    PROVE  /\ WaitsAt(c, i) /\ <<Lock(c)>>_xvars => CallAt(c, InCall)'
           /\ CallAt(c, InLookup) /\ <<Working(c)>>_xvars =>
                  CallAt(c, InEffect)' \/ PcAt(c, "unlock")'
           /\ CallAt(c, InEffect) /\ <<Working(c)>>_xvars => PcAt(c, "unlock")'
           /\ PcAt(c, "unlock") /\ <<Working(c)>>_xvars => PcAt(c, "idle")'
<1>1. XInv
  OBVIOUS
<1>2. WaitsAt(c, i) /\ Lock(c) => CallAt(c, InCall)'
  BY <1>1, CallFields DEF XInv, Types, CallsMatch, Lock, Goes, WaitsAt, PcAt, CallAt, InCall
<1> QED
  BY <1>1, <1>2 DEF XInv, Types, Working, DoGet, DoDel, SetLookup, SetOverwrite, SetAdd,
                    Unlock, Goes, PcAt, CallAt, InLookup, InEffect

CanLock(c, i) == WaitsAt(c, i) /\ SubmuxFree(i) => ENABLED <<Lock(c)>>_xvars
CanWork(c)    == CallAt(c, InCall) => ENABLED <<Working(c)>>_xvars
CallsEnabled  == \A c \in Client : CanWork(c) /\ \A i \in Sub : CanLock(c, i)

LEMMA FairCall ==
    ASSUME NEW c \in Client, NEW i \in Sub
    PROVE  XSpec /\ []CallsEnabled => [](CanLock(c, i) /\ CanWork(c)) /\ CallFair(c)
<1>1. CallsEnabled => CanLock(c, i) /\ CanWork(c)
  BY DEF CallsEnabled
<1>2. XFairness => CallFair(c)
  BY DEF XFairness
<1> QED
  BY <1>1, <1>2, PTL DEF XSpec

\* Past its Lock a call ends, since nothing in its section waits.
LEMMA SectionEnds ==
    ASSUME NEW c \in Client, NEW i \in Sub
    PROVE  XSpec /\ []CallsEnabled => (CallAt(c, InCall) ~> PcAt(c, "idle"))
<1>1. CallAt(c, InCall) <=>
          CallAt(c, InLookup) \/ CallAt(c, InEffect) \/ PcAt(c, "unlock")
  BY DEF PcAt, CallAt, InCall, InLookup, InEffect
<1> QED
  BY <1>1, CallMoves, CallSteps, FairCall, XInvariance, PTL DEF XSpec, CallFair, CanWork

\* So whoever holds a submux gives it back, and it is free again and again.
GivenBack(i, c)  == [](SubmuxHas(i, c) => <>SubmuxFree(i))
AllGiveBack(i)   == \A c \in Client : SubmuxHas(i, c) => <>SubmuxFree(i)

LEMMA SubmuxGetsFree ==
    ASSUME NEW i \in Sub
    PROVE  XSpec /\ []CallsEnabled => []<>SubmuxFree(i)
<1>1. ASSUME NEW c \in Client PROVE XSpec /\ []CallsEnabled => GivenBack(i, c)
  <2>1. XInv /\ SubmuxHas(i, c) => CallAt(c, InCall)
    BY DEF XInv, LockHeld, SubmuxHas, PcAt, CallAt
  <2>2. XInv /\ PcAt(c, "idle") => ~SubmuxHas(i, c)
    BY DEF XInv, LockHeld, SubmuxHas, PcAt, CallAt, InCall
  <2> QED
    BY <2>1, <2>2, CallMoves, SectionEnds, XInvariance, PTL DEF XSpec, GivenBack
<1>2. XSpec /\ []CallsEnabled => \A c \in Client : GivenBack(i, c)
  BY <1>1
<1>3. (\A c \in Client : GivenBack(i, c)) => []AllGiveBack(i)
  BY DEF GivenBack, AllGiveBack
<1>4. AllGiveBack(i) => ((\E c \in Client : SubmuxHas(i, c)) => <>SubmuxFree(i))
  BY DEF AllGiveBack
<1>5. XInv => SubmuxFree(i) \/ \E c \in Client : SubmuxHas(i, c)
  BY DEF XInv, Types, SubmuxFree, SubmuxHas
<1> QED
  BY <1>2, <1>3, <1>4, <1>5, XInvariance, PTL

\* A call that waits for a submux gets it, since it is not overtaken for ever.
Returns(c, i)   == [](WaitsAt(c, i) => <>PcAt(c, "idle"))
ReturnsWhichever(c) == \A i \in Sub : WaitsAt(c, i) => <>PcAt(c, "idle")

LEMMA CallReturns ==
    ASSUME NEW c \in Client
    PROVE  XSpec /\ []CallsEnabled => (PcAt(c, "lock") ~> PcAt(c, "idle"))
<1>1. ASSUME NEW i \in Sub PROVE XSpec /\ []CallsEnabled => Returns(c, i)
  BY CallMoves, CallSteps, FairCall, SectionEnds, SubmuxGetsFree, XInvariance, PTL
     DEF XSpec, CallFair, CanLock, Returns
<1>2. XSpec /\ []CallsEnabled => \A i \in Sub : Returns(c, i)
  BY <1>1
<1>3. (\A i \in Sub : Returns(c, i)) => []ReturnsWhichever(c)
  BY DEF Returns, ReturnsWhichever
<1>4. ReturnsWhichever(c) => ((\E i \in Sub : WaitsAt(c, i)) => <>PcAt(c, "idle"))
  BY DEF ReturnsWhichever
<1>5. XInv /\ PcAt(c, "lock") => \E i \in Sub : WaitsAt(c, i)
  BY CallFields, Assumptions DEF XInv, CallsMatch, PcAt, CallAt, WaitsAt, idx
<1> QED
  BY <1>2, <1>3, <1>4, <1>5, XInvariance, PTL

\* Every call returns, for any number of goroutines that compete for any number
\* of sub-dictionaries.
THEOREM CallsReturn == XSpec /\ []CallsEnabled => EveryCallReturns
<1>1. XSpec /\ []CallsEnabled =>
          \A c \in Client : PcAt(c, "lock") ~> PcAt(c, "idle")
  BY CallReturns
<1> QED
  BY <1>1 DEF PcAt, EveryCallReturns

\* The service has nothing to do for a goroutine that calls nothing: its two
\* actions for it have the phase of a call as their guard.
Serves(c) == Service!TakeEffect(c) \/ Service!Return(c)
ServiceWaits == \A c \in Client :
    PcAt(c, "idle") => ~ENABLED <<Serves(c)>>_(Service!svars)

\* A goroutine is idle again and again, and then owed nothing.
LEMMA CallServed ==
    ASSUME NEW c \in Client
    PROVE  XSpec /\ []CallsEnabled /\ []ServiceWaits => Service!ServeFair(c)
<1>1. ServiceWaits /\ PcAt(c, "idle") => ~ENABLED <<Serves(c)>>_(Service!svars)
  BY DEF ServiceWaits
<1>2. XInv => PcAt(c, "idle") \/ PcAt(c, "lock") \/ CallAt(c, InCall)
  BY DEF XInv, Types, PcAt, CallAt
<1>3. 0 \in Sub
  BY XDickAssumption DEF Sub
<1>4. XSpec /\ []CallsEnabled => (CallAt(c, InCall) ~> PcAt(c, "idle"))
  BY <1>3, SectionEnds
<1> QED
  BY <1>1, <1>2, <1>4, CallReturns, XInvariance, PTL
     DEF XSpec, Service!ServeFair, Serves

\* Concurrent Get, Set and Del are linearizable, and none is left without its
\* effect or its return: the database implements the service whole.
THEOREM DatabaseLinearizable ==
    XSpec /\ []CallsEnabled /\ []ServiceWaits => Linearizable
<1>1. XSpec /\ []CallsEnabled /\ []ServiceWaits => Service!SFairness
  BY CallServed DEF Service!SFairness
<1> QED
  BY <1>1, LinearizableSafety DEF Linearizable, Service!SSpec
----------------------------------------------------------------------------
(* Every hasher gives a key the same hash *)

\* A hasher, whatever it was used for.
FourBytes == [1..4 -> Byte]

Hasher == [h : Seq(FourBytes), buf : FourBytes, idx : 0..4]

\* The hasher w that was reset and has taken the first n bytes of k: of each
\* five it has kept four, in words or, below idx, in its buffer.
HasTaken(w, k, n) ==
    /\ w \in Hasher /\ w.idx = (n % 5) /\ Len(w.h) = n \div 5
    /\ \A j \in 1..n \div 5 : w.h[j] = Word(SubSeq(k, 5 * j - 4, 5 * j - 1))
    /\ \A b \in 1..(n % 5) : w.buf[b] = k[n - (n % 5) + b]

LEMMA FivesOK ==
    ASSUME NEW n \in Nat
    PROVE  /\ n \div 5 \in Nat /\ (n % 5) \in 0..4 /\ n = 5 * (n \div 5) + (n % 5)
           /\ (n % 5) < 4 => (n + 1) % 5 = (n % 5) + 1 /\ (n + 1) \div 5 = n \div 5
           /\ (n % 5) = 4 => (n + 1) % 5 = 0 /\ (n + 1) \div 5 = n \div 5 + 1
           /\ (n % 5) = 0 => (n + 4) \div 5 = n \div 5
           /\ (n % 5) # 0 => (n + 4) \div 5 = n \div 5 + 1
OBVIOUS

LEMMA WordOK == ASSUME NEW b \in Seq(Byte) PROVE Word(b) \in FourBytes
<1>1. Len(b) \in Nat /\ \A i \in 1..Len(b) : b[i] \in Byte
  OBVIOUS
<1>2. 0 \in Byte
  BY DEF Byte
<1> QED
  BY <1>1, <1>2 DEF Word, FourBytes

LEMMA HasherFields ==
    ASSUME NEW x \in Hasher
    PROVE  /\ x = [h |-> x.h, buf |-> x.buf, idx |-> x.idx]
           /\ x.h \in Seq(FourBytes) /\ x.buf \in FourBytes /\ x.idx \in 0..4
BY DEF Hasher

LEMMA SubSeqOK ==
    ASSUME NEW S, NEW k \in Seq(S), NEW m \in 1..Len(k) + 1, NEW n \in m - 1..Len(k)
    PROVE  /\ SubSeq(k, m, n) \in Seq(S) /\ Len(SubSeq(k, m, n)) = n - m + 1
           /\ \A b \in 1..n - m + 1 : SubSeq(k, m, n)[b] = k[m + b - 1]
OBVIOUS

LEMMA FirstReset ==
    ASSUME NEW x \in Hasher, NEW k PROVE HasTaken(Reset(x), k, 0)
<1>a. Reset(x) = [h |-> <<>>, buf |-> x.buf, idx |-> 0]
  <2> DEFINE none == <<>>
  <2>1. Reset(x) = [x EXCEPT !.h = none, !.idx = 0]
    BY DEF Reset
  <2> HIDE DEF none
  <2>2. Reset(x) = [h |-> none, buf |-> x.buf, idx |-> 0]
    BY <2>1 DEF Hasher
  <2> QED
    BY <2>2 DEF none
<1>1. /\ Reset(x).h = <<>> /\ Reset(x).idx = 0 /\ Reset(x).buf = x.buf
      /\ Reset(x) = [h |-> <<>>, buf |-> x.buf, idx |-> 0]
  BY <1>a
<1>2. <<>> \in Seq(FourBytes) /\ Len(<<>>) = 0
  OBVIOUS
<1>3. Reset(x) \in Hasher
  BY <1>1, <1>2, HasherFields DEF Hasher
<1> QED
  BY <1>1, <1>2, <1>3, FivesOK DEF HasTaken

LEMMA TakesByte ==
    ASSUME NEW k \in Seq(Byte), NEW n \in Nat, n + 1 <= Len(k),
           NEW w, HasTaken(w, k, n)
    PROVE  HasTaken(WriteByte(w, k[n + 1]), k, n + 1)
<1> DEFINE v == WriteByte(w, k[n + 1])
<1>1. /\ w.h \in Seq(FourBytes) /\ w.buf \in FourBytes
      /\ w = [h |-> w.h, buf |-> w.buf, idx |-> w.idx]
      /\ w.idx = (n % 5) /\ k[n + 1] \in Byte
  BY HasherFields DEF HasTaken
<1>2. CASE (n % 5) < 4
  <2>1. /\ v = [h |-> w.h, buf |-> [w.buf EXCEPT ![(n % 5) + 1] = k[n + 1]],
                idx |-> (n % 5) + 1]
    BY <1>1, <1>2 DEF WriteByte
  <2>2. [w.buf EXCEPT ![(n % 5) + 1] = k[n + 1]] \in FourBytes
    BY <1>1, FivesOK DEF FourBytes
  <2>3. /\ v.h = w.h /\ v.idx = (n % 5) + 1
        /\ v.buf = [w.buf EXCEPT ![(n % 5) + 1] = k[n + 1]]
    BY <2>1
  <2>4. v \in Hasher
    <3>1. (n % 5) + 1 \in 0..4
      BY <1>2, FivesOK
    <3> QED
      BY <1>1, <2>1, <2>2, <3>1 DEF Hasher
  <2>5. \A b \in 1..(n % 5) + 1 : v.buf[b] = k[n - (n % 5) + b]
    <3>1. (n % 5) \in 0..3 /\ n - (n % 5) + ((n % 5) + 1) = n + 1
      BY <1>2, FivesOK
    <3>2. \A b \in 1..(n % 5) : w.buf[b] = k[n - (n % 5) + b]
      BY DEF HasTaken
    <3>3. v.buf[(n % 5) + 1] = k[n + 1]
      BY <1>1, <2>3, <3>1 DEF FourBytes
    <3>4. \A b \in 1..(n % 5) : v.buf[b] = w.buf[b]
      BY <1>1, <2>3, <3>1 DEF FourBytes
    <3>5. \A b \in 1..(n % 5) + 1 : b \in 1..(n % 5) \/ b = (n % 5) + 1
      BY <3>1
    <3> HIDE DEF v
    <3> QED
      BY <3>1, <3>2, <3>3, <3>4, <3>5
  <2> HIDE DEF v
  <2>6. /\ (n + 1) % 5 = (n % 5) + 1 /\ (n + 1) \div 5 = n \div 5
        /\ n + 1 - ((n % 5) + 1) = n - (n % 5)
    BY <1>2, FivesOK
  <2>7. /\ Len(v.h) = (n + 1) \div 5
        /\ \A j \in 1..(n + 1) \div 5 : v.h[j] = Word(SubSeq(k, 5 * j - 4, 5 * j - 1))
    BY <2>3, <2>6 DEF HasTaken
  <2>8. \A b \in 1..((n + 1) % 5) : v.buf[b] = k[n + 1 - ((n + 1) % 5) + b]
    BY <2>5, <2>6
  <2>9. HasTaken(v, k, n + 1)
    BY <2>3, <2>4, <2>6, <2>7, <2>8 DEF HasTaken
  <2> QED
    BY <2>9 DEF v
<1>3. CASE (n % 5) = 4
  <2>1. v = [h |-> Append(w.h, w.buf), buf |-> w.buf, idx |-> 0]
    <3>1. v = [w EXCEPT !.h = Append(@, w.buf), !.idx = 0]
      BY <1>1, <1>3 DEF WriteByte
    <3>2. w \in Hasher
      BY DEF HasTaken
    <3> QED
      BY <3>1, <3>2 DEF Hasher
  <2>2. v.h = Append(w.h, w.buf) /\ v.idx = 0
    BY <2>1
  <2>3. v \in Hasher
    BY <1>1, <2>1 DEF Hasher
  <2>4. /\ (n + 1) % 5 = 0 /\ (n + 1) \div 5 = n \div 5 + 1
        /\ n = 5 * (n \div 5) + 4 /\ n \div 5 \in Nat
    BY <1>3, FivesOK
  <2> DEFINE q == n \div 5
  <2>5. w.buf = Word(SubSeq(k, 5 * (q + 1) - 4, 5 * (q + 1) - 1))
    <3>1. /\ Len(SubSeq(k, 5 * q + 1, 5 * q + 4)) = 4
          /\ \A b \in 1..4 : SubSeq(k, 5 * q + 1, 5 * q + 4)[b] = k[5 * q + b]
      BY <2>4, SubSeqOK
    <3>2. \A b \in 1..4 : w.buf[b] = k[5 * q + b]
      <4>1. \A b \in 1..4 : w.buf[b] = k[n - 4 + b]
        BY <1>3 DEF HasTaken
      <4> QED
        BY <2>4, <4>1
    <3>3. w.buf = Word(SubSeq(k, 5 * q + 1, 5 * q + 4))
      <4> DEFINE s == SubSeq(k, 5 * q + 1, 5 * q + 4)
      <4>1. Len(s) = 4 /\ \A b \in 1..4 : s[b] = w.buf[b]
        BY <3>1, <3>2
      <4> HIDE DEF s
      <4>2. Word(s) = [b \in 1..4 |-> w.buf[b]]
        BY <4>1 DEF Word
      <4> QED
        BY <1>1, <4>2 DEF FourBytes, s
    <3>4. 5 * (q + 1) - 4 = 5 * q + 1 /\ 5 * (q + 1) - 1 = 5 * q + 4
      BY <2>4
    <3> QED
      BY <3>3, <3>4
  <2>6. Len(v.h) = q + 1 /\ v.h[q + 1] = w.buf /\ \A j \in 1..q : v.h[j] = w.h[j]
    <3>1. Len(w.h) = q
      BY DEF HasTaken
    <3> QED
      <4>1. /\ Len(Append(w.h, w.buf)) = Len(w.h) + 1
            /\ Append(w.h, w.buf)[Len(w.h) + 1] = w.buf
            /\ \A j \in 1..Len(w.h) : Append(w.h, w.buf)[j] = w.h[j]
        BY <1>1, AppendProperties
      <4> HIDE DEF v, q
      <4> QED
        BY <2>2, <3>1, <4>1
  <2>7. \A j \in 1..q + 1 : v.h[j] = Word(SubSeq(k, 5 * j - 4, 5 * j - 1))
    <3>1. ASSUME NEW j \in 1..q
          PROVE  v.h[j] = Word(SubSeq(k, 5 * j - 4, 5 * j - 1))
      BY <2>6 DEF HasTaken
    <3>2. \A j \in 1..q + 1 : j \in 1..q \/ j = q + 1
      BY <2>4
    <3> QED
      BY <2>5, <2>6, <3>1, <3>2
  <2> HIDE DEF v, q
  <2>8. (n + 1) \div 5 = q + 1
    BY <2>4 DEF q
  <2>9. HasTaken(v, k, n + 1)
    <3>1. \A b \in 1..((n + 1) % 5) : FALSE
      BY <2>4
    <3> QED
      BY <2>2, <2>3, <2>4, <2>6, <2>7, <2>8, <3>1 DEF HasTaken
  <2> QED
    BY <2>9 DEF v
<1> QED
  BY <1>2, <1>3, FivesOK

\* Write takes the bytes of k one at a time: its recursion defines what it says.
LEMMA WrittenIs ==
    ASSUME NEW x, NEW k \in Seq(Byte)
    PROVE  /\ Written(x, k)[0] = x
           /\ \A i \in 1..Len(k) :
                 Written(x, k)[i] = WriteByte(Written(x, k)[i - 1], k[i])
<1> DEFINE Is(w, n) ==
        w = [i \in 0..n |-> IF i = 0 THEN x ELSE WriteByte(w[i-1], k[i])]
<1> DEFINE T == {n \in Nat : \E w : Is(w, n)}
<1>1. 0 \in T
  <2>1. Is([i \in 0..0 |-> x], 0)
    OBVIOUS
  <2> QED
    BY <2>1
<1>2. ASSUME NEW n \in Nat, n \in T PROVE n + 1 \in T
  <2>1. PICK w : Is(w, n)
    BY <1>2
  <2> DEFINE v == [i \in 0..n+1 |-> IF i = n + 1 THEN WriteByte(w[n], k[n+1]) ELSE w[i]]
  <2>2. Is(v, n + 1)
    <3>1. \A i \in 0..n : v[i] = w[i]
      OBVIOUS
    <3>2. ASSUME NEW i \in 0..n+1
          PROVE  v[i] = IF i = 0 THEN x ELSE WriteByte(v[i-1], k[i])
      <4>1. CASE i = n + 1
        BY <3>1, <4>1
      <4>2. CASE i \in 0..n
        <5>1. v[i] = w[i] /\ (i # 0 => v[i-1] = w[i-1])
          BY <3>1, <4>2
        <5>2. w[i] = IF i = 0 THEN x ELSE WriteByte(w[i-1], k[i])
          BY <2>1, <4>2
        <5> QED
          BY <5>1, <5>2
      <4> QED
        BY <4>1, <4>2
    <3> QED
      BY <3>2
  <2> HIDE DEF v, Is
  <2> QED
    BY <2>2
<1>3. \E w : Is(w, Len(k))
  <2>1. Len(k) \in Nat
    OBVIOUS
  <2> HIDE DEF Is
  <2>2. Nat \subseteq T
    BY <1>1, <1>2, AllNaturals
  <2> QED
    BY <2>1, <2>2
<1>4. Is(Written(x, k), Len(k))
  BY <1>3 DEF Written
<1> QED
  BY <1>4

LEMMA WriteTakes ==
    ASSUME NEW x \in Hasher, NEW k \in Seq(Byte)
    PROVE  HasTaken(Write(Reset(x), k), k, Len(k))
<1> DEFINE w == Written(Reset(x), k)
           T == {n \in Nat : n <= Len(k) => HasTaken(w[n], k, n)}
<1>1. /\ w[0] = Reset(x)
      /\ \A i \in 1..Len(k) : w[i] = WriteByte(w[i - 1], k[i])
  BY WrittenIs
<1> HIDE DEF w
<1>2. 0 \in T
  BY <1>1, FirstReset
<1>3. ASSUME NEW n \in Nat, n \in T PROVE n + 1 \in T
  <2>1. ASSUME n + 1 <= Len(k) PROVE HasTaken(w[n + 1], k, n + 1)
    <3>1. HasTaken(w[n], k, n) /\ w[n + 1] = WriteByte(w[n], k[n + 1])
      BY <1>1, <1>3, <2>1
    <3> QED
      BY <2>1, <3>1, TakesByte
  <2> QED
    BY <2>1
<1>4. Len(k) \in T
  <2>1. Nat \subseteq T
    BY <1>2, <1>3, AllNaturals
  <2> QED
    BY <2>1
<1> QED
  BY <1>4 DEF Write, w

\* What Hash makes of it are the words of the key.
LEMMA HashIsOfKey ==
    ASSUME NEW x \in Hasher, NEW k \in Seq(Byte)
    PROVE  HashValue(Write(Reset(x), k)) = WordsOf(k)
<1> DEFINE w == Write(Reset(x), k)
           l == Len(k)
           q == l \div 5
           r == (l % 5)
<1>1. HasTaken(w, k, l)
  BY WriteTakes
<1>2. l \in Nat /\ q \in Nat /\ r \in 0..4 /\ l = 5 * q + r
  BY FivesOK
<1>3. IF r = 0 THEN (l + 4) \div 5 = q ELSE (l + 4) \div 5 = q + 1
  BY FivesOK
<1>4. /\ w.h \in Seq(FourBytes) /\ w.buf \in FourBytes /\ w.idx = r
      /\ Len(w.h) = q
      /\ \A j \in 1..q : w.h[j] = Word(SubSeq(k, 5 * j - 4, 5 * j - 1))
      /\ \A b \in 1..r : w.buf[b] = k[l - r + b]
  BY <1>1, HasherFields DEF HasTaken
<1> HIDE DEF w, q, r, l
<1> DEFINE W(j) == Word(SubSeq(k, 5 * j - 4, IF 5 * j - 1 < l THEN 5 * j - 1 ELSE l))
<1>5. WordsOf(k) = [j \in 1..(l + 4) \div 5 |-> W(j)]
  BY DEF WordsOf, l
<1>6. \A j \in 1..q : W(j) = w.h[j]
  <2> SUFFICES ASSUME NEW j \in 1..q PROVE W(j) = w.h[j]
    OBVIOUS
  <2>1. 5 * j - 1 < l
    BY <1>2
  <2> QED
    BY <1>4, <2>1
<1>7. CASE r = 0
  <2>1. HashValue(w) = w.h
    BY <1>4, <1>7 DEF HashValue
  <2>2. w.h = [j \in 1..q |-> w.h[j]]
    BY <1>4
  <2> HIDE DEF W
  <2>3. WordsOf(k) = [j \in 1..q |-> W(j)]
    BY <1>3, <1>5, <1>7
  <2> QED
    BY <1>6, <2>1, <2>2, <2>3 DEF w
<1>8. CASE r # 0
  <2>1. HashValue(w) = Append(w.h, Word(SubSeq(w.buf, 1, r)))
    BY <1>4, <1>8 DEF HashValue
  <2>2. W(q + 1) = Word(SubSeq(k, 5 * q + 1, l))
    <3>1. 5 * (q + 1) - 4 = 5 * q + 1 /\ ~(5 * (q + 1) - 1 < l)
      BY <1>2
    <3> QED
      BY <3>1
  <2>3. Word(SubSeq(w.buf, 1, r)) = Word(SubSeq(k, 5 * q + 1, l))
    <3>1. w.buf \in Seq(Byte) /\ Len(w.buf) = 4
      <4>1. w.buf \in [1..4 -> Byte]
        BY <1>4 DEF FourBytes
      <4>2. Seq(Byte) = UNION {[1..n -> Byte] : n \in Nat}
        OBVIOUS
      <4>3. w.buf \in Seq(Byte)
        BY <4>1, <4>2
      <4>4. 1..4 = 1..Len(w.buf) /\ Len(w.buf) \in Nat
        BY <4>1, <4>3, LenProperties
      <4> DEFINE n == Len(w.buf)
      <4>5. n \in Nat /\ 1..4 = 1..n
        BY <4>4
      <4> HIDE DEF n
      <4>6. n = 4
        <5>a. 4 \in 1..4
          OBVIOUS
        <5>1. 4 \in 1..n
          BY <4>5, <5>a, Zenon
        <5>2. n \in 1..n
          BY <4>5, <5>1
        <5>3. n \in 1..4
          BY <4>5, <5>2, Zenon
        <5> QED
          BY <4>5, <5>1, <5>3
      <4> QED
        BY <4>3, <4>6 DEF n
    <3>2. /\ Len(SubSeq(w.buf, 1, r)) = r
          /\ \A b \in 1..r : SubSeq(w.buf, 1, r)[b] = w.buf[b]
      <4>1. r \in 0..Len(w.buf)
        BY <1>2, <3>1
      <4> QED
        BY <1>2, <3>1, <4>1, SubSeqOK
    <3>3. /\ Len(SubSeq(k, 5 * q + 1, l)) = r
          /\ \A b \in 1..r : SubSeq(k, 5 * q + 1, l)[b] = k[5 * q + b]
      BY <1>2, <1>8, SubSeqOK DEF l
    <3>4. \A b \in 1..r : w.buf[b] = k[5 * q + b]
      BY <1>2, <1>4
    <3>5. \A b \in 1..4 : b <= r => b \in 1..r
      BY <1>2
    <3> QED
      BY <1>2, <3>2, <3>3, <3>4, <3>5 DEF Word
  <2> HIDE DEF W
  <2>4. WordsOf(k) = [j \in 1..q + 1 |-> W(j)]
    BY <1>3, <1>5, <1>8
  <2> DEFINE last == Word(SubSeq(w.buf, 1, r))
  <2>5. W(q + 1) = last
    BY <2>2, <2>3
  <2> HIDE DEF last
  <2>6. Append(w.h, last) = [j \in 1..q + 1 |-> IF j <= q THEN w.h[j] ELSE last]
    BY <1>2, <1>4
  <2>7. \A j \in 1..q + 1 : W(j) = IF j <= q THEN w.h[j] ELSE last
    BY <1>2, <1>6, <2>5
  <2>8. Append(w.h, last) = WordsOf(k)
    BY <2>4, <2>6, <2>7
  <2> QED
    BY <2>1, <2>8 DEF last, w
<1> QED
  BY <1>7, <1>8

\* The shorter keys, which are hashed without a hasher, are no exception.
LEMMA StringIsOfKey ==
    ASSUME NEW x \in Hasher, NEW k \in Seq(Byte)
    PROVE  String(x, k) = WordsOf(k)
<1>1. CASE k = <<>>
  BY <1>1, FivesOK DEF String, WordsOf
<1>2. CASE k # <<>> /\ Len(k) <= 4
  <2>1. Len(k) \in 1..4
    <3> DEFINE n == Len(k)
    <3>1. n \in Nat \ {0}
      BY <1>2, EmptySeq
    <3>2. n <= 4
      BY <1>2
    <3> HIDE DEF n
    <3>3. n \in 1..4
      BY <3>1, <3>2
    <3> QED
      BY <3>3 DEF n
  <2>a. (Len(k) + 4) \div 5 = 1
    <3> DEFINE n == Len(k)
    <3>1. n \in 1..4
      BY <2>1
    <3> HIDE DEF n
    <3>2. n \in Nat
      BY <3>1
    <3>3. n = 5 * (n \div 5) + (n % 5) /\ n \div 5 \in Nat /\ (n % 5) \in 0..4
      BY <3>2, FivesOK
    <3>4. (n % 5) # 0 /\ n \div 5 = 0
      BY <3>1, <3>3
    <3>5. (n + 4) \div 5 = 1
      BY <3>2, <3>4, FivesOK
    <3> QED
      BY <3>5 DEF n
  <2>2. k = SubSeq(k, 1, Len(k))
    BY <2>1
  <2>3. WordsOf(k) = [i \in 1..1 |-> Word(k)]
    <3>1. \A i \in 1..1 : /\ 5 * i - 4 = 1
                           /\ (IF 5 * i - 1 < Len(k) THEN 5 * i - 1 ELSE Len(k)) = Len(k)
      <4> DEFINE n == Len(k)
      <4>1. n \in 1..4
        BY <2>1
      <4> HIDE DEF n
      <4>2. \A i \in 1..1 : 5 * i - 4 = 1 /\ (IF 5 * i - 1 < n THEN 5 * i - 1 ELSE n) = n
        BY <4>1
      <4> QED
        BY <4>2 DEF n
    <3> QED
      BY <2>a, <2>2, <3>1 DEF WordsOf
  <2>4. String(x, k) = <<Word(k)>>
    BY <1>2 DEF String
  <2> HIDE DEF String
  <2> QED
    BY <2>3, <2>4
<1>3. CASE ~(Len(k) <= 4)
  BY <1>3, HashIsOfKey DEF String
<1> QED
  BY <1>1, <1>2, <1>3

\* Any byte sequence as key, any history of the hasher: the hash is made of the
\* words of four bytes that Write cuts the key into, each fifth byte dropped,
\* and of nothing the hasher has from its last use.
THEOREM HashOfTheKey ==
    \A x \in Hasher, k \in Bytes : String(x, k) = WordsOf(k)
BY StringIsOfKey, PcasAssumption

LEMMA PooledAreHashers == Pooled \subseteq Hasher
<1>1. NewHash \in Hasher
  <2>1. Word(<<>>) = [i \in 1..4 |-> 0]
    BY DEF Word
  <2>2. <<>> \in Seq(FourBytes)
    OBVIOUS
  <2> QED
    BY <2>1, <2>2 DEF NewHash, Hasher, FourBytes, Byte
<1>2. \A x \in Hasher, k \in Bytes : Write(Reset(x), k) \in Hasher
  BY WriteTakes, PcasAssumption DEF HasTaken
<1> QED
  BY <1>1, <1>2 DEF Pooled

\* The key of a call has one hash, and so one sub-dictionary, whatever the
\* hasher the call gets from the pool was used for before (String, Reset, Write).
THEOREM SameHash == XSpec => []SameKeySameHash
<1>1. Misrouted = {}
  BY HashOfTheKey, PooledAreHashers DEF Misrouted
<1>2. SameKeySameHash
  BY <1>1 DEF SameKeySameHash
<1> QED
  BY <1>2, PTL
=============================================================================

------------------------------ MODULE PcasHash ------------------------------
(***************************************************************************)
(* pcas.String (src/pcas_hash): the hash of a key, whose remainder by      *)
(* SubCount is the key's sub-dictionary.  Hashers go back to a sync.Pool   *)
(* as they are, and come out of it as the last user left them.             *)
(*                                                                         *)
(* A hash value is the sequence of 4-byte words given to Combine, which is *)
(* left uninterpreted: different sequences may still collide in 32 bits,   *)
(* equal ones always do.                                                   *)
(***************************************************************************)
EXTENDS Integers, Sequences

CONSTANT Bytes   \* keys: sequences of bytes

Byte == 0..255

ASSUME PcasAssumption == Bytes \subseteq Seq(Byte)

Word(bytes) == [i \in 1..4 |-> IF i <= Len(bytes) THEN bytes[i] ELSE 0]

\* A Hash: h with hasFirst, buf, and idx.
NewHash == [h |-> <<>>, buf |-> Word(<<>>), idx |-> 0]

\* Mutant: the bytes left in the buffer are still counted.
ResetKeepsIndex(x) == [x EXCEPT !.h = <<>>]

\* buf keeps the bytes of the last key, below idx = 0.
Reset(x) == [x EXCEPT !.h = <<>>, !.idx = 0]

\* The byte that finds the buffer full flushes it and is not kept itself.
WriteByte(x, c) == IF x.idx < 4 THEN [x EXCEPT !.buf[x.idx + 1] = c, !.idx = @ + 1]
                   ELSE [x EXCEPT !.h = Append(@, x.buf), !.idx = 0]

\* The hasher after each number of bytes of k.
Written(x, k) == LET x_[i \in 0..Len(k)] == IF i = 0 THEN x ELSE WriteByte(x_[i-1], k[i])
                 IN  x_

Write(x, k) == Written(x, k)[Len(k)]

HashValue(x) == IF x.idx = 0 THEN x.h ELSE Append(x.h, Word(SubSeq(x.buf, 1, x.idx)))

\* String, with a hasher x from the pool: up to four bytes need none.
String(x, k) == IF k = <<>> THEN <<>>
                ELSE IF Len(k) <= 4 THEN <<Word(k)>>
                ELSE HashValue(Write(Reset(x), k))

\* A hasher in the pool: new, or left by any two keys.
Pooled == LET used == {NewHash} \cup {Write(Reset(NewHash), k) : k \in Bytes}
          IN  used \cup {Write(Reset(x), k) : x \in used, k \in Bytes}
----------------------------------------------------------------------------
\* The hash of a key, said at once: its words are bytes 1-4, 6-9, 11-14, ... .
WordsOf(k) == [i \in 1..(Len(k) + 4) \div 5 |->
                 Word(SubSeq(k, 5 * i - 4, IF 5 * i - 1 < Len(k) THEN 5 * i - 1 ELSE Len(k)))]

\* The keys whose hash depends on what a hasher was used for before.
Misrouted == {k \in Bytes : \E x \in Pooled : String(x, k) # WordsOf(k)}
=============================================================================

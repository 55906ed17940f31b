----------------------------- MODULE NextPower -----------------------------
(***************************************************************************)
(* nextPower of src/database/dick.go, the size of a new hash table, as the *)
(* bit operations it is made of.  A word is the set of its bits that are   *)
(* set: a shift moves the bits down, and | is the union.                   *)
(***************************************************************************)
EXTENDS Integers

CONSTANTS INITIAL_SIZE,   \* size of the first table, 128 in the code
          MaxExponent     \* bound: the largest table is 2^MaxExponent

Pow2[e \in 0..MaxExponent] == IF e = 0 THEN 1 ELSE 2 * Pow2[e-1]

PowersOfTwo == {Pow2[e] : e \in 0..MaxExponent}

\* Sizes are int64: the largest that is a power of two is 2^62.
ASSUME WordAssumption == /\ MaxExponent \in 0..62
                         /\ INITIAL_SIZE \in PowersOfTwo

Bit == 0..MaxExponent-1   \* those of a size less one

\* The number whose bits are B, summed from the lowest up.
NumberOf[B \in SUBSET Bit] ==
    LET low[e \in 0..MaxExponent] ==
            IF e = 0 THEN 0
            ELSE low[e-1] + (IF e - 1 \in B THEN Pow2[e-1] ELSE 0)
    IN  low[MaxExponent]

BitsOf[n \in Nat] == {b \in Bit : (n \div Pow2[b]) % 2 = 1}

\* Mutant: every shift is by one.
orShiftedByOne(B, s) == Bit \cap UNION {{b, b - 1} : b \in B}

\* size |= size >> s: a bit stays, and is copied s bits down unless it falls out.
orShifted(B, s) == Bit \cap UNION {{b, b - s} : b \in B}

\* Every bit below the highest is set.
Smeared(B) ==
    LET b1 == orShifted(B, 1)     b2  == orShifted(b1, 2)
        b4 == orShifted(b2, 4)    b8  == orShifted(b4, 8)
        b16 == orShifted(b8, 16)
    IN  orShifted(b16, 32)

\* Mutant: the final +1 is missing.
nextPowerMinusOne(size) == IF size <= INITIAL_SIZE THEN INITIAL_SIZE
                           ELSE NumberOf[Smeared(BitsOf[size - 1])]

nextPower(size) == IF size <= INITIAL_SIZE THEN INITIAL_SIZE
                   ELSE NumberOf[Smeared(BitsOf[size - 1])] + 1
----------------------------------------------------------------------------
\* "the next power of 2 greater than the given size" (src/database/dick.go:441):
\* the least one that holds n and is a table's at all; n itself if it is one.
LeastPower(n, size) ==
    /\ size \in PowersOfTwo
    /\ n <= size
    /\ IF n <= INITIAL_SIZE THEN size = INITIAL_SIZE ELSE size < 2 * n
=============================================================================

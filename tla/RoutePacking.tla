---------------------------- MODULE RoutePacking ----------------------------
(***************************************************************************)
(* How version 4 of Intersection_eval makes a route element of a triple    *)
(* <<v_i, v_j, t_k>> of stored integers (fetchRoutesFromDB): the three are *)
(* packed into two words.  A word is the set of the positions of its one   *)
(* bits, in two's complement.  In the code WORD = 64, LIMIT = 42 and       *)
(* LOW = 20; a value of more than LIMIT bits is logged and packed all the  *)
(* same.                                                                   *)
(***************************************************************************)
EXTENDS Integers, Sequences

CONSTANTS WORD,   \* bits of a word
          LIMIT,  \* bits a value of a triple may have
          LOW     \* bits of v_j that go into the low word
ASSUME WidthAssumption ==
    /\ WORD \in Nat /\ LIMIT \in Nat /\ LOW \in Nat
    /\ LOW <= LIMIT /\ LIMIT + LOW <= WORD /\ (LIMIT - LOW) + LIMIT <= WORD

Word == SUBSET (0 .. WORD - 1)
Triple == [1 .. 3 -> Word]

Shl(v, n) == {b + n : b \in {c \in v : c + n < WORD}}

\* The values are int64_t: >> repeats the sign bit.
Shr(v, n) == {b - n : b \in {c \in v : c >= n}}
             \cup (IF WORD - 1 \in v THEN WORD - n .. WORD - 1 ELSE {})

high(t) == Shl(t[1], LIMIT - LOW) \cup Shr(t[2], LOW)
low(t) == Shl(t[2] \cap 0 .. LOW - 1, LIMIT) \cup t[3]
makeBlock(t) == <<high(t), low(t)>>

Fits(t) == \A n \in 1 .. 3 : t[n] \subseteq 0 .. LIMIT - 1
=============================================================================

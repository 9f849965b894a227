-------------------------- MODULE ApproximateCount --------------------------
(***************************************************************************)
(* The one-byte count of the hash store (lmdb_hash_manager): an exponent   *)
(* of 5 in the high four bits and a mantissa in the low four.              *)
(***************************************************************************)
EXTENDS FixedWidth

CONSTANTS
    MaxExponent,  \* the largest exponent that is stored, 15
    MaxShift      \* bound: the most divisions by 5 that a count can take

(* The powers of 5: the table of byte_to_count, and what m has been        *)
(* divided by after so many rounds of the loop of count_to_byte.           *)
Power5[x \in 0 .. MaxShift] == IF x = 0 THEN 1 ELSE 5 * Power5[x - 1]

ASSUME ApproximateAssumption ==
    /\ MaxExponent \in Nat \ {0}
    /\ MaxShift \in Nat
    /\ MaxExponent <= MaxShift
    /\ Size8 \div Power5[MaxShift] <= 19

Mantissa == 0 .. 15

Byte == (0 .. MaxExponent) \X Mantissa

(* The number of times that m is divided by 5 until it is at most 19.      *)
Shift(m) ==
    CHOOSE x \in 0 .. MaxShift :
        /\ m \div Power5[x] <= 19
        /\ \A y \in 0 .. MaxShift : y < x => m \div Power5[y] > 19

(* A faulty variant of the next definition: the mantissa is not shifted by *)
(* 4.                                                                      *)
count_to_byte_NoOffset(count) ==
    LET m0 == Plus64(count, 5)
        x  == Shift(m0)
        m  == m0 \div Power5[x]
    IN <<IF x > MaxExponent THEN MaxExponent ELSE x,
         IF m > 5 THEN m - 5 ELSE 0>>

count_to_byte(count) ==
    LET m0 == Plus64(count, 5)
        x  == Shift(m0)
        m  == m0 \div Power5[x]
    IN <<IF x > MaxExponent THEN MaxExponent ELSE x,
         IF m > 4 THEN m - 4 ELSE 0>>

byte_to_count(b) == ((b[2] + 4) * Power5[b[1]] - 5) % Size8

(* The count that find reports after insert stored count. *)
Approximate(count) == byte_to_count(count_to_byte(count))
=============================================================================

----------------------------- MODULE FixedWidth -----------------------------
(***************************************************************************)
(* The fixed-width numbers of the hash data store.  The code works with    *)
(* uint64_t variables and stores a sub_count in 2 bytes and a count in 4.  *)
(* The widths are parameters, so that TLC can go past every limit; the     *)
(* code's values are Max2 = 0xffff, Half4 = 2^31 and Size8 = 2^64.         *)
(***************************************************************************)
EXTENDS Integers

CONSTANTS
    Max2,    \* the largest number a 2-byte field holds
    Half4,   \* the first value of a 4-byte field whose top bit is set
    Size8    \* the number of values of a uint64_t

ASSUME WidthAssumption ==
    /\ Max2 \in Nat \ {0}
    /\ Half4 \in Nat
    /\ Size8 \in Nat
    /\ Max2 < Half4
    /\ 4 * Half4 <= Size8

(* The largest number a 4-byte field holds, 0xffffffff. *)
Max4 == 2 * Half4 - 1

uint64_t == 0 .. Size8 - 1

(* Unsigned 64-bit addition: it wraps. *)
Plus64(a, b) == (a + b) % Size8

(* "add or clip": the sum that is compared with the limit has already      *)
(* wrapped.                                                                *)
add2(a, b) == IF Plus64(a, b) > Max2 THEN Max2 ELSE Plus64(a, b)

add4(a, b) == IF Plus64(a, b) > Max4 THEN Max4 ELSE Plus64(a, b)

(* A faulty variant of the next definition. *)
put2_NoClip(n) == n

(* The number that the bytes written by put2 and put4 stand for.           *)
put2(n) == IF n > Max2 THEN Max2 ELSE n

put4(n) == IF n > Max4 THEN Max4 ELSE n

(* What get4 reads back.  The four bytes are joined as an int, so when the *)
(* top bit is set the int is negative and its conversion to uint64_t adds  *)
(* 2^64 - 2^32.  (The two bytes of get2 never reach the sign bit: it reads *)
(* the stored number.)                                                     *)
get4(n) == IF n >= Half4 THEN n + (Size8 - 2 * Half4) ELSE n
=============================================================================

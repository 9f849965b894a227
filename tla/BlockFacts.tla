----------------------------- MODULE BlockFacts -----------------------------
(***************************************************************************)
(* What is stored of the contents of a block: its entropy in thousandths   *)
(* (entropy_calculator.hpp) and the label that tells its traits            *)
(* (calculate_block_label.cpp).  A block is a sequence of bytes, a word    *)
(* four of them.                                                           *)
(***************************************************************************)
EXTENDS Integers, SequencesExt

CONSTANTS
    BlockBytes,     \* block_size of the settings
    EntropyTable    \* -p * log2(p) of p = i / slots, in millionths

ASSUME BlockFactsAssumption == BlockBytes \in Nat /\ BlockBytes % 4 = 0

Slots == BlockBytes \div 2

Words == BlockBytes \div 4

(* The bytes of the block that are in the buffer, then zeros. *)
Padded(bytes) ==
    [k \in 1 .. BlockBytes |-> IF k <= Len(bytes) THEN bytes[k] ELSE 0]

-----------------------------------------------------------------------------
(* Entropy.                                                                *)

Element(block, i) == block[2 * i - 1] + 256 * block[2 * i]

calculate_private(block) ==
    LET elements == [i \in 1 .. Slots |-> Element(block, i)]
        bucket(e) == Len(SelectSeq(elements, LAMBDA x : x = e))
    IN (MapThenSumSet(LAMBDA e : EntropyTable[bucket(e)], ToSet(elements))
           + 500) \div 1000

(* What is left of the buffer at the block. *)
calculate(bytes) ==
    IF Len(bytes) >= BlockBytes
    THEN calculate_private(bytes)
    ELSE calculate_private(Padded(bytes)) * 1000

-----------------------------------------------------------------------------
(* Labels.                                                                 *)

Word(block, w) ==
    block[4 * w + 1] + 256 * block[4 * w + 2] + 65536 * block[4 * w + 3]
        + 16777216 * block[4 * w + 4]

(* The loops end before the last pair of words, and before the last word. *)
Pairs == 0 .. Words - 3

ramp_trait(block) ==
    Cardinality({w \in Pairs : Word(block, w) + 1 = Word(block, w + 1)})
        > BlockBytes \div 8

hist_trait(block) ==
    LET hist == {Word(block, w) : w \in 0 .. Words - 2}
    IN \/ Cardinality(hist) < 3
       \/ \E a \in hist :
              Cardinality({w \in 0 .. Words - 2 : Word(block, w) = a})
                  > BlockBytes \div 16

whitespace_trait(block) ==
    Len(SelectSeq(block, LAMBDA b : b \in (9 .. 13) \cup {32}))
        >= (BlockBytes * 3) \div 4

monotonic_trait(block) ==
    LET most(pairs) == 16 * Cardinality(pairs) >= 3 * BlockBytes
    IN \/ most({w \in Pairs : Word(block, w) < Word(block, w + 1)})
       \/ most({w \in Pairs : Word(block, w) > Word(block, w + 1)})
       \/ most({w \in Pairs : Word(block, w) = Word(block, w + 1)})

calculate_block_label_private(block) ==
    {t \in {"R", "H", "W", "M"} :
        \/ t = "R" /\ ramp_trait(block)
        \/ t = "H" /\ hist_trait(block)
        \/ t = "W" /\ whitespace_trait(block)
        \/ t = "M" /\ monotonic_trait(block)}

(* A faulty variant of the next definition. *)
calculate_block_label_Cut(bytes) ==
    calculate_block_label_private(
        IF Len(bytes) >= BlockBytes THEN bytes
        ELSE [k \in 1 .. BlockBytes |->
                 IF k <= Len(bytes) THEN bytes[k] ELSE 32])

calculate_block_label(bytes) ==
    calculate_block_label_private(
        IF Len(bytes) >= BlockBytes THEN bytes ELSE Padded(bytes))
=============================================================================

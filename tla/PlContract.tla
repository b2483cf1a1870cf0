----------------------------- MODULE PlContract -----------------------------
(***************************************************************************)
(* The numbers the PS firmware and the PL agree on: the counterpart of     *)
(* dawn_pl_contract_pkg (hw/rtl/generated) and of pl_config.h.             *)
(***************************************************************************)
EXTENDS Integers

CONSTANTS
    OutputCount,   \* OUTPUT_COUNT, the number of strands: 30 in the product
    MaskWords,     \* MASK_WORD_COUNT, words of a mask of one bit per output
    BankWords,     \* FRAME_WORDS_PER_BANK, the words one bank holds
    SequenceSpace, \* number of values of a 32-bit counter: 2^32 in hardware
    NoBusyBank     \* NO_BUSY_BANK, all ones in hardware

Banks == {0, 1}
Words == 0 .. BankWords
Sequences32 == 0 .. SequenceSpace - 1

ASSUME ContractAssumption ==
    /\ OutputCount \in Nat \ {0}
    /\ MaskWords \in Nat \ {0}
    /\ BankWords \in Nat \ {0}
    /\ SequenceSpace \in Nat /\ SequenceSpace >= 3
    /\ NoBusyBank \notin Banks

UnwrappedIncrement(n) == n + 1

(* A 32-bit counter.                                                       *)
Increment(n) == (n + 1) % SequenceSpace
=============================================================================

-------------------------- MODULE RegisterContract --------------------------
(***************************************************************************)
(* The contract between hardware and software: the parameters of           *)
(* hw/regs/pl_control.rdl and what hw/regs/generate_regs.py derives from   *)
(* them.  A contract is a record of the parameters that decide sizes, and  *)
(* one, `other', that stands for all those only copied (addresses, ports,  *)
(* lwIP defaults).                                                         *)
(***************************************************************************)
EXTENDS Integers

\* Offsets of pl_control.rdl that do not depend on a parameter.
StrandPixelCountOffset == 132   \* 12'h084, an array of one word per output
ConfigStatusOffset == 252       \* 12'h0fc
ClampedWords == 1               \* STRAND_LENGTH_CLAMPED[1]
OutputInvertMaskOffset == 260   \* 12'h104

\* ceil_log2: the loop doubles the limit until it reaches the value.
CeilLog2(value) ==
    LET grow[width \in 0 .. 31] ==
            IF 2 ^ width >= value THEN width ELSE grow[width + 1]
    IN  grow[0]

\* Mutated: as many values as outputs, the count of all of them is not one.
ActiveOutputWidthShort(c) == CeilLog2(c.outputs)

ActiveOutputWidth(c) == CeilLog2(c.outputs + 1)

MaskWordCount(c) == (c.outputs + 31) \div 32

ControlSize(c) == OutputInvertMaskOffset + 4 * MaskWordCount(c)

\* read_config_and_regs: the derived part of the configuration.
Config(c) ==
    LET bankWords == c.outputs * c.pixels
    IN  [ FRAME_WORDS_PER_BANK |-> bankWords,
          FRAME_WORDS          |-> c.banks * bankWords,
          FRAME_BYTES          |-> 4 * c.banks * bankWords,
          CONTROL_ADDR_WIDTH   |-> CeilLog2(c.controlRange),
          FRAME_ADDR_WIDTH     |-> CeilLog2(c.ramRange),
          MASK_WORD_COUNT      |-> MaskWordCount(c),
          OUTPUT_INDEX_WIDTH   |-> CeilLog2(c.outputs),
          ACTIVE_OUTPUT_WIDTH  |-> ActiveOutputWidth(c),
          PIXEL_COUNT_WIDTH    |-> CeilLog2(c.pixels + 1) ]

\* The SystemRDL compiler refuses registers that overlap.
Elaborates(c) == StrandPixelCountOffset + 4 * c.outputs <= ConfigStatusOffset

\* The require()s that depend on a parameter.
Required(c) ==
    /\ c.controlRange > 0
    /\ ControlSize(c) <= c.controlRange
    /\ c.ramRange >= Config(c).FRAME_BYTES
    /\ ClampedWords = MaskWordCount(c)

Accepted(c) == Elaborates(c) /\ Required(c)

\* The contract of the repository, as ps/tools/generated/pl_config.py has it.
Committed ==
    [ outputs |-> 30, pixels |-> 1024, banks |-> 2,
      controlRange |-> 4096, ramRange |-> 262144, other |-> 1 ]

CommittedConfig ==
    [ FRAME_WORDS_PER_BANK |-> 30720, FRAME_WORDS |-> 61440,
      FRAME_BYTES |-> 245760, CONTROL_ADDR_WIDTH |-> 12,
      FRAME_ADDR_WIDTH |-> 18, MASK_WORD_COUNT |-> 1,
      OUTPUT_INDEX_WIDTH |-> 5, ACTIVE_OUTPUT_WIDTH |-> 5,
      PIXEL_COUNT_WIDTH |-> 11 ]

(***************************************************************************)
(* The parameters of a contract.  The windows are as large as the 1 GiB    *)
(* that a general-purpose port of the PS reaches, and no count is larger.  *)
(***************************************************************************)
Parameters ==
    [ outputs : 0 .. 2 ^ 30 - 1, pixels : 0 .. 2 ^ 30 - 1, banks : Nat,
      controlRange : 0 .. 2 ^ 30, ramRange : 0 .. 2 ^ 30, other : Nat ]

\* The derivation gives what the generated files of the repository contain.
ASSUME DerivedAsCommitted ==
    /\ Committed \in Parameters
    /\ Accepted(Committed) /\ Config(Committed) = CommittedConfig

(***************************************************************************)
(* What the RTL needs of the derived numbers: every word of every bank has *)
(* an address in the aperture, every count including the full one and      *)
(* every index has enough bits, every output has its bit in a mask.        *)
(***************************************************************************)
Fits(c) ==
    LET config == Config(c)
    IN  /\ 4 * config.FRAME_WORDS <= 2 ^ config.FRAME_ADDR_WIDTH
        /\ ControlSize(c) <= 2 ^ config.CONTROL_ADDR_WIDTH
        /\ c.outputs < 2 ^ config.ACTIVE_OUTPUT_WIDTH
        /\ c.outputs - 1 < 2 ^ config.OUTPUT_INDEX_WIDTH
        /\ c.pixels < 2 ^ config.PIXEL_COUNT_WIDTH
        /\ c.outputs <= 32 * config.MASK_WORD_COUNT

=============================================================================

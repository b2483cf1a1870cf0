-------------------------- MODULE WsFrameConsumer ---------------------------
(***************************************************************************)
(* The transmit state machine of hw/rtl/ws281x_frame_consumer.sv.          *)
(*                                                                         *)
(* It picks the committed frame when it is idle, spends one cycle per      *)
(* output on the strand configuration, validates the frame, and only then  *)
(* publishes in consumer_active_bank the bank it is going to read.         *)
(*                                                                         *)
(* One step is one rising edge of aclk.  How many cycles a word, the reset *)
(* interval or a memory read takes is left open: a cycle of TX_LOAD_FIRST, *)
(* TX_SEND or TX_RESET either makes progress or waits.  The frame is the   *)
(* words 0 .. tx_words - 1 of its bank, fetched one at a time.  The inputs *)
(* are parameters, as they are ports of the module.                        *)
(***************************************************************************)
EXTENDS PlContract

CONSTANT ReadFaults \* whether a read may fail or the next pixel be late

ASSUME ConsumerAssumption == ReadFaults \in BOOLEAN

VARIABLES
    tx_state,             \* tx_state_reg
    tx_sequence,          \* tx_sequence_reg
    tx_active_bank,       \* tx_active_bank_reg
    tx_words,             \* frame_required_words_reg, once the scan is done
    config_scan,          \* config_scan_output_reg
    fetched,              \* words of the frame read from the bank so far
    line,                 \* the values of those words: what the lamps get
    consumer_sequence,    \* the last frame completed (or found invalid)
    consumer_active_bank, \* the bank published as busy
    error_pulse           \* one cycle high after an error

consumerVars == <<tx_state, tx_sequence, tx_active_bank, tx_words,
                  config_scan, fetched, line, consumer_sequence,
                  consumer_active_bank, error_pulse>>

Scanning == {"TX_COMPUTE_CONFIG", "TX_VALIDATE"}
Reading == {"TX_LOAD_FIRST", "TX_SEND", "TX_RESET", "TX_ERROR"}
TxStates == {"TX_IDLE"} \cup Scanning \cup Reading

ConsumerInit ==
    /\ tx_state = "TX_IDLE"
    /\ tx_sequence = 0
    /\ tx_active_bank = 0
    /\ tx_words = 0
    /\ config_scan = 0
    /\ fetched = 0
    /\ line = {}
    /\ consumer_sequence = 0
    /\ consumer_active_bank = NoBusyBank
    /\ error_pulse = FALSE

-----------------------------------------------------------------------------
(* A cycle in which no branch assigns the state or the busy bank: the      *)
(* reset pulse shows.  A branch that assigns one of them overrides it.     *)
HoldState(resetPulse) == tx_state' = IF resetPulse THEN "TX_IDLE" ELSE tx_state

HoldBusyBank(resetPulse) ==
    consumer_active_bank' = IF resetPulse THEN NoBusyBank ELSE consumer_active_bank

HoldFrame == UNCHANGED <<tx_sequence, tx_active_bank, tx_words>>

RaiseNoError == error_pulse' = FALSE

(* TX_IDLE: pick the last committed frame unless it was already shown.     *)
TxIdle(enabled, resetPulse, activeBank, frameSequence, runtimeWords) ==
    /\ tx_state = "TX_IDLE"
    /\ IF enabled /\ frameSequence # consumer_sequence
       THEN /\ tx_state' = "TX_COMPUTE_CONFIG"
            /\ tx_sequence' = frameSequence
            /\ tx_active_bank' = activeBank
            /\ tx_words' = runtimeWords
            /\ config_scan' = 0
            /\ fetched' = 0
            /\ line' = {}
       ELSE UNCHANGED <<tx_state, tx_sequence, tx_active_bank, tx_words,
                        config_scan, fetched, line>>
    /\ HoldBusyBank(resetPulse)
    /\ RaiseNoError
    /\ UNCHANGED consumer_sequence

(* TX_COMPUTE_CONFIG: one output per cycle.                                *)
TxComputeConfig(resetPulse) ==
    /\ tx_state = "TX_COMPUTE_CONFIG"
    /\ IF config_scan = OutputCount - 1
       THEN tx_state' = "TX_VALIDATE" /\ UNCHANGED config_scan
       ELSE HoldState(resetPulse) /\ config_scan' = config_scan + 1
    /\ HoldBusyBank(resetPulse)
    /\ RaiseNoError
    /\ HoldFrame
    /\ UNCHANGED <<fetched, line, consumer_sequence>>

(* Mutant: a validated frame whose bank is not published as busy.          *)
TxValidateUnpublished(committedWords) ==
    /\ tx_state = "TX_VALIDATE"
    /\ tx_state' = "TX_LOAD_FIRST"
    /\ RaiseNoError
    /\ HoldFrame
    /\ UNCHANGED <<config_scan, fetched, line, consumer_sequence,
                   consumer_active_bank>>

(* TX_VALIDATE: compare the committed words of this moment, not those of   *)
(* the pick, with what the latched configuration needs.                    *)
TxValidate(committedWords) ==
    /\ tx_state = "TX_VALIDATE"
    /\ IF committedWords >= tx_words
       THEN /\ consumer_active_bank' = tx_active_bank
            /\ tx_state' = IF tx_words = 0 THEN "TX_RESET" ELSE "TX_LOAD_FIRST"
            /\ RaiseNoError
            /\ UNCHANGED consumer_sequence
       ELSE /\ consumer_sequence' = tx_sequence
            /\ tx_state' = "TX_IDLE"
            /\ error_pulse' = TRUE
            /\ UNCHANGED consumer_active_bank
    /\ HoldFrame
    /\ UNCHANGED <<config_scan, fetched, line>>

(* TX_LOAD_FIRST and TX_SEND fetch words; TX_SEND ends after the last one. *)
TxFetch(resetPulse, bankWords) ==
    /\ tx_state \in {"TX_LOAD_FIRST", "TX_SEND"}
    /\ fetched < tx_words
    /\ line' = line \cup {bankWords[tx_active_bank][fetched]}
    /\ fetched' = fetched + 1
    /\ IF tx_state = "TX_LOAD_FIRST"
       THEN tx_state' = "TX_SEND"
       ELSE HoldState(resetPulse)

TxSent ==
    /\ tx_state = "TX_SEND"
    /\ fetched = tx_words
    /\ tx_state' = "TX_RESET"
    /\ UNCHANGED <<fetched, line>>

TxTransmit(resetPulse, bankWords) ==
    /\ \/ TxFetch(resetPulse, bankWords)
       \/ TxSent
       \/ /\ tx_state \in {"TX_LOAD_FIRST", "TX_SEND"}
          /\ HoldState(resetPulse)
          /\ UNCHANGED <<fetched, line>>
    /\ HoldBusyBank(resetPulse)
    /\ RaiseNoError
    /\ HoldFrame
    /\ UNCHANGED <<config_scan, consumer_sequence>>

(* A read answered with an error, or a pixel that is not there in time.    *)
TxFault(resetPulse) ==
    /\ ReadFaults
    /\ tx_state \in {"TX_LOAD_FIRST", "TX_SEND"}
    /\ tx_state' = "TX_ERROR"
    /\ error_pulse' = TRUE
    /\ HoldBusyBank(resetPulse)
    /\ HoldFrame
    /\ UNCHANGED <<config_scan, fetched, line, consumer_sequence>>

(* Mutant: the frame is released without being recorded as shown.          *)
TxResetUnrecorded(resetPulse) ==
    /\ tx_state = "TX_RESET"
    /\ \/ tx_state' = "TX_IDLE" /\ consumer_active_bank' = NoBusyBank
       \/ HoldState(resetPulse) /\ HoldBusyBank(resetPulse)
    /\ RaiseNoError
    /\ HoldFrame
    /\ UNCHANGED <<config_scan, fetched, line, consumer_sequence>>

(* TX_RESET: hold the lines low, then record the frame as shown.           *)
TxReset(resetPulse) ==
    /\ tx_state = "TX_RESET"
    /\ \/ /\ tx_state' = "TX_IDLE"
          /\ consumer_sequence' = tx_sequence
          /\ consumer_active_bank' = NoBusyBank
       \/ /\ HoldState(resetPulse)
          /\ HoldBusyBank(resetPulse)
          /\ UNCHANGED consumer_sequence
    /\ RaiseNoError
    /\ HoldFrame
    /\ UNCHANGED <<config_scan, fetched, line>>

(* TX_ERROR: release the bank; consumer_sequence keeps its value, so the   *)
(* frame is picked again.  The read a late pixel waited for may still be   *)
(* answered with an error in this cycle.                                   *)
TxError ==
    /\ tx_state = "TX_ERROR"
    /\ tx_state' = "TX_IDLE"
    /\ consumer_active_bank' = NoBusyBank
    /\ error_pulse' \in {FALSE, ReadFaults}
    /\ HoldFrame
    /\ UNCHANGED <<config_scan, fetched, line, consumer_sequence>>

ConsumerClock(enabled, resetPulse, activeBank, committedWords, frameSequence, runtimeWords, bankWords) ==
    \/ TxIdle(enabled, resetPulse, activeBank, frameSequence, runtimeWords)
    \/ TxComputeConfig(resetPulse)
    \/ TxValidate(committedWords)
    \/ TxTransmit(resetPulse, bankWords)
    \/ TxFault(resetPulse)
    \/ TxReset(resetPulse)
    \/ TxError
=============================================================================

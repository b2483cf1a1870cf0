---------------------------- MODULE WsController ----------------------------
(***************************************************************************)
(* The PL as hw/rtl/ws281x_controller_core.v wires it: the register block, *)
(* the consumer and the dual-port frame memory between writer and consumer.*)
(* PlClock is one clock edge of everything in it except the bus, which the *)
(* modules of the bus masters add.                                         *)
(***************************************************************************)
EXTENDS PlFrameControl, WsFrameConsumer

CONSTANTS
    Frames,     \* what a word can hold: the frame it belongs to
    NoFrame,    \* the content of the memory before anything is written
    FrameWords  \* words the strand configuration of the PL requires

ASSUME ControllerAssumption ==
    /\ FrameWords \in 1 .. BankWords
    /\ NoFrame \notin Frames

VARIABLE ram \* the frame memory: bank and word to content

plVars == <<controlVars, consumerVars, ram>>

RamInit == ram = [b \in Banks |-> [w \in 0 .. BankWords - 1 |-> NoFrame]]

RamWrite(bank, word, value) == ram' = [ram EXCEPT ![bank][word] = value]

PlInit == ControlInit /\ ConsumerInit /\ RamInit

PlClock ==
    /\ ControlClock(consumer_active_bank, error_pulse)
    /\ ConsumerClock(enable, reset_pulse, active_bank, committed_words,
                     frame_sequence, FrameWords, ram)

PlTypeOK ==
    /\ ControlTypeOK
    /\ tx_state \in TxStates
    /\ tx_sequence \in Sequences32
    /\ tx_active_bank \in Banks
    /\ tx_words \in Words
    /\ config_scan \in 0 .. OutputCount - 1
    /\ fetched \in Words
    /\ line \in SUBSET (Frames \cup {NoFrame})
    /\ consumer_sequence \in Sequences32
    /\ consumer_active_bank \in Banks \cup {NoBusyBank}
    /\ error_pulse \in BOOLEAN
    /\ ram \in [Banks -> [0 .. BankWords - 1 -> Frames \cup {NoFrame}]]
=============================================================================

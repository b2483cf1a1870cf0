--------------------------- MODULE PlFrameControl ---------------------------
(***************************************************************************)
(* The frame control register block of the programmable logic              *)
(* (hw/rtl/pl_frame_control.sv): the bank the writer may fill, the bank    *)
(* the consumer shows, and the handshake that commits a frame.             *)
(*                                                                         *)
(* One step of ControlClock is one rising edge of aclk; a primed variable  *)
(* is the value a register holds in the next cycle.  RegisterWrite is the  *)
(* bus write the AXI front end dispatches in the same cycle: its fields    *)
(* and its swmod strobe are visible one cycle later, its effect two.       *)
(*                                                                         *)
(* Left out: the telemetry registers nothing in the handshake reads        *)
(* (COUNTER, ERROR_COUNT, FRAME_DROPPED, the first and last frame words),  *)
(* FRAME_COUNT, which is incremented wherever FRAME_SEQUENCE is, and the   *)
(* strand configuration, which keeps its reset value here.                 *)
(***************************************************************************)
EXTENDS PlContract

VARIABLES
    status,          \* status_reg: READY alone, or READY and one error flag
    consumer_error,  \* consumer_error_sticky_reg
    active_bank,     \* active_bank_reg: the bank of the last accepted frame
    frame_sequence,  \* frame_sequence_reg
    committed_words, \* committed_words_reg
    frame_rejected,  \* frame_rejected_reg
    commit_swmod,    \* FRAME_COMMIT was written in the previous cycle
    commit_bank,     \* the FRAME_COMMIT.bank field
    commit_words,    \* the FRAME_COMMIT.word_count field
    clear_swmod,     \* CONTROL.clear_errors was written in the previous cycle
    reset_swmod,     \* CONSUMER_CONTROL.reset_fsm was written there
    reset_pulse,     \* consumer_reset_pulse, a wire to the consumer
    enable           \* CONSUMER_CONTROL.enable, a wire to the consumer

fieldVars == <<commit_swmod, commit_bank, commit_words, clear_swmod,
               reset_swmod, enable>>
controlVars == <<status, consumer_error, active_bank, frame_sequence,
                 committed_words, frame_rejected, reset_pulse, fieldVars>>

Statuses == {"READY", "OVERFLOW", "CONSUMER_ERROR", "COMMIT_REJECTED"}

ControlTypeOK ==
    /\ status \in Statuses
    /\ consumer_error \in BOOLEAN
    /\ active_bank \in Banks
    /\ frame_sequence \in Sequences32
    /\ committed_words \in Words
    /\ frame_rejected \in Sequences32
    /\ commit_swmod \in BOOLEAN
    /\ commit_bank \in Banks
    /\ commit_words \in Nat
    /\ clear_swmod \in BOOLEAN
    /\ reset_swmod \in BOOLEAN
    /\ reset_pulse \in BOOLEAN
    /\ enable \in BOOLEAN

ControlInit ==
    /\ status = "READY"
    /\ consumer_error = FALSE
    /\ active_bank = 0
    /\ frame_sequence = 0
    /\ committed_words = 0
    /\ frame_rejected = 0
    /\ commit_swmod = FALSE /\ commit_bank = 0 /\ commit_words = 0
    /\ clear_swmod = FALSE
    /\ reset_swmod = FALSE
    /\ reset_pulse = FALSE
    /\ enable = FALSE

-----------------------------------------------------------------------------
(* The two wires the writer decides from.                                  *)

WriteBank == 1 - active_bank

WriteBankValid(busyBank) ==
    busyBank = NoBusyBank \/ busyBank # WriteBank

-----------------------------------------------------------------------------
(* The fields a bus write changes.  "NONE" is a cycle without a write, or  *)
(* with a write to a register this module leaves out.                      *)
RegisterWrite(register, bank, words) ==
    /\ commit_swmod' = (register = "FRAME_COMMIT")
    /\ IF register = "FRAME_COMMIT"
       THEN commit_bank' = bank /\ commit_words' = words
       ELSE UNCHANGED <<commit_bank, commit_words>>
    /\ clear_swmod' = (register = "CLEAR_ERRORS")
    /\ reset_swmod' = (register = "RESET_FSM")
    /\ enable' = CASE register = "ENABLE"    -> TRUE
                   [] register = "RESET_FSM" -> FALSE
                   [] OTHER                  -> enable

(* A commit is accepted when its word count fits, it names the bank that   *)
(* is not active, and the consumer is not reading that bank.               *)
CommitFits == commit_words <= BankWords

CommitAccepted(busyBank) ==
    /\ commit_swmod
    /\ CommitFits
    /\ commit_bank = WriteBank
    /\ WriteBankValid(busyBank)

CommitRefused(busyBank) == commit_swmod /\ ~CommitAccepted(busyBank)

(* The registers an accepted commit moves, all at the same clock edge.     *)
CommitFrame(busyBank) ==
    IF CommitAccepted(busyBank)
    THEN /\ active_bank' = commit_bank
         /\ frame_sequence' = Increment(frame_sequence)
         /\ committed_words' = commit_words
    ELSE UNCHANGED <<active_bank, frame_sequence, committed_words>>

(* One clock edge.  The later assignment of a cycle wins, so a refused     *)
(* commit hides a consumer error, which hides a clear.                     *)
ControlClock(busyBank, errorPulse) ==
    /\ CommitFrame(busyBank)
    /\ status' = CASE CommitRefused(busyBank) /\ ~CommitFits -> "OVERFLOW"
                   [] CommitRefused(busyBank) /\ CommitFits  -> "COMMIT_REJECTED"
                   [] ~CommitRefused(busyBank) /\ errorPulse -> "CONSUMER_ERROR"
                   [] ~CommitRefused(busyBank) /\ ~errorPulse ->
                        IF clear_swmod THEN "READY" ELSE status
    /\ consumer_error' = (errorPulse \/ (consumer_error /\ ~clear_swmod))
    /\ frame_rejected' = IF CommitRefused(busyBank) /\ CommitFits
                         THEN Increment(frame_rejected) ELSE frame_rejected
    /\ reset_pulse' = reset_swmod
=============================================================================

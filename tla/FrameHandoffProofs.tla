------------------------- MODULE FrameHandoffProofs -------------------------
(***************************************************************************)
(* Proofs about FrameHandoff, for every number of outputs, every bank and  *)
(* frame size, every number of tries and with faults of the consumer.      *)
(***************************************************************************)
EXTENDS FrameHandoff, TLAPS

(* The inductive invariant.                                                *)

(* The consumer is enabled only when the boot sequence is over, rests      *)
(* until then, and sees the reset pulse only while it rests.               *)
Booting == {"init", "clear", "self_test", "reset_fsm", "clear_errors", "enable"}

BootInv ==
    /\ enable => pc \notin Booting /\ call.name = "frame"
    /\ ~enable => tx_state = "TX_IDLE"
    /\ pc \in Booting => call.name = "frame"
    /\ reset_swmod => pc = "clear_errors"
    /\ reset_pulse => pc \in {"clear_errors", "enable"}

BusyInv ==
    consumer_active_bank =
        IF tx_state \in Reading THEN tx_active_bank ELSE NoBusyBank

(* A commit on its way is the one the driver wrote last.                   *)
LandInv ==
    commit_swmod => /\ pc = "after" /\ step = 0
                    /\ commit_bank = before.bank
                    /\ commit_words = call.words

(* Cycles since the consumer picked a frame whose bank is not yet busy.    *)
ScanAge ==
    IF tx_state = "TX_COMPUTE_CONFIG" THEN config_scan + 1 ELSE OutputCount + 1

(* The window: a frame was picked, a newer commit took effect before its   *)
(* bank was published.  The driver is then in the snapshot that follows    *)
(* the commit, no further than the cycles since, and that snapshot reads   *)
(* more registers than the scan has cycles.                                *)
ScanInv ==
    tx_state \in Scanning /\ tx_active_bank # active_bank
        => pc = "after" /\ ~commit_swmod /\ step <= ScanAge

OwnInv ==
    /\ pc \in {"before", "wait"} /\ step >= WriteBankRead => before.bank = WriteBank
    /\ Owning => /\ before.bank = WriteBank
                 /\ tx_state # "TX_IDLE" => tx_active_bank = active_bank

HandshakeInv ==
    /\ TypeOK
    /\ BootInv
    /\ BusyInv
    /\ LandInv
    /\ ScanInv
    /\ OwnInv
    /\ CommitNeverRefused

(* What is in the memory: the driver's frame as far as it has come, the    *)
(* accepted frame in the active bank and in the bank being read.           *)
Holds(bank, words, frame) == \A w \in 0 .. words - 1 : ram[bank][w] = frame

WrittenInv ==
    /\ pc = "write" => Holds(before.bank, step, call.frame)
    /\ pc \in {"markers", "readback", "commit"} \/ commit_swmod
         => Holds(before.bank, call.words, call.frame)

CommittedInv == Holds(active_bank, committed_words, accepted[active_bank])

(* The strand configuration needs as many words as every frame the         *)
(* consumer may pick has: the one committed last before it was enabled,    *)
(* as the second snapshot confirmed, and all that follow.                  *)
WordsInv ==
    /\ pc \in Committing /\ call.name # "self_test" => call.words = FrameWords
    /\ pc = "after" /\ step >= CommittedWordsRead => after.words = committed_words
    /\ enable \/ pc \in {"reset_fsm", "clear_errors", "enable"}
         => committed_words = FrameWords

ReadInv ==
    /\ tx_state # "TX_IDLE" =>
         /\ tx_words = FrameWords
         /\ Holds(tx_active_bank, tx_words, accepted[tx_active_bank])
    /\ tx_state \in Scanning => line = {}
    /\ NoTornFrame

ContentInv == HandshakeInv /\ WrittenInv /\ CommittedInv /\ WordsInv /\ ReadInv

(* Without faults of the consumer there is no error to raise or to read.   *)
FaultFreeInv ==
    /\ status = "READY" /\ ~consumer_error /\ ~error_pulse
    /\ before.status = "READY" /\ after.status = "READY"
    /\ tx_state # "TX_ERROR"

(* Which frame the consumer picked.  A driver that owns a bank has no      *)
(* frame waiting: WRITE_BANK_VALID was read as one when the consumer had   *)
(* picked the last frame, or was idle and picks it in that very cycle.     *)
PickedInv ==
    /\ tx_state # "TX_IDLE" /\ tx_active_bank = active_bank
         => frame_sequence = tx_sequence
    /\ Owning /\ enable => frame_sequence = LastPicked
    /\ accepted[active_bank] = NoFrame
         => tx_state = "TX_IDLE" /\ frame_sequence = consumer_sequence
    /\ tx_state # "TX_IDLE" => accepted[tx_active_bank] # NoFrame
    /\ tx_state \in {"TX_SEND", "TX_RESET"} => line # {}

(* What the two snapshots of a commit hold: nothing but the commit itself  *)
(* changes the registers they compare.                                     *)
ConfirmInv ==
    /\ (\/ pc = "before" /\ step >= FrameSequenceRead
        \/ pc \in {"wait", "write", "markers", "readback", "commit"}
        \/ commit_swmod)
         => before.sequence = frame_sequence
    /\ pc = "after" /\ ~commit_swmod =>
         /\ frame_sequence = Increment(before.sequence)
         /\ active_bank = before.bank
         /\ committed_words = call.words
    /\ pc = "after" =>
         /\ step >= ActiveBankRead => after.active = active_bank
         /\ step >= WriteBankRead => after.bank = WriteBank
         /\ step >= FrameSequenceRead => after.sequence = frame_sequence
    /\ before.rejected = 0 /\ after.rejected = 0

(* The commits of the boot are the first, and find a free bank.            *)
BootCommitInv ==
    /\ pc \in {"init", "clear"} => frame_sequence = 0
    /\ call.name = "self_test" =>
         /\ call.words = SelfTestWords
         /\ before.sequence = 0
         /\ pc # "after" \/ commit_swmod => frame_sequence = 0
    /\ pc = "self_test" =>
         frame_sequence = Increment(0) /\ committed_words = SelfTestWords
    /\ call.name # "frame" =>
         /\ pc \notin {"wait", "drop"}
         /\ pc = "before" /\ step >= WriteBankValidRead => before.valid
    /\ pc = "check_consumer" => enable

ChannelInv ==
    /\ ContentInv
    /\ FaultFreeInv
    /\ PickedInv
    /\ ConfirmInv
    /\ BootCommitInv
    /\ OnlyFullBanksFail

-----------------------------------------------------------------------------
USE DEF Banks, Words, Sequences32

(* A 32-bit counter stays one when it is incremented.                      *)
LEMMA IncrementType ==
    ASSUME NEW n \in Sequences32
    PROVE  Increment(n) \in Sequences32
<1>1. CASE n + 1 < SequenceSpace
  BY <1>1, ContractAssumption, Z3 DEF Increment, ContractAssumption
<1>2. CASE n + 1 = SequenceSpace
  BY <1>2, ContractAssumption, Z3 DEF Increment, ContractAssumption
<1>3. QED
  BY <1>1, <1>2, ContractAssumption DEF ContractAssumption

(* A snapshot in the making is a snapshot.                                 *)
LEMMA CaptureType ==
    ASSUME TypeOK, NEW s \in Snapshots, NEW n \in Nat
    PROVE  Capture(s, n) \in Snapshots
<1>1. /\ status \in Statuses
      /\ active_bank \in Banks
      /\ WriteBank \in Banks
      /\ WriteBankValid(consumer_active_bank) \in BOOLEAN
      /\ frame_sequence \in Sequences32
      /\ committed_words \in Words
      /\ frame_rejected \in Sequences32
  BY DEF TypeOK, PlTypeOK, ControlTypeOK, WriteBank, WriteBankValid
<1>2. QED
  BY <1>1 DEF Snapshots, Capture, StatusRead, ActiveBankRead, WriteBankRead,
     WriteBankValidRead, FrameSequenceRead, CommittedWordsRead, FrameRejectedRead

(* The registers of the control block after a clock edge.                  *)
LEMMA ControlTypeStep ==
    ASSUME TypeOK, NEW register, NEW bank \in Banks, NEW words \in Nat,
           RegisterWrite(register, bank, words),
           ControlClock(consumer_active_bank, error_pulse)
    PROVE  ControlTypeOK'
<1> USE DEF TypeOK, PlTypeOK, ControlTypeOK
<1>1. /\ commit_swmod' \in BOOLEAN
      /\ commit_bank' \in Banks
      /\ commit_words' \in Nat
      /\ clear_swmod' \in BOOLEAN
      /\ reset_swmod' \in BOOLEAN
      /\ enable' \in BOOLEAN
  BY DEF RegisterWrite
<1>2. /\ active_bank' \in Banks
      /\ frame_sequence' \in Sequences32
      /\ committed_words' \in Words
  <2>1. CommitFrame(consumer_active_bank)
    BY DEF ControlClock
  <2>2. Increment(frame_sequence) \in Sequences32
    BY IncrementType
  <2>3. CASE CommitAccepted(consumer_active_bank)
    <3>1. commit_words \in Words
      BY <2>3, ContractAssumption
         DEF CommitAccepted, CommitFits, Words, ContractAssumption
    <3>2. QED
      BY <2>1, <2>2, <2>3, <3>1 DEF CommitFrame
  <2>4. CASE ~CommitAccepted(consumer_active_bank)
    BY <2>1, <2>4 DEF CommitFrame
  <2>5. QED
    BY <2>3, <2>4
<1>3. status' \in Statuses
  BY DEF ControlClock, Statuses
<1>4. consumer_error' \in BOOLEAN /\ reset_pulse' \in BOOLEAN
  BY Zenon DEF ControlClock
<1>5. frame_rejected' \in Sequences32
  BY IncrementType DEF ControlClock
<1>6. QED
  BY <1>1, <1>2, <1>3, <1>4, <1>5

(* The consumer after a clock edge.                                        *)
LEMMA ConsumerTypeStep ==
    ASSUME TypeOK,
           ConsumerClock(enable, reset_pulse, active_bank, committed_words,
                         frame_sequence, FrameWords, ram)
    PROVE  /\ tx_state' \in TxStates
           /\ tx_sequence' \in Sequences32
           /\ tx_active_bank' \in Banks
           /\ tx_words' \in Words
           /\ config_scan' \in 0 .. OutputCount - 1
           /\ fetched' \in Words
           /\ line' \in SUBSET (Frames \cup {NoFrame})
           /\ consumer_sequence' \in Sequences32
           /\ consumer_active_bank' \in Banks \cup {NoBusyBank}
           /\ error_pulse' \in BOOLEAN
<1> USE ContractAssumption, ControllerAssumption
    DEF TypeOK, PlTypeOK, ControlTypeOK, TxStates, Scanning, Reading,
        HoldState, HoldBusyBank, HoldFrame, RaiseNoError,
        ContractAssumption, ControllerAssumption
<1>1. CASE TxIdle(enable, reset_pulse, active_bank, frame_sequence, FrameWords)
  <2>1. FrameWords \in Words /\ 0 \in Words /\ 0 \in 0 .. OutputCount - 1
    OBVIOUS
  <2>2. CASE enable /\ frame_sequence # consumer_sequence
    BY <1>1, <2>1, <2>2 DEF TxIdle
  <2>3. CASE ~(enable /\ frame_sequence # consumer_sequence)
    BY <1>1, <2>3 DEF TxIdle
  <2>4. QED
    BY <2>2, <2>3
<1>2. CASE TxComputeConfig(reset_pulse)
  <2>1. config_scan' \in 0 .. OutputCount - 1
    BY <1>2 DEF TxComputeConfig
  <2>2. QED
    BY <1>2, <2>1 DEF TxComputeConfig
<1>3. CASE TxValidate(committed_words)
  BY <1>3 DEF TxValidate
<1>4. CASE TxTransmit(reset_pulse, ram)
  <2>1. CASE TxFetch(reset_pulse, ram)
    <3>1. fetched \in 0 .. BankWords - 1
      BY <2>1 DEF TxFetch
    <3>2. ram[tx_active_bank][fetched] \in Frames \cup {NoFrame}
      BY <3>1
    <3>3. fetched' \in Words /\ line' \in SUBSET (Frames \cup {NoFrame})
      BY <2>1, <3>1, <3>2 DEF TxFetch
    <3>4. QED
      BY <1>4, <2>1, <3>3 DEF TxTransmit, TxFetch
  <2>2. CASE ~TxFetch(reset_pulse, ram)
    BY <1>4, <2>2 DEF TxTransmit, TxSent
  <2>3. QED
    BY <2>1, <2>2
<1>5. CASE TxFault(reset_pulse)
  BY <1>5 DEF TxFault
<1>6. CASE TxReset(reset_pulse)
  BY <1>6 DEF TxReset
<1>7. CASE TxError
  <2>1. error_pulse' \in BOOLEAN
    BY <1>7, ConsumerAssumption, Zenon DEF TxError, ConsumerAssumption
  <2>2. QED
    BY <1>7, <2>1 DEF TxError
<1>8. QED
  BY <1>1, <1>2, <1>3, <1>4, <1>5, <1>6, <1>7 DEF ConsumerClock

(* What the driver does in a step, apart from its own variables: one write *)
(* to a register, or none, and one write to the memory, or none.           *)
LEMMA PsBusStep ==
    ASSUME TypeOK, Next
    PROVE  /\ \E register, bank, words :
                 /\ bank \in Banks /\ words \in Nat
                 /\ RegisterWrite(register, bank, words)
           /\ ram' \in [Banks -> [0 .. BankWords - 1 -> Frames \cup {NoFrame}]]
           /\ Clock
<1> USE DEF TypeOK, PlTypeOK, PsTypeOK, Access
<1>1. CASE PsStall /\ Clock
  BY <1>1 DEF PsStall
<1>2. CASE CommitFrameCall /\ Clock
  BY <1>2 DEF CommitFrameCall
<1>3. CASE SnapshotRead /\ Clock
  BY <1>3 DEF SnapshotRead
<1>4. CASE (InitEnd \/ BeforeEnd \/ WaitEnd \/ AfterEnd) /\ Clock
  BY <1>4 DEF InitEnd, BeforeEnd, WaitEnd, AfterEnd, LastSnapshotRead
<1>5. CASE (ClearErrors \/ SelfTestEnd \/ EnableConsumer) /\ Clock
  BY <1>5 DEF ClearErrors, SelfTestEnd, EnableConsumer, BootWrite
<1>6. CASE (NotifyDrop \/ WriteMarker \/ ReadBack) /\ Clock
  BY <1>6 DEF NotifyDrop, WriteMarker, ReadBack
<1>7. CASE WriteWord /\ Clock
  <2>1. /\ before.bank \in Banks
        /\ step \in 0 .. BankWords - 1
        /\ call.frame \in Frames \cup {NoFrame}
    BY <1>7, ContractAssumption DEF WriteWord, Snapshots, ContractAssumption
  <2>2. QED
    BY <1>7, <2>1 DEF WriteWord, RamWrite
<1>8. CASE WriteCommit /\ Clock
  <2>1. before.bank \in Banks /\ call.words \in Nat
    BY ContractAssumption DEF Snapshots, ContractAssumption
  <2>2. QED
    BY <1>8, <2>1 DEF WriteCommit
<1>9. QED
  BY <1>1, <1>2, <1>3, <1>4, <1>5, <1>6, <1>7, <1>8 DEF Next

-----------------------------------------------------------------------------
(* The driver's variables.                                                 *)

(* A snapshot is longer than its last read that a decision looks at.       *)
LEMMA SnapshotLength ==
    /\ SnapshotReads \in Nat
    /\ SnapshotReads >= 23 + OutputCount
BY ContractAssumption DEF SnapshotReads, ContractAssumption

LEMMA BlankSnapshotType == BlankSnapshot \in Snapshots
BY ContractAssumption
   DEF BlankSnapshot, Snapshots, Statuses, ContractAssumption

(* Returning to the caller leaves the driver's variables well typed.       *)
LEMMA ReturnType ==
    ASSUME TypeOK, NEW r \in Results, Return(r)
    PROVE  PsTypeOK'
<1>1. /\ pc' \in {"main", "self_test", "reset_fsm", "fatal"}
      /\ step' = 0
      /\ tries' = 0
      /\ call' = NoCall
      /\ before' = BlankSnapshot
      /\ after' = BlankSnapshot
      /\ result' = r
  BY DEF Return, Goto, TypeOK, PsTypeOK
<1>2. QED
  BY <1>1, BlankSnapshotType, ContractAssumption, IngestAssumption
     DEF PsTypeOK, Labels, Snapping, Committing, NoCall, ContractAssumption,
         IngestAssumption

(* Beginning a commit does, if its frame has a word.                       *)
LEMMA BeginType ==
    ASSUME TypeOK,
           NEW c \in [name : {"self_test", "initial", "frame"},
                      frame : Frames \cup {NoFrame}, words : Words],
           c.words > 0, c.frame \in Frames,
           Begin(c), UNCHANGED <<tries, result>>
    PROVE  PsTypeOK'
BY BlankSnapshotType, SnapshotLength, ContractAssumption
   DEF Begin, Goto, TypeOK, PsTypeOK, Labels, Snapping, Committing,
       ContractAssumption

(* Going to another label does, where no variable but tries changes.       *)
LEMMA GotoType ==
    ASSUME TypeOK,
           NEW label \in Labels, Goto(label),
           label \in Committing => pc \in Committing,
           tries' \in 0 .. WaitTries,
           UNCHANGED <<call, before, after, result>>
    PROVE  PsTypeOK'
BY SnapshotLength, ContractAssumption
   DEF Goto, TypeOK, PsTypeOK, Labels, Snapping, Committing, ContractAssumption

LEMMA UseBankType ==
    ASSUME TypeOK, pc \in Committing, UseBank
    PROVE  PsTypeOK'
<1>1. CASE call.words > BankWords
  BY <1>1, ReturnType DEF UseBank, Results
<1>2. CASE ~(call.words > BankWords)
  BY <1>2, GotoType, IngestAssumption
     DEF UseBank, Labels, Committing, IngestAssumption
<1>3. QED
  BY <1>1, <1>2

(* The driver's variables after any step.                                  *)
LEMMA PsTypeStep ==
    ASSUME TypeOK, Next
    PROVE  PsTypeOK'
<1>1. CASE PsStall
  BY <1>1 DEF PsStall, psVars, TypeOK, PsTypeOK
<1>2. CASE CommitFrameCall
  <2>1. PICK f \in Frames : Begin(FrameCall(f))
    BY <1>2 DEF CommitFrameCall
  <2>2. QED
    BY <1>2, <2>1, BeginType, ControllerAssumption, ContractAssumption
       DEF CommitFrameCall, FrameCall, ControllerAssumption, ContractAssumption
<1>3. CASE SnapshotRead
  <2>1. step + 1 \in Nat
    BY DEF TypeOK, PsTypeOK
  <2>2. before' \in Snapshots /\ after' \in Snapshots
    BY <1>3, <2>1, CaptureType DEF SnapshotRead, TypeOK, PsTypeOK
  <2>3. QED
    BY <1>3, <2>1, <2>2
       DEF SnapshotRead, TypeOK, PsTypeOK, Snapping
<1>4. CASE InitEnd
  BY <1>4, GotoType
     DEF InitEnd, LastSnapshotRead, Labels, Committing, TypeOK, PsTypeOK
<1>5. CASE ClearErrors
  BY <1>5, BeginType, IngestAssumption, ContractAssumption
     DEF ClearErrors, SelfTestCall, IngestAssumption, ContractAssumption
<1>6. CASE SelfTestEnd
  <2>1. CASE frame_sequence = Increment(0) /\ committed_words = SelfTestWords
    BY <1>6, <2>1, BeginType, IngestAssumption, ControllerAssumption,
       ContractAssumption
       DEF SelfTestEnd, InitialCall, IngestAssumption, ControllerAssumption,
           ContractAssumption
  <2>2. CASE ~(frame_sequence = Increment(0) /\ committed_words = SelfTestWords)
    BY <1>6, <2>2, GotoType
       DEF SelfTestEnd, Labels, Committing, TypeOK, PsTypeOK
  <2>3. QED
    BY <2>1, <2>2
<1>7. CASE EnableConsumer
  BY <1>7, GotoType
     DEF EnableConsumer, BootWrite, Labels, Committing, TypeOK, PsTypeOK
<1>8. CASE BeforeEnd
  <2>1. CASE before.status # "READY"
    BY <1>8, <2>1, ReturnType DEF BeforeEnd, LastSnapshotRead, Results
  <2>2. CASE before.status = "READY" /\ before.valid
    BY <1>8, <2>2, UseBankType DEF BeforeEnd, LastSnapshotRead, Committing
  <2>3. CASE before.status = "READY" /\ ~before.valid
    <3>1. Goto("wait") /\ tries' = 1 /\ UNCHANGED <<call, before, after, result>>
      BY <1>8, <2>3 DEF BeforeEnd
    <3>2. tries' \in 0 .. WaitTries
      BY <3>1, IngestAssumption DEF IngestAssumption
    <3>3. QED
      BY <1>8, <3>1, <3>2, GotoType
         DEF BeforeEnd, LastSnapshotRead, Committing, Labels, Snapping
  <2>4. before.valid \in BOOLEAN
    BY DEF TypeOK, PsTypeOK, Snapshots
  <2>5. QED
    BY <2>1, <2>2, <2>3, <2>4
<1>9. CASE WaitEnd
  <2>1. CASE before.valid
    BY <1>9, <2>1, UseBankType DEF WaitEnd, LastSnapshotRead, Committing
  <2>2. CASE ~before.valid
    <3>1. tries' \in 0 .. WaitTries
      BY <1>9, <2>2, IngestAssumption
         DEF WaitEnd, TypeOK, PsTypeOK, IngestAssumption
    <3>2. QED
      BY <1>9, <2>2, <3>1, GotoType
         DEF WaitEnd, LastSnapshotRead, Committing, Labels, Snapping
  <2>3. QED
    BY <2>1, <2>2
<1>10. CASE NotifyDrop
  BY <1>10, ReturnType DEF NotifyDrop, Results
<1>11. CASE WriteWord
  <2>1. CASE step + 1 = call.words
    BY <1>11, <2>1, GotoType
       DEF WriteWord, Labels, Committing, TypeOK, PsTypeOK
  <2>2. CASE step + 1 # call.words
    BY <1>11, <2>2, ContractAssumption
       DEF WriteWord, TypeOK, PsTypeOK, Snapping, ContractAssumption
  <2>3. QED
    BY <2>1, <2>2
<1>12. CASE WriteMarker
  <2>1. CASE step = 1
    BY <1>12, <2>1, GotoType
       DEF WriteMarker, Labels, Committing, TypeOK, PsTypeOK
  <2>2. CASE step # 1
    BY <1>12, <2>2 DEF WriteMarker, TypeOK, PsTypeOK, Snapping
  <2>3. QED
    BY <2>1, <2>2
<1>13. CASE ReadBack
  <2> DEFINE word == IF step = 0 THEN 0 ELSE call.words - 1
  <2>1. CASE ram[before.bank][word] # call.frame
    BY <1>13, <2>1, ReturnType DEF ReadBack, Results
  <2>2. CASE ram[before.bank][word] = call.frame /\ step = 1
    BY <1>13, <2>2, GotoType
       DEF ReadBack, Labels, Committing, TypeOK, PsTypeOK
  <2>3. CASE ram[before.bank][word] = call.frame /\ step # 1
    BY <1>13, <2>3 DEF ReadBack, TypeOK, PsTypeOK, Snapping
  <2>4. QED
    BY <2>1, <2>2, <2>3
<1>14. CASE WriteCommit
  BY <1>14, GotoType
     DEF WriteCommit, Labels, Committing, Snapping, TypeOK, PsTypeOK
<1>15. CASE AfterEnd
  BY <1>15, ReturnType DEF AfterEnd, LastSnapshotRead, Results
<1>16. QED
  BY <1>1, <1>2, <1>3, <1>4, <1>5, <1>6, <1>7, <1>8, <1>9, <1>10, <1>11,
     <1>12, <1>13, <1>14, <1>15 DEF Next
-----------------------------------------------------------------------------
(* Type correctness.                                                       *)

LEMMA TypeInit == Init => TypeOK
<1> SUFFICES ASSUME Init PROVE TypeOK
  OBVIOUS
<1>1. ControlTypeOK
  <2>1. 0 \in Sequences32 /\ 0 \in Words /\ 0 \in Banks /\ 0 \in Nat
    BY ContractAssumption DEF ContractAssumption
  <2>2. QED
    BY <2>1, Zenon DEF Init, PlInit, ControlInit, ControlTypeOK, Statuses
<1>2. PlTypeOK
  <2>1. ram \in [Banks -> [0 .. BankWords - 1 -> Frames \cup {NoFrame}]]
    BY DEF Init, PlInit, RamInit
  <2>2. 0 \in Sequences32 /\ 0 \in Words /\ 0 \in 0 .. OutputCount - 1
    BY ContractAssumption DEF ContractAssumption
  <2>3. QED
    BY <1>1, <2>1, <2>2 DEF Init, PlInit, ConsumerInit, PlTypeOK, TxStates
<1>3. PsTypeOK
  <2>1. /\ pc = "init" /\ step = 0 /\ tries = 0
        /\ call = NoCall
        /\ before \in Snapshots /\ after \in Snapshots
        /\ result \in Results
    BY BlankSnapshotType DEF Init, PsInit, Results
  <2>2. 0 < SnapshotReads /\ 0 \in 0 .. WaitTries /\ 0 \in Words
    BY SnapshotLength, ContractAssumption, IngestAssumption
       DEF ContractAssumption, IngestAssumption
  <2>3. QED
    BY <2>1, <2>2 DEF PsTypeOK, Labels, Snapping, Committing, NoCall
<1>4. QED
  BY <1>2, <1>3 DEF Init, TypeOK

LEMMA TypeStep == TypeOK /\ [Next]_vars => TypeOK'
<1> SUFFICES ASSUME TypeOK, [Next]_vars PROVE TypeOK'
  OBVIOUS
<1>1. CASE Next
  <2>1. PsTypeOK'
    BY <1>1, PsTypeStep
  <2>2. PICK register, bank, words :
          /\ bank \in Banks /\ words \in Nat
          /\ RegisterWrite(register, bank, words)
    BY <1>1, PsBusStep
  <2>3. ram' \in [Banks -> [0 .. BankWords - 1 -> Frames \cup {NoFrame}]]
    BY <1>1, PsBusStep
  <2>4. Clock
    BY <1>1, PsBusStep
  <2>5. ControlTypeOK'
    BY <2>2, <2>4, ControlTypeStep DEF Clock, PlClock
  <2>6. PlTypeOK'
    BY <2>3, <2>4, <2>5, ConsumerTypeStep DEF Clock, PlClock, PlTypeOK
  <2>7. accepted' \in [Banks -> Frames \cup {NoFrame}]
    BY <2>4 DEF Clock, RecordHistory, TypeOK, PsTypeOK
  <2>8. displayed' \in SUBSET (Frames \cup {NoFrame})
    BY <2>4 DEF Clock, RecordHistory, TypeOK, PlTypeOK
  <2>9. QED
    BY <2>1, <2>6, <2>7, <2>8 DEF TypeOK
<1>2. CASE UNCHANGED vars
  BY <1>2
     DEF vars, psVars, plVars, controlVars, fieldVars, consumerVars, TypeOK,
         PlTypeOK, ControlTypeOK, PsTypeOK
<1>3. QED
  BY <1>1, <1>2

(* Every register and every local keeps its type and its range.            *)
THEOREM TypeCorrect == Spec => []TypeOK
BY TypeInit, TypeStep, PTL DEF Spec
-----------------------------------------------------------------------------
(* The handshake.                                                          *)

(* A commit that arrives is accepted: it names the write bank, and the     *)
(* consumer, if it reads at all, reads the other one.                      *)
LEMMA CommitLands ==
    ASSUME HandshakeInv, commit_swmod
    PROVE  CommitAccepted(consumer_active_bank)
<1> USE DEF HandshakeInv
<1>1. commit_bank = before.bank /\ commit_words = call.words
  BY DEF LandInv
<1>2. /\ before.bank = WriteBank
      /\ tx_state # "TX_IDLE" => tx_active_bank = active_bank
  BY DEF OwnInv, Owning
<1>3. CommitFits
  BY <1>1, ContractAssumption
     DEF CommitFits, TypeOK, PsTypeOK, ContractAssumption
<1>4. WriteBankValid(consumer_active_bank)
  <2>1. WriteBank # active_bank
    BY DEF WriteBank, TypeOK, PlTypeOK, ControlTypeOK
  <2>2. CASE tx_state \in Reading
    BY <1>2, <2>1, <2>2 DEF BusyInv, WriteBankValid, Reading
  <2>3. CASE tx_state \notin Reading
    BY <2>3 DEF BusyInv, WriteBankValid
  <2>4. QED
    BY <2>2, <2>3
<1>5. QED
  BY <1>1, <1>2, <1>3, <1>4 DEF CommitAccepted

(* So a clock edge refuses nothing, and moves the active bank only for the *)
(* commit in flight.                                                       *)
LEMMA RefusalStep ==
    ASSUME HandshakeInv, ControlClock(consumer_active_bank, error_pulse)
    PROVE  /\ CommitNeverRefused'
           /\ active_bank' = IF commit_swmod THEN commit_bank ELSE active_bank
           /\ reset_pulse' = reset_swmod
<1>1. ~CommitRefused(consumer_active_bank)
  BY CommitLands DEF CommitRefused
<1>2. status' \notin {"OVERFLOW", "COMMIT_REJECTED"}
  BY <1>1 DEF ControlClock, HandshakeInv, CommitNeverRefused
<1>3. frame_rejected' = 0
  BY <1>1 DEF ControlClock, HandshakeInv, CommitNeverRefused
<1>4. active_bank' = IF commit_swmod THEN commit_bank ELSE active_bank
  <2>1. CASE commit_swmod
    BY <2>1, CommitLands DEF ControlClock, CommitFrame
  <2>2. CASE ~commit_swmod
    BY <2>2 DEF ControlClock, CommitFrame, CommitAccepted
  <2>3. QED
    BY <2>1, <2>2
<1>5. reset_pulse' = reset_swmod
  BY DEF ControlClock
<1>6. QED
  BY <1>2, <1>3, <1>4, <1>5 DEF CommitNeverRefused

(* The reset pulse finds the consumer at rest.                             *)
LEMMA ResetAtRest ==
    ASSUME BootInv, reset_pulse
    PROVE  tx_state = "TX_IDLE"
BY DEF BootInv, Booting

(* What a clock edge does to the consumer's state and bank.                *)
LEMMA ConsumerMove ==
    ASSUME TypeOK, BootInv,
           ConsumerClock(enable, reset_pulse, active_bank, committed_words,
                         frame_sequence, FrameWords, ram)
    PROVE  \/ /\ tx_state = "TX_IDLE" /\ tx_state' = "TX_IDLE"
              /\ consumer_active_bank' \in {consumer_active_bank, NoBusyBank}
           \/ /\ tx_state = "TX_IDLE" /\ tx_state' = "TX_COMPUTE_CONFIG"
              /\ enable
              /\ tx_active_bank' = active_bank
              /\ config_scan' = 0
              /\ consumer_active_bank' \in {consumer_active_bank, NoBusyBank}
           \/ /\ tx_state \in Scanning /\ tx_state' \in Scanning
              /\ tx_state = "TX_COMPUTE_CONFIG"
              /\ IF tx_state' = "TX_VALIDATE" THEN config_scan = OutputCount - 1
                 ELSE config_scan' = config_scan + 1
              /\ UNCHANGED <<tx_active_bank, consumer_active_bank>>
           \/ /\ tx_state \in Scanning /\ tx_state' \in Reading
              /\ tx_active_bank' = tx_active_bank
              /\ consumer_active_bank' = tx_active_bank
           \/ /\ tx_state \in Scanning /\ tx_state' = "TX_IDLE"
              /\ UNCHANGED <<tx_active_bank, consumer_active_bank>>
           \/ /\ tx_state \in Reading /\ tx_state' \in Reading
              /\ UNCHANGED <<tx_active_bank, consumer_active_bank>>
           \/ /\ tx_state \in Reading /\ tx_state' = "TX_IDLE"
              /\ tx_active_bank' = tx_active_bank
              /\ consumer_active_bank' = NoBusyBank
<1> USE ResetAtRest
    DEF Scanning, Reading, HoldState, HoldBusyBank, HoldFrame
<1>1. CASE TxIdle(enable, reset_pulse, active_bank, frame_sequence, FrameWords)
  BY <1>1 DEF TxIdle
<1>2. CASE TxComputeConfig(reset_pulse)
  BY <1>2 DEF TxComputeConfig
<1>3. CASE TxValidate(committed_words)
  BY <1>3 DEF TxValidate
<1>4. CASE TxTransmit(reset_pulse, ram)
  BY <1>4 DEF TxTransmit, TxFetch, TxSent
<1>5. CASE TxFault(reset_pulse)
  BY <1>5 DEF TxFault
<1>6. CASE TxReset(reset_pulse)
  BY <1>6 DEF TxReset
<1>7. CASE TxError
  BY <1>7 DEF TxError
<1>8. QED
  BY <1>1, <1>2, <1>3, <1>4, <1>5, <1>6, <1>7 DEF ConsumerClock

LEMMA BusyStep ==
    ASSUME TypeOK, BootInv, BusyInv,
           ConsumerClock(enable, reset_pulse, active_bank, committed_words,
                         frame_sequence, FrameWords, ram)
    PROVE  BusyInv'
BY ConsumerMove DEF BusyInv, Scanning, Reading
(* Where the driver goes when a call returns: to the main loop when the    *)
(* call came from there.                                                   *)
LEMMA ReturnMove ==
    ASSUME TypeOK, NEW r \in Results, Return(r)
    PROVE  /\ pc' \in {"main", "self_test", "reset_fsm", "fatal"}
           /\ call.name = "frame" => pc' = "main"
           /\ call' = NoCall
BY DEF Return, Goto, TypeOK, PsTypeOK

LEMMA ReturnBoot ==
    ASSUME HandshakeInv, NEW r \in Results, Return(r),
           pc \notin Booting,
           NEW register \in {"NONE", "FRAME_DROP_NOTIFY"}, Access(register),
           reset_pulse' = reset_swmod, ~enable => tx_state' = "TX_IDLE"
    PROVE  BootInv'
<1>1. /\ pc' \in {"main", "self_test", "reset_fsm", "fatal"}
      /\ call.name = "frame" => pc' = "main"
      /\ call'.name = "frame"
  BY ReturnMove DEF NoCall, HandshakeInv
<1>2. enable' = enable /\ reset_swmod' = FALSE
  BY DEF Access, RegisterWrite
<1>3. ~reset_swmod /\ (enable => call.name = "frame")
  BY DEF HandshakeInv, BootInv, Booting
<1>4. enable' => pc' = "main"
  BY <1>1, <1>2, <1>3
<1>5. QED
  BY <1>1, <1>2, <1>3, <1>4 DEF BootInv, Booting, HandshakeInv

LEMMA UseBankBoot ==
    ASSUME HandshakeInv, pc \in {"before", "wait"}, UseBank, Access("NONE"),
           reset_pulse' = reset_swmod, ~enable => tx_state' = "TX_IDLE"
    PROVE  BootInv'
<1>1. CASE call.words > BankWords
  BY <1>1, ReturnBoot DEF UseBank, Results, Booting
<1>2. CASE ~(call.words > BankWords)
  BY <1>2 DEF UseBank, Goto, HandshakeInv, BootInv, Booting, Access, RegisterWrite
<1>3. QED
  BY <1>1, <1>2

(* Boot.                                                                   *)
LEMMA BootStep ==
    ASSUME HandshakeInv, Next
    PROVE  BootInv'
<1> USE DEF HandshakeInv, BootInv, Booting, Access, RegisterWrite, Goto, NoCall
<1>1. reset_pulse' = reset_swmod /\ (~enable => tx_state' = "TX_IDLE")
  BY PsBusStep, RefusalStep, ConsumerMove DEF Clock, PlClock, Scanning, Reading
<1>2. CASE PsStall
  BY <1>1, <1>2 DEF PsStall, psVars
<1>3. CASE CommitFrameCall
  <2>1. PICK f \in Frames : Begin(FrameCall(f))
    BY <1>3 DEF CommitFrameCall
  <2>2. pc = "main" /\ pc' = "before" /\ call'.name = "frame"
    BY <1>3, <2>1 DEF CommitFrameCall, Begin, FrameCall
  <2>3. QED
    BY <1>1, <1>3, <2>2 DEF CommitFrameCall
<1>4. CASE SnapshotRead
  BY <1>1, <1>4 DEF SnapshotRead
<1>5. CASE InitEnd
  BY <1>1, <1>5 DEF InitEnd, LastSnapshotRead
<1>6. CASE ClearErrors
  BY <1>1, <1>6 DEF ClearErrors, Begin
<1>7. CASE SelfTestEnd
  BY <1>1, <1>7 DEF SelfTestEnd, Begin
<1>8. CASE EnableConsumer
  BY <1>1, <1>8 DEF EnableConsumer, BootWrite
<1>9. CASE BeforeEnd
  <2>1. before.valid \in BOOLEAN
    BY DEF TypeOK, PsTypeOK, Snapshots
  <2>2. CASE before.status # "READY"
    BY <1>1, <1>9, <2>2, ReturnBoot DEF BeforeEnd, LastSnapshotRead, Results
  <2>3. CASE before.status = "READY" /\ before.valid
    BY <1>1, <1>9, <2>3, UseBankBoot DEF BeforeEnd, LastSnapshotRead
  <2>4. CASE before.status = "READY" /\ ~before.valid
    BY <1>1, <1>9, <2>4 DEF BeforeEnd, LastSnapshotRead
  <2>5. QED
    BY <2>1, <2>2, <2>3, <2>4
<1>10. CASE WaitEnd
  <2>1. CASE before.valid
    BY <1>1, <1>10, <2>1, UseBankBoot DEF WaitEnd, LastSnapshotRead
  <2>2. CASE ~before.valid
    BY <1>1, <1>10, <2>2 DEF WaitEnd, LastSnapshotRead
  <2>3. QED
    BY <2>1, <2>2
<1>11. CASE NotifyDrop
  BY <1>1, <1>11, ReturnBoot DEF NotifyDrop, Results
<1>12. CASE WriteWord
  BY <1>1, <1>12 DEF WriteWord
<1>13. CASE WriteMarker
  BY <1>1, <1>13 DEF WriteMarker
<1>14. CASE ReadBack
  <2> DEFINE word == IF step = 0 THEN 0 ELSE call.words - 1
  <2>1. CASE ram[before.bank][word] # call.frame
    BY <1>1, <1>14, <2>1, ReturnBoot DEF ReadBack, Results
  <2>2. CASE ram[before.bank][word] = call.frame
    BY <1>1, <1>14, <2>2 DEF ReadBack
  <2>3. QED
    BY <2>1, <2>2
<1>15. CASE WriteCommit
  BY <1>1, <1>15 DEF WriteCommit
<1>16. CASE AfterEnd
  BY <1>1, <1>16, ReturnBoot DEF AfterEnd, LastSnapshotRead, Results
<1>17. QED
  BY <1>2, <1>3, <1>4, <1>5, <1>6, <1>7, <1>8, <1>9, <1>10, <1>11, <1>12,
     <1>13, <1>14, <1>15, <1>16 DEF Next
(* A commit is on its way only after WriteCommit.                          *)
LEMMA CommitWritten ==
    ASSUME Next, ~WriteCommit
    PROVE  commit_swmod' = FALSE
<1> USE DEF Access, RegisterWrite
<1>1. CASE PsStall \/ CommitFrameCall \/ SnapshotRead
  BY <1>1 DEF PsStall, CommitFrameCall, SnapshotRead
<1>2. CASE InitEnd \/ BeforeEnd \/ WaitEnd \/ AfterEnd
  BY <1>2 DEF InitEnd, BeforeEnd, WaitEnd, AfterEnd, LastSnapshotRead
<1>3. CASE ClearErrors \/ SelfTestEnd \/ EnableConsumer
  BY <1>3 DEF ClearErrors, SelfTestEnd, EnableConsumer, BootWrite
<1>4. CASE NotifyDrop \/ WriteWord \/ WriteMarker \/ ReadBack
  BY <1>4 DEF NotifyDrop, WriteWord, WriteMarker, ReadBack
<1>5. QED
  BY <1>1, <1>2, <1>3, <1>4 DEF Next

LEMMA LandStep ==
    ASSUME Next
    PROVE  LandInv'
<1>1. CASE WriteCommit
  BY <1>1 DEF WriteCommit, RegisterWrite, Goto, LandInv
<1>2. CASE ~WriteCommit
  BY <1>2, CommitWritten DEF LandInv
<1>3. QED
  BY <1>1, <1>2

(* The snapshot after a commit goes on or ends; the driver starts nothing  *)
(* else meanwhile.                                                         *)
LEMMA AfterMove ==
    ASSUME TypeOK, Next, pc = "after"
    PROVE  /\ commit_swmod' = FALSE
           /\ \/ pc' = "after" /\ step' \in {step, step + 1}
              \/ /\ step + 1 = SnapshotReads
                 /\ pc' \in {"main", "self_test", "reset_fsm", "fatal"}
<1>1. CASE PsStall
  BY <1>1, CommitWritten DEF PsStall, psVars, WriteCommit
<1>2. CASE SnapshotRead
  BY <1>2, CommitWritten DEF SnapshotRead, WriteCommit
<1>3. CASE AfterEnd
  BY <1>3, CommitWritten, ReturnMove
     DEF AfterEnd, LastSnapshotRead, WriteCommit, Results
<1>4. ~(CommitFrameCall \/ InitEnd \/ ClearErrors \/ SelfTestEnd)
  BY DEF CommitFrameCall, InitEnd, ClearErrors, SelfTestEnd, LastSnapshotRead
<1>5. ~(EnableConsumer \/ BeforeEnd \/ WaitEnd \/ NotifyDrop)
  BY DEF EnableConsumer, BootWrite, BeforeEnd, WaitEnd, NotifyDrop,
     LastSnapshotRead
<1>6. ~(WriteWord \/ WriteMarker \/ ReadBack \/ WriteCommit)
  BY DEF WriteWord, WriteMarker, ReadBack, WriteCommit
<1>7. QED
  BY <1>1, <1>2, <1>3, <1>4, <1>5, <1>6 DEF Next

(* The window between a pick and its publication closes before the         *)
(* snapshot that follows the commit ends.                                  *)
LEMMA ScanStep ==
    ASSUME HandshakeInv, Next
    PROVE  ScanInv'
<1> SUFFICES ASSUME (tx_state \in Scanning)', (tx_active_bank # active_bank)'
             PROVE  (pc = "after" /\ ~commit_swmod /\ step <= ScanAge)'
  BY DEF ScanInv
<1> USE DEF HandshakeInv
<1>1. ConsumerClock(enable, reset_pulse, active_bank, committed_words,
                    frame_sequence, FrameWords, ram)
      /\ active_bank' = IF commit_swmod THEN commit_bank ELSE active_bank
  BY PsBusStep, RefusalStep DEF Clock, PlClock
<1>2. OutputCount \in Nat /\ step \in Nat /\ config_scan \in Nat
      /\ config_scan < OutputCount
  BY ContractAssumption DEF ContractAssumption, TypeOK, PlTypeOK, PsTypeOK
<1>3. \/ tx_active_bank' = active_bank /\ ScanAge' = 1
      \/ /\ tx_state \in Scanning
         /\ tx_active_bank' = tx_active_bank
         /\ ScanAge' = ScanAge + 1 /\ ScanAge \in Nat
         /\ ScanAge <= OutputCount + 1
  BY <1>1, <1>2, ConsumerMove DEF ScanAge, Scanning, Reading
<1>4. CASE commit_swmod
  <2>1. pc = "after" /\ step = 0
    BY <1>4 DEF LandInv
  <2>2. /\ commit_swmod' = FALSE
        /\ pc' = "after" /\ step' \in {0, 1}
    BY <1>2, <2>1, AfterMove, SnapshotLength
  <2>3. QED
    BY <1>3, <2>2
<1>5. CASE ~commit_swmod
  <2>1. /\ tx_state \in Scanning /\ tx_active_bank # active_bank
        /\ ScanAge' = ScanAge + 1 /\ ScanAge \in Nat
        /\ ScanAge <= OutputCount + 1
    BY <1>1, <1>3, <1>5
  <2>2. pc = "after" /\ step <= ScanAge
    BY <2>1 DEF ScanInv
  <2>3. /\ commit_swmod' = FALSE
        /\ pc' = "after" /\ step' \in {step, step + 1}
    BY <1>2, <2>1, <2>2, AfterMove, SnapshotLength
  <2>4. QED
    BY <1>2, <2>1, <2>2, <2>3
<1>6. QED
  BY <1>4, <1>5
(* The bank the driver decides for is the write bank, and stays it: what   *)
(* it holds true of it now was true before or is read in this step.        *)
LEMMA ChosenBank ==
    ASSUME HandshakeInv, Next
    PROVE  /\ pc' \in {"before", "wait"} /\ step' >= WriteBankRead
                => before'.bank = WriteBank
           /\ Owning' => /\ before'.bank = WriteBank
                         /\ \/ Owning
                            \/ pc # "after" /\ WriteBankValid(consumer_active_bank)
<1> USE DEF HandshakeInv, OwnInv, WriteBankRead, WriteBankValidRead
<1>1. ASSUME NEW c, Begin(c), ~WriteCommit
      PROVE  pc' = "before" /\ step' = 0 /\ ~Owning'
  BY <1>1, CommitWritten DEF Begin, Goto, Owning
<1>2. ASSUME NEW r \in Results, Return(r), ~WriteCommit
      PROVE  pc' \notin {"before", "wait"} /\ ~Owning'
  BY <1>2, CommitWritten, ReturnMove DEF Owning
<1>3. ASSUME NEW label \in Labels, Goto(label), ~WriteCommit,
             label \in {"write", "markers", "readback", "commit"} => Owning,
             before' = before
      PROVE  /\ step' = 0
             /\ Owning' => Owning /\ before'.bank = WriteBank
  BY <1>3, CommitWritten DEF Goto, Owning
<1>4. CASE PsStall
  BY <1>4, CommitWritten DEF PsStall, psVars, WriteCommit, Owning
<1>5. CASE CommitFrameCall
  <2>1. PICK f \in Frames : Begin(FrameCall(f))
    BY <1>5 DEF CommitFrameCall
  <2>2. QED
    BY <1>1, <1>5, <2>1 DEF CommitFrameCall, WriteCommit
<1>6. CASE SnapshotRead
  <2>1. step' = step + 1 /\ step \in Nat /\ pc' = pc /\ commit_swmod' = FALSE
    BY <1>6, CommitWritten DEF SnapshotRead, WriteCommit, TypeOK, PsTypeOK, Snapping
  <2>2. CASE pc \in {"before", "wait"}
    <3>1. before' = Capture(before, step + 1)
      BY <1>6, <2>2 DEF SnapshotRead
    <3>2. before \in Snapshots /\ WriteBankValid(consumer_active_bank) \in BOOLEAN
      BY DEF TypeOK, PsTypeOK, WriteBankValid
    <3>3. CASE step + 1 = 7
      <4>1. before' = [before EXCEPT !.bank = WriteBank]
        BY <3>1, <3>3
           DEF Capture, StatusRead, ActiveBankRead, WriteBankRead,
               WriteBankValidRead, FrameSequenceRead, CommittedWordsRead,
               FrameRejectedRead
      <4>2. before'.bank = WriteBank
        BY <3>2, <4>1 DEF Snapshots
      <4>3. step' = 7
        BY <2>1, <3>3
      <4>4. QED
        BY <2>1, <2>2, <4>2, <4>3 DEF Owning
    <3>4. CASE step + 1 = 8
      <4>1. before'.bank = before.bank
            /\ before'.valid = WriteBankValid(consumer_active_bank)
        <5>1. before' = [before EXCEPT !.valid = WriteBankValid(consumer_active_bank)]
          BY <3>1, <3>4
             DEF Capture, StatusRead, ActiveBankRead, WriteBankRead,
                 WriteBankValidRead, FrameSequenceRead, CommittedWordsRead,
                 FrameRejectedRead
        <5>2. QED
          BY <3>2, <5>1 DEF Snapshots
      <4>2. before.bank = WriteBank
        BY <2>1, <2>2, <3>4
      <4>3. QED
        BY <2>1, <2>2, <3>4, <4>1, <4>2 DEF Owning
    <3>5. CASE step + 1 \notin {7, 8}
      <4>1. before'.bank = before.bank /\ before'.valid = before.valid
        BY <2>1, <3>1, <3>2, <3>5
           DEF Capture, Snapshots, StatusRead, ActiveBankRead,
               FrameSequenceRead, CommittedWordsRead, FrameRejectedRead
      <4>2. step' >= 7 => step >= 7
        BY <2>1, <3>5
      <4>3. step' >= 8 => step >= 8
        BY <2>1, <3>5
      <4>4. Owning' => Owning
        BY <2>1, <4>1, <4>3 DEF Owning
      <4>5. QED
        BY <2>1, <2>2, <4>1, <4>2, <4>4
    <3>6. QED
      BY <3>3, <3>4, <3>5
  <2>3. CASE pc \notin {"before", "wait"}
    BY <1>6, <2>1, <2>3 DEF SnapshotRead, Owning, Snapping
  <2>4. QED
    BY <2>2, <2>3
<1>7. CASE InitEnd
  BY <1>3, <1>7 DEF InitEnd, LastSnapshotRead, Labels, WriteCommit
<1>8. CASE ClearErrors
  BY <1>1, <1>8 DEF ClearErrors, WriteCommit
<1>9. CASE SelfTestEnd
  BY <1>1, <1>3, <1>9 DEF SelfTestEnd, Labels, WriteCommit
<1>10. CASE EnableConsumer
  BY <1>3, <1>10 DEF EnableConsumer, BootWrite, Labels, WriteCommit
<1>11. step + 1 = SnapshotReads => step >= 8
  BY SnapshotLength, ContractAssumption
     DEF ContractAssumption, TypeOK, PsTypeOK
<1>12. ASSUME pc \in {"before", "wait"}, Owning, UseBank
       PROVE  /\ step' = 0 \/ pc' \notin {"before", "wait"}
              /\ Owning' => before'.bank = WriteBank
  <2>1. ~WriteCommit
    BY <1>12 DEF WriteCommit
  <2>2. CASE call.words > BankWords
    BY <1>2, <1>12, <2>1, <2>2 DEF UseBank, Results
  <2>3. CASE ~(call.words > BankWords)
    BY <1>3, <1>12, <2>1, <2>3 DEF UseBank, Labels
  <2>4. QED
    BY <2>2, <2>3
<1>13. CASE BeforeEnd
  <2>1. before.valid \in BOOLEAN /\ pc = "before" /\ step >= 8 /\ ~WriteCommit
    BY <1>11, <1>13
       DEF BeforeEnd, LastSnapshotRead, TypeOK, PsTypeOK, Snapshots, WriteCommit
  <2>2. CASE before.status # "READY"
    BY <1>2, <1>13, <2>1, <2>2 DEF BeforeEnd, Results
  <2>3. CASE before.status = "READY" /\ before.valid
    BY <1>12, <1>13, <2>1, <2>3 DEF BeforeEnd, Owning
  <2>4. CASE before.status = "READY" /\ ~before.valid
    <3>1. Goto("wait") /\ before' = before
      BY <1>13, <2>4 DEF BeforeEnd
    <3>2. QED
      BY <1>3, <2>1, <3>1 DEF Labels, Snapping
  <2>5. QED
    BY <2>1, <2>2, <2>3, <2>4
<1>14. CASE WaitEnd
  <2>1. before.valid \in BOOLEAN /\ pc = "wait" /\ step >= 8 /\ ~WriteCommit
    BY <1>11, <1>14
       DEF WaitEnd, LastSnapshotRead, TypeOK, PsTypeOK, Snapshots, WriteCommit
  <2>2. CASE before.valid
    BY <1>12, <1>14, <2>1, <2>2 DEF WaitEnd, Owning
  <2>3. CASE ~before.valid
    BY <1>3, <1>14, <2>1, <2>3 DEF WaitEnd, Labels, Snapping
  <2>4. QED
    BY <2>1, <2>2, <2>3
<1>15. CASE NotifyDrop
  BY <1>2, <1>15 DEF NotifyDrop, Results, WriteCommit
<1>16. CASE WriteWord
  BY <1>16, CommitWritten DEF WriteWord, Goto, Owning, WriteCommit
<1>17. CASE WriteMarker
  BY <1>17, CommitWritten DEF WriteMarker, Goto, Owning, WriteCommit
<1>18. CASE ReadBack
  <2> DEFINE word == IF step = 0 THEN 0 ELSE call.words - 1
  <2>1. CASE ram[before.bank][word] # call.frame
    BY <1>2, <1>18, <2>1 DEF ReadBack, Results, WriteCommit
  <2>2. CASE ram[before.bank][word] = call.frame
    BY <1>18, <2>2, CommitWritten DEF ReadBack, Goto, Owning, WriteCommit
  <2>3. QED
    BY <2>1, <2>2
<1>19. CASE WriteCommit
  BY <1>19 DEF WriteCommit, Goto, Owning
<1>20. CASE AfterEnd
  BY <1>2, <1>20 DEF AfterEnd, LastSnapshotRead, Results, WriteCommit
<1>21. QED
  BY <1>4, <1>5, <1>6, <1>7, <1>8, <1>9, <1>10, <1>13, <1>14, <1>15, <1>16,
     <1>17, <1>18, <1>19, <1>20 DEF Next

LEMMA OwnStep ==
    ASSUME HandshakeInv, Next
    PROVE  OwnInv'
<1> USE DEF HandshakeInv
<1>1. ConsumerClock(enable, reset_pulse, active_bank, committed_words,
                    frame_sequence, FrameWords, ram)
      /\ active_bank' = IF commit_swmod THEN commit_bank ELSE active_bank
  BY PsBusStep, RefusalStep DEF Clock, PlClock
<1>2. CASE commit_swmod
  <2>1. /\ commit_swmod' = FALSE
        /\ pc' \in {"after", "main", "self_test", "reset_fsm", "fatal"}
    BY <1>2, AfterMove DEF LandInv
  <2>2. QED
    BY <2>1 DEF OwnInv, Owning
<1>3. CASE ~commit_swmod
  <2>1. active_bank' = active_bank /\ WriteBank' = WriteBank
    BY <1>1, <1>3 DEF WriteBank
  <2>2. pc' \in {"before", "wait"} /\ step' >= WriteBankRead
          => before'.bank = WriteBank'
    BY <2>1, ChosenBank
  <2>3. ASSUME Owning', (tx_state # "TX_IDLE")'
        PROVE  tx_active_bank' = active_bank'
    <3>1. CASE tx_state = "TX_IDLE"
      BY <1>1, <2>1, <2>3, <3>1, ConsumerMove DEF Scanning, Reading
    <3>2. CASE tx_state # "TX_IDLE"
      <4>1. tx_active_bank' = tx_active_bank
        BY <1>1, <3>2, ConsumerMove
      <4>2. CASE Owning
        BY <2>1, <3>2, <4>1, <4>2 DEF OwnInv
      <4>3. CASE pc # "after" /\ WriteBankValid(consumer_active_bank)
        <5>1. CASE tx_state \in Scanning
          BY <2>1, <4>1, <4>3, <5>1 DEF ScanInv
        <5>2. CASE tx_state \in Reading
          <6>1. consumer_active_bank = tx_active_bank
            BY <5>2 DEF BusyInv
          <6>2. tx_active_bank # WriteBank
            BY <4>3, <6>1, ContractAssumption
               DEF WriteBankValid, ContractAssumption, TypeOK, PlTypeOK
          <6>3. QED
            BY <2>1, <4>1, <6>2
               DEF WriteBank, TypeOK, PlTypeOK, ControlTypeOK
        <5>3. QED
          BY <3>2, <5>1, <5>2 DEF TypeOK, PlTypeOK, TxStates
      <4>4. QED
        BY <2>3, <4>2, <4>3, ChosenBank
    <3>3. QED
      BY <3>1, <3>2
  <2>4. QED
    BY <2>1, <2>2, <2>3, ChosenBank DEF OwnInv
<1>4. QED
  BY <1>2, <1>3

-----------------------------------------------------------------------------
LEMMA HandshakeInit == Init => HandshakeInv
BY TypeInit
   DEF Init, PlInit, ControlInit, ConsumerInit, PsInit, NoCall, HandshakeInv,
       BootInv, Booting, BusyInv, LandInv, ScanInv, OwnInv, Owning,
       CommitNeverRefused, Scanning, Reading

LEMMA HandshakeStep == HandshakeInv /\ [Next]_vars => HandshakeInv'
<1> SUFFICES ASSUME HandshakeInv, [Next]_vars PROVE HandshakeInv'
  OBVIOUS
<1>1. CASE Next
  <2>1. TypeOK'
    BY TypeStep DEF HandshakeInv
  <2>2. BootInv'
    BY <1>1, BootStep
  <2>3. BusyInv' /\ CommitNeverRefused'
    BY <1>1, PsBusStep, BusyStep, RefusalStep DEF Clock, PlClock, HandshakeInv
  <2>4. LandInv'
    BY <1>1, LandStep
  <2>5. ScanInv'
    BY <1>1, ScanStep
  <2>6. OwnInv'
    BY <1>1, OwnStep
  <2>7. QED
    BY <2>1, <2>2, <2>3, <2>4, <2>5, <2>6 DEF HandshakeInv
<1>2. CASE UNCHANGED vars
  BY <1>2
     DEF vars, psVars, plVars, controlVars, fieldVars, consumerVars,
         HandshakeInv, TypeOK, PlTypeOK, ControlTypeOK, PsTypeOK, BootInv,
         BusyInv, LandInv, ScanInv, ScanAge, OwnInv, Owning, WriteBank,
         CommitNeverRefused
<1>3. QED
  BY <1>1, <1>2

(* The conjunction that is inductive.                                      *)
THEOREM HandshakeCorrect == Spec => []HandshakeInv
BY HandshakeInit, HandshakeStep, PTL DEF Spec

(* The consumer never reads, and has never picked, the bank the driver     *)
(* owns, for every number of outputs and however long a word, a read or    *)
(* the reset interval takes.                                               *)
THEOREM WriterOwnsItsBank == Spec => []WriterOwnsBank
<1>1. HandshakeInv => WriterOwnsBank
  BY DEF HandshakeInv, OwnInv, WriterOwnsBank, WriteBank, TypeOK, PlTypeOK,
     ControlTypeOK
<1>2. QED
  BY <1>1, HandshakeCorrect, PTL

(* The PL refuses no commit of the driver.                                 *)
THEOREM NoCommitRefused == Spec => []CommitNeverRefused
<1>1. HandshakeInv => CommitNeverRefused
  BY DEF HandshakeInv
<1>2. QED
  BY <1>1, HandshakeCorrect, PTL

-----------------------------------------------------------------------------
(***************************************************************************)
(* From the bank to the lamps: that no frame is torn, that the handoff,    *)
(* without faults of the consumer, is a channel of depth one in front of a *)
(* display, and that a commit fails for lack of a free bank only.          *)
(***************************************************************************)

(***************************************************************************)
(* The content of the memory, from the driver's writes over the commit to  *)
(* the consumer's reads.                                                   *)
(***************************************************************************)
(* What a clock edge does to the committed frame.                          *)
LEMMA CommitMove ==
    ASSUME HandshakeInv, Clock
    PROVE  IF commit_swmod
           THEN /\ pc = "after" /\ step = 0
                /\ active_bank' = before.bank
                /\ committed_words' = call.words
                /\ accepted' = [accepted EXCEPT ![before.bank] = call.frame]
           ELSE UNCHANGED <<active_bank, committed_words, accepted>>
<1>1. CASE commit_swmod
  <2>1. CommitAccepted(consumer_active_bank)
    BY <1>1, CommitLands
  <2>2. /\ pc = "after" /\ step = 0
        /\ commit_bank = before.bank /\ commit_words = call.words
    BY <1>1 DEF HandshakeInv, LandInv
  <2>3. QED
    BY <1>1, <2>1, <2>2
       DEF Clock, RecordHistory, PlClock, ControlClock, CommitFrame
<1>2. CASE ~commit_swmod
  BY <1>2
     DEF Clock, RecordHistory, PlClock, ControlClock, CommitFrame, CommitAccepted
<1>3. QED
  BY <1>1, <1>2

(* What a step does to the memory: nothing, unless the driver writes.      *)
LEMMA RamMove ==
    ASSUME Next
    PROVE  WriteWord \/ ram' = ram
<1>1. CASE PsStall \/ CommitFrameCall \/ SnapshotRead
  BY <1>1 DEF PsStall, CommitFrameCall, SnapshotRead
<1>2. CASE InitEnd \/ BeforeEnd \/ WaitEnd \/ AfterEnd
  BY <1>2 DEF InitEnd, BeforeEnd, WaitEnd, AfterEnd, LastSnapshotRead
<1>3. CASE ClearErrors \/ SelfTestEnd \/ EnableConsumer
  BY <1>3 DEF ClearErrors, SelfTestEnd, EnableConsumer, BootWrite
<1>4. CASE NotifyDrop \/ WriteWord \/ WriteMarker \/ ReadBack \/ WriteCommit
  BY <1>4 DEF NotifyDrop, WriteMarker, ReadBack, WriteCommit
<1>5. QED
  BY <1>1, <1>2, <1>3, <1>4 DEF Next

(* The driver writes, and a commit changes, only the bank it owns.         *)
LEMMA OtherBankKept ==
    ASSUME HandshakeInv, Next, NEW bank \in Banks,
           bank = active_bank \/ (tx_state # "TX_IDLE" /\ bank = tx_active_bank)
    PROVE  ram'[bank] = ram[bank] /\ accepted'[bank] = accepted[bank]
<1> USE DEF HandshakeInv
<1>1. ASSUME Owning PROVE before.bank # bank
  <2>1. before.bank = WriteBank
        /\ (tx_state # "TX_IDLE" => tx_active_bank = active_bank)
    BY <1>1 DEF OwnInv
  <2>2. bank = active_bank
    BY <2>1
  <2>3. QED
    BY <2>1, <2>2 DEF WriteBank, TypeOK, PlTypeOK, ControlTypeOK
<1>2. ram'[bank] = ram[bank]
  <2>1. CASE WriteWord
    BY <1>1, <2>1 DEF WriteWord, RamWrite, Owning, TypeOK, PlTypeOK
  <2>2. CASE ram' = ram
    BY <2>2
  <2>3. QED
    BY <2>1, <2>2, RamMove
<1>3. accepted'[bank] = accepted[bank]
  <2>1. Clock
    BY PsBusStep
  <2>2. CASE commit_swmod
    BY <1>1, <2>1, <2>2, CommitMove DEF Owning, TypeOK
  <2>3. CASE ~commit_swmod
    BY <2>1, <2>3, CommitMove
  <2>4. QED
    BY <2>2, <2>3
<1>4. QED
  BY <1>2, <1>3

LEMMA CommittedStep ==
    ASSUME HandshakeInv, WrittenInv, CommittedInv, Next
    PROVE  CommittedInv'
<1> USE DEF HandshakeInv, CommittedInv, Holds
<1>1. Clock
  BY PsBusStep
<1>2. CASE commit_swmod
  <2>1. /\ pc = "after"
        /\ active_bank' = before.bank
        /\ committed_words' = call.words
        /\ accepted' = [accepted EXCEPT ![before.bank] = call.frame]
    BY <1>1, <1>2, CommitMove
  <2>2. ram' = ram
    BY <2>1, RamMove DEF WriteWord
  <2>3. accepted'[before.bank] = call.frame
    BY <2>1 DEF TypeOK, PsTypeOK, Snapshots
  <2>4. Holds(before.bank, call.words, call.frame)
    BY <1>2 DEF WrittenInv
  <2>5. QED
    BY <2>1, <2>2, <2>3, <2>4
<1>3. CASE ~commit_swmod
  <2>1. UNCHANGED <<active_bank, committed_words, accepted>>
    BY <1>1, <1>3, CommitMove
  <2>2. ram'[active_bank] = ram[active_bank]
    BY OtherBankKept DEF TypeOK, PlTypeOK, ControlTypeOK
  <2>3. QED
    BY <2>1, <2>2
<1>4. QED
  BY <1>2, <1>3

(* What the driver has written stays in its bank.                          *)
LEMMA WrittenStep ==
    ASSUME HandshakeInv, WrittenInv, Next
    PROVE  WrittenInv'
<1> USE DEF HandshakeInv, WrittenInv, Holds
<1>1. ASSUME pc' \notin {"write", "markers", "readback", "commit"}, ~WriteCommit
      PROVE  WrittenInv'
  BY <1>1, CommitWritten
<1>2. ASSUME UseBank, ~WriteCommit
      PROVE  WrittenInv'
  <2>1. CASE call.words > BankWords
    BY <1>1, <1>2, <2>1, ReturnMove DEF UseBank, Results
  <2>2. CASE ~(call.words > BankWords)
    BY <1>2, <2>2, CommitWritten DEF UseBank, Goto
  <2>3. QED
    BY <2>1, <2>2
<1>3. CASE PsStall
  BY <1>3, CommitWritten DEF PsStall, psVars, WriteCommit
<1>4. CASE CommitFrameCall
  BY <1>1, <1>4 DEF CommitFrameCall, Begin, Goto, WriteCommit
<1>5. CASE SnapshotRead
  BY <1>1, <1>5 DEF SnapshotRead, Snapping, WriteCommit
<1>6. CASE InitEnd \/ ClearErrors \/ SelfTestEnd \/ EnableConsumer
  BY <1>1, <1>6
     DEF InitEnd, ClearErrors, SelfTestEnd, EnableConsumer, BootWrite, Begin,
         Goto, LastSnapshotRead, WriteCommit
<1>7. CASE BeforeEnd
  <2>1. ~WriteCommit /\ before.valid \in BOOLEAN
    BY <1>7 DEF BeforeEnd, LastSnapshotRead, WriteCommit, TypeOK, PsTypeOK, Snapshots
  <2>2. CASE before.status # "READY"
    BY <1>1, <1>7, <2>1, <2>2, ReturnMove DEF BeforeEnd, Results
  <2>3. CASE before.status = "READY" /\ before.valid
    BY <1>2, <1>7, <2>1, <2>3 DEF BeforeEnd
  <2>4. CASE before.status = "READY" /\ ~before.valid
    BY <1>1, <1>7, <2>1, <2>4 DEF BeforeEnd, Goto
  <2>5. QED
    BY <2>1, <2>2, <2>3, <2>4
<1>8. CASE WaitEnd
  <2>1. ~WriteCommit
    BY <1>8 DEF WaitEnd, LastSnapshotRead, WriteCommit
  <2>2. CASE before.valid
    BY <1>2, <1>8, <2>1, <2>2 DEF WaitEnd
  <2>3. CASE ~before.valid
    BY <1>1, <1>8, <2>1, <2>3 DEF WaitEnd, Goto
  <2>4. QED
    BY <2>2, <2>3
<1>9. CASE NotifyDrop \/ AfterEnd
  BY <1>1, <1>9, ReturnMove
     DEF NotifyDrop, AfterEnd, LastSnapshotRead, Results, WriteCommit
<1>10. CASE WriteWord
  <2>1. /\ before.bank \in Banks
        /\ step \in 0 .. BankWords - 1 /\ call.words \in Nat
        /\ UNCHANGED <<call, before>>
    <3>1. before.bank \in Banks /\ call.words \in Words
      BY DEF TypeOK, PsTypeOK, Snapshots
    <3>2. step \in Nat /\ step < call.words
      BY <1>10 DEF WriteWord, TypeOK, PsTypeOK
    <3>3. UNCHANGED <<call, before>>
      BY <1>10 DEF WriteWord
    <3>4. QED
      BY <3>1, <3>2, <3>3, ContractAssumption DEF ContractAssumption
  <2>2. ram'[before.bank] = [ram[before.bank] EXCEPT ![step] = call.frame]
    BY <1>10, <2>1 DEF WriteWord, RamWrite, TypeOK, PlTypeOK
  <2>3. ram[before.bank] \in [0 .. BankWords - 1 -> Frames \cup {NoFrame}]
    BY <2>1 DEF TypeOK, PlTypeOK
  <2>4. \A w \in 0 .. step - 1 : ram[before.bank][w] = call.frame
    BY <1>10 DEF WriteWord
  <2>5. \A w \in 0 .. step : ram'[before.bank][w] = call.frame
    <3> TAKE w \in 0 .. step
    <3>1. CASE w = step
      BY <2>1, <2>2, <2>3, <3>1
    <3>2. CASE w # step
      <4>1. w \in 0 .. step - 1 /\ w \in 0 .. BankWords - 1
        BY <2>1, <3>2, ContractAssumption DEF ContractAssumption
      <4>2. QED
        BY <2>1, <2>2, <2>3, <2>4, <3>2, <4>1
    <3>3. QED
      BY <3>1, <3>2
  <2>6. commit_swmod' = FALSE
    BY <1>10, CommitWritten DEF WriteWord, WriteCommit, Goto
  <2>7. CASE step + 1 = call.words
    BY <1>10, <2>1, <2>5, <2>6, <2>7 DEF WriteWord, Goto
  <2>8. CASE step + 1 # call.words
    BY <1>10, <2>1, <2>5, <2>6, <2>8 DEF WriteWord
  <2>9. QED
    BY <2>7, <2>8
<1>11. CASE WriteMarker
  BY <1>11, CommitWritten DEF WriteMarker, Goto, WriteCommit
<1>12. CASE ReadBack
  <2> DEFINE word == IF step = 0 THEN 0 ELSE call.words - 1
  <2>1. CASE ram[before.bank][word] # call.frame
    BY <1>1, <1>12, <2>1, ReturnMove DEF ReadBack, Results, WriteCommit
  <2>2. CASE ram[before.bank][word] = call.frame
    BY <1>12, <2>2, CommitWritten DEF ReadBack, Goto, WriteCommit
  <2>3. QED
    BY <2>1, <2>2
<1>13. CASE WriteCommit
  BY <1>13 DEF WriteCommit, Goto
<1>14. QED
  BY <1>3, <1>4, <1>5, <1>6, <1>7, <1>8, <1>9, <1>10, <1>11, <1>12, <1>13
     DEF Next
-----------------------------------------------------------------------------
(* The consumer is enabled by one register write.                          *)
LEMMA EnableMove ==
    ASSUME Next, enable'
    PROVE  enable \/ pc = "enable"
<1> USE DEF Access, RegisterWrite
<1>1. CASE PsStall \/ CommitFrameCall \/ SnapshotRead
  BY <1>1 DEF PsStall, CommitFrameCall, SnapshotRead
<1>2. CASE InitEnd \/ BeforeEnd \/ WaitEnd \/ AfterEnd
  BY <1>2 DEF InitEnd, BeforeEnd, WaitEnd, AfterEnd, LastSnapshotRead
<1>3. CASE ClearErrors \/ SelfTestEnd
  BY <1>3 DEF ClearErrors, SelfTestEnd
<1>4. CASE EnableConsumer
  BY <1>4 DEF EnableConsumer, BootWrite
<1>5. CASE NotifyDrop \/ WriteWord \/ WriteMarker \/ ReadBack \/ WriteCommit
  BY <1>5 DEF NotifyDrop, WriteWord, WriteMarker, ReadBack, WriteCommit
<1>6. QED
  BY <1>1, <1>2, <1>3, <1>4, <1>5 DEF Next

(* The driver gets to the enabling of the consumer by the confirmed commit *)
(* of the initial frame only.                                              *)
LEMMA EnableReached ==
    ASSUME HandshakeInv, Next, pc' \in {"reset_fsm", "clear_errors", "enable"}
    PROVE  \/ pc \in {"reset_fsm", "clear_errors", "enable"}
           \/ AfterEnd /\ CommitConfirmed /\ call.name = "initial"
<1> DEFINE Target == {"reset_fsm", "clear_errors", "enable"}
<1> USE DEF HandshakeInv, TypeOK, PsTypeOK
<1>1. ASSUME NEW r \in Results, Return(r)
      PROVE  r = "OK" /\ call.name = "initial"
  BY <1>1 DEF Return, Goto
<1>2. ~UseBank
  BY <1>1 DEF UseBank, Goto, Results
<1>3. CASE PsStall \/ SnapshotRead
  BY <1>3 DEF PsStall, psVars, SnapshotRead
<1>4. CASE CommitFrameCall \/ InitEnd \/ ClearErrors \/ SelfTestEnd
  BY <1>4 DEF CommitFrameCall, InitEnd, ClearErrors, SelfTestEnd, Begin, Goto
<1>5. CASE EnableConsumer
  BY <1>5 DEF EnableConsumer, BootWrite, Goto
<1>6. CASE BeforeEnd
  BY <1>1, <1>2, <1>6 DEF BeforeEnd, Goto, Results, Snapshots
<1>7. CASE WaitEnd
  BY <1>2, <1>7 DEF WaitEnd, Goto
<1>8. CASE NotifyDrop
  BY <1>1, <1>8 DEF NotifyDrop, Results
<1>9. CASE WriteWord \/ WriteMarker \/ WriteCommit
  BY <1>9 DEF WriteWord, WriteMarker, WriteCommit, Goto
<1>10. CASE ReadBack
  BY <1>1, <1>10 DEF ReadBack, Goto, Results
<1>11. CASE AfterEnd
  BY <1>1, <1>11 DEF AfterEnd, Results
<1>12. QED
  BY <1>3, <1>4, <1>5, <1>6, <1>7, <1>8, <1>9, <1>10, <1>11 DEF Next

(* A commit in progress keeps its size.                                    *)
LEMMA CallWords ==
    ASSUME HandshakeInv, WordsInv, Next
    PROVE  (pc \in Committing /\ call.name # "self_test" => call.words = FrameWords)'
<1> SUFFICES ASSUME pc' \in Committing, call'.name # "self_test"
             PROVE  call'.words = FrameWords
  OBVIOUS
<1> USE DEF Committing, HandshakeInv
<1>1. ASSUME NEW r \in Results PROVE ~Return(r)
  BY <1>1, ReturnMove
<1>2. ASSUME UseBank PROVE call' = call
  BY <1>1, <1>2 DEF UseBank, Results
<1>3. ASSUME pc \in Committing, call' = call PROVE call'.words = FrameWords
  BY <1>3 DEF WordsInv
<1>4. CASE PsStall \/ SnapshotRead
  BY <1>3, <1>4 DEF PsStall, psVars, SnapshotRead, Snapping
<1>5. CASE CommitFrameCall
  BY <1>5 DEF CommitFrameCall, Begin, FrameCall
<1>6. CASE ClearErrors \/ SelfTestEnd
  BY <1>6 DEF ClearErrors, SelfTestEnd, Begin, SelfTestCall, InitialCall, Goto
<1>7. CASE InitEnd \/ EnableConsumer
  BY <1>7 DEF InitEnd, EnableConsumer, BootWrite, Goto
<1>8. CASE BeforeEnd
  BY <1>1, <1>2, <1>3, <1>8
     DEF BeforeEnd, LastSnapshotRead, Results, TypeOK, PsTypeOK, Snapshots
<1>9. CASE WaitEnd
  BY <1>2, <1>3, <1>9 DEF WaitEnd, LastSnapshotRead
<1>10. CASE NotifyDrop \/ AfterEnd
  BY <1>1, <1>10 DEF NotifyDrop, AfterEnd, Results
<1>11. CASE WriteWord \/ WriteMarker \/ WriteCommit
  BY <1>3, <1>11 DEF WriteWord, WriteMarker, WriteCommit
<1>12. CASE ReadBack
  BY <1>1, <1>3, <1>12 DEF ReadBack, Results
<1>13. QED
  BY <1>4, <1>5, <1>6, <1>7, <1>8, <1>9, <1>10, <1>11, <1>12 DEF Next
(* COMMITTED_WORDS of the second snapshot is the size of the last commit.  *)
LEMMA AfterWords ==
    ASSUME HandshakeInv, WordsInv, Next
    PROVE  (pc = "after" /\ step >= CommittedWordsRead
              => after.words = committed_words)'
<1> SUFFICES ASSUME pc' = "after", step' >= 12
             PROVE  after'.words = committed_words'
  BY DEF CommittedWordsRead
<1> USE DEF HandshakeInv, CommittedWordsRead
<1>1. Clock /\ step \in Nat
  BY PsBusStep DEF TypeOK, PsTypeOK
<1>2. ASSUME pc = "after", step >= 1 PROVE committed_words' = committed_words
  BY <1>1, <1>2, CommitMove
<1>3. CASE PsStall
  <2>1. pc = "after" /\ step >= 12 /\ after' = after
    BY <1>3 DEF PsStall, psVars
  <2>2. QED
    BY <1>1, <1>2, <2>1 DEF WordsInv
<1>4. CASE SnapshotRead
  <2>1. pc = "after" /\ step' = step + 1 /\ after' = Capture(after, step + 1)
    BY <1>4 DEF SnapshotRead
  <2>2. committed_words' = committed_words
    BY <1>1, <1>2, <2>1
  <2>3. after \in Snapshots
    BY DEF TypeOK, PsTypeOK
  <2>4. CASE step + 1 = 12
    <3>1. after' = [after EXCEPT !.words = committed_words]
      BY <2>1, <2>4
         DEF Capture, StatusRead, ActiveBankRead, WriteBankRead,
             WriteBankValidRead, FrameSequenceRead, FrameRejectedRead
    <3>2. QED
      BY <2>2, <2>3, <3>1 DEF Snapshots
  <2>5. CASE step + 1 # 12
    <3>1. step >= 12
      BY <1>1, <2>1, <2>5
    <3>2. after'.words = after.words
      BY <1>1, <2>1, <2>3, <2>5
         DEF Capture, Snapshots, StatusRead, ActiveBankRead, WriteBankRead,
             WriteBankValidRead, FrameSequenceRead, FrameRejectedRead
    <3>3. QED
      BY <2>1, <2>2, <3>1, <3>2 DEF WordsInv
  <2>6. QED
    BY <2>4, <2>5
<1>5. ~(CommitFrameCall \/ InitEnd \/ ClearErrors \/ SelfTestEnd)
  BY DEF CommitFrameCall, InitEnd, ClearErrors, SelfTestEnd, Begin, Goto
<1>6. ~EnableConsumer
  BY DEF EnableConsumer, BootWrite, Goto
<1>7. ASSUME NEW r \in Results PROVE ~Return(r)
  BY <1>7, ReturnMove
<1>8. ~(BeforeEnd \/ WaitEnd \/ NotifyDrop \/ AfterEnd)
  BY <1>7
     DEF BeforeEnd, WaitEnd, NotifyDrop, AfterEnd, UseBank, Goto, Results,
         LastSnapshotRead, TypeOK, PsTypeOK, Snapshots
<1>9. ~(WriteWord \/ WriteMarker \/ WriteCommit)
  BY DEF WriteWord, WriteMarker, WriteCommit, Goto
<1>10. ~ReadBack
  BY <1>7 DEF ReadBack, Goto, Results
<1>11. QED
  BY <1>3, <1>4, <1>5, <1>6, <1>8, <1>9, <1>10 DEF Next

(* The consumer is enabled, and stays so, with a frame of the size the     *)
(* configuration needs.                                                    *)
LEMMA EnabledWords ==
    ASSUME HandshakeInv, WordsInv, Next
    PROVE  (enable \/ pc \in {"reset_fsm", "clear_errors", "enable"}
              => committed_words = FrameWords)'
<1> SUFFICES ASSUME enable' \/ pc' \in {"reset_fsm", "clear_errors", "enable"}
             PROVE  committed_words' = FrameWords
  OBVIOUS
<1> USE DEF HandshakeInv
<1>1. Clock
  BY PsBusStep
<1>2. CASE commit_swmod
  <2>1. pc = "after" /\ step = 0 /\ committed_words' = call.words
    BY <1>1, <1>2, CommitMove
  <2>2. pc' = "after"
    BY <2>1, AfterMove, SnapshotLength, ContractAssumption DEF ContractAssumption
  <2>3. enable
    BY <2>1, <2>2, EnableMove
  <2>4. call.name = "frame"
    BY <2>3 DEF BootInv
  <2>5. QED
    BY <2>1, <2>4 DEF WordsInv, Committing
<1>3. CASE ~commit_swmod
  <2>1. committed_words' = committed_words
    BY <1>1, <1>3, CommitMove
  <2>2. CASE enable'
    BY <2>1, <2>2, EnableMove DEF WordsInv
  <2>3. CASE pc' \in {"reset_fsm", "clear_errors", "enable"}
    <3>1. CASE pc \in {"reset_fsm", "clear_errors", "enable"}
      BY <2>1, <3>1 DEF WordsInv
    <3>2. CASE AfterEnd /\ CommitConfirmed /\ call.name = "initial"
      <4>1. pc = "after" /\ step >= CommittedWordsRead
        BY <3>2, SnapshotLength, ContractAssumption
           DEF AfterEnd, LastSnapshotRead, CommittedWordsRead,
               ContractAssumption, TypeOK, PsTypeOK
      <4>2. after.words = committed_words /\ after.words = call.words
        BY <3>2, <4>1 DEF WordsInv, CommitConfirmed
      <4>3. call.words = FrameWords
        BY <3>2, <4>1 DEF WordsInv, Committing
      <4>4. QED
        BY <2>1, <4>2, <4>3
    <3>3. QED
      BY <2>3, <3>1, <3>2, EnableReached
  <2>4. QED
    BY <2>2, <2>3
<1>4. QED
  BY <1>2, <1>3

(* The consumer reads the accepted frame, and nothing else.                *)
LEMMA ReadStep ==
    ASSUME ContentInv, Next
    PROVE  ReadInv'
<1> USE DEF ContentInv, HandshakeInv, ReadInv, NoTornFrame, Scanning, Reading,
            HoldState, HoldBusyBank, HoldFrame
<1>1. /\ Clock
      /\ ConsumerClock(enable, reset_pulse, active_bank, committed_words,
                       frame_sequence, FrameWords, ram)
      /\ active_bank \in Banks /\ tx_active_bank \in Banks
  BY PsBusStep DEF Clock, PlClock, TypeOK, PlTypeOK, ControlTypeOK
<1>2. ASSUME tx_state # "TX_IDLE"
      PROVE  /\ ram'[tx_active_bank] = ram[tx_active_bank]
             /\ accepted'[tx_active_bank] = accepted[tx_active_bank]
             /\ tx_words = FrameWords
             /\ Holds(tx_active_bank, tx_words, accepted[tx_active_bank])
             /\ ~reset_pulse
  BY <1>1, <1>2, OtherBankKept, ResetAtRest
<1>3. ASSUME tx_state # "TX_IDLE", UNCHANGED <<tx_active_bank, tx_words>>
      PROVE  /\ (tx_words = FrameWords)'
             /\ Holds(tx_active_bank, tx_words, accepted[tx_active_bank])'
  BY <1>2, <1>3 DEF Holds
<1>4. CASE TxIdle(enable, reset_pulse, active_bank, frame_sequence, FrameWords)
  <2>1. CASE enable /\ frame_sequence # consumer_sequence
    <3>1. /\ tx_state' = "TX_COMPUTE_CONFIG"
          /\ tx_active_bank' = active_bank
          /\ tx_words' = FrameWords /\ line' = {}
      BY <1>4, <2>1 DEF TxIdle
    <3>2. committed_words = FrameWords
      BY <2>1 DEF WordsInv
    <3>3. ram'[active_bank] = ram[active_bank]
          /\ accepted'[active_bank] = accepted[active_bank]
      BY <1>1, OtherBankKept
    <3>4. Holds(tx_active_bank, tx_words, accepted[tx_active_bank])'
      BY <3>1, <3>2, <3>3 DEF CommittedInv, Holds
    <3>5. QED
      BY <3>1, <3>4
  <2>2. CASE ~(enable /\ frame_sequence # consumer_sequence)
    BY <1>4, <2>2 DEF TxIdle
  <2>3. QED
    BY <2>1, <2>2
<1>5. CASE TxComputeConfig(reset_pulse)
  BY <1>2, <1>3, <1>5 DEF TxComputeConfig
<1>6. CASE TxValidate(committed_words)
  BY <1>2, <1>3, <1>6 DEF TxValidate
<1>7. CASE TxTransmit(reset_pulse, ram)
  <2>1. tx_state' \in Reading /\ UNCHANGED <<tx_active_bank, tx_words>>
    BY <1>2, <1>7 DEF TxTransmit, TxFetch, TxSent
  <2>2. line \subseteq {accepted[tx_active_bank]}
    BY <1>7 DEF TxTransmit, TxFetch, TxSent
  <2>3. line' \subseteq {accepted[tx_active_bank]}
    <3>1. CASE TxFetch(reset_pulse, ram)
      <4>1. fetched \in 0 .. tx_words - 1
        BY <3>1, ContractAssumption
           DEF TxFetch, TypeOK, PlTypeOK, ContractAssumption
      <4>2. ram[tx_active_bank][fetched] = accepted[tx_active_bank]
        BY <1>2, <3>1, <4>1 DEF TxFetch, Holds
      <4>3. QED
        BY <2>2, <3>1, <4>2 DEF TxFetch
    <3>2. CASE ~TxFetch(reset_pulse, ram)
      BY <1>7, <2>2, <3>2 DEF TxTransmit, TxSent
    <3>3. QED
      BY <3>1, <3>2
  <2>4. accepted'[tx_active_bank'] = accepted[tx_active_bank]
    BY <1>2, <1>7, <2>1 DEF TxTransmit, TxFetch, TxSent
  <2>5. tx_state # "TX_IDLE"
    BY <1>7 DEF TxTransmit, TxFetch, TxSent
  <2>6. QED
    BY <1>3, <2>1, <2>3, <2>4, <2>5
<1>8. CASE TxFault(reset_pulse)
  BY <1>2, <1>3, <1>8 DEF TxFault
<1>9. CASE TxReset(reset_pulse)
  BY <1>2, <1>3, <1>9 DEF TxReset
<1>10. CASE TxError
  BY <1>10 DEF TxError
<1>11. QED
  BY <1>1, <1>4, <1>5, <1>6, <1>7, <1>8, <1>9, <1>10 DEF ConsumerClock

-----------------------------------------------------------------------------
LEMMA ContentInit == Init => ContentInv
BY HandshakeInit, ContractAssumption
   DEF Init, PlInit, ControlInit, ConsumerInit, PsInit, ContentInv, WrittenInv,
       CommittedInv, WordsInv, ReadInv, NoTornFrame, Holds, Committing,
       Scanning, Reading, ContractAssumption

LEMMA ContentStep == ContentInv /\ [Next]_vars => ContentInv'
<1> SUFFICES ASSUME ContentInv, [Next]_vars PROVE ContentInv'
  OBVIOUS
<1>1. HandshakeInv'
  BY HandshakeStep DEF ContentInv
<1>2. CASE Next
  <2>1. WrittenInv' /\ CommittedInv'
    BY <1>2, WrittenStep, CommittedStep DEF ContentInv
  <2>2. WordsInv'
    BY <1>2, CallWords, AfterWords, EnabledWords DEF ContentInv, WordsInv
  <2>3. ReadInv'
    BY <1>2, ReadStep
  <2>4. QED
    BY <1>1, <2>1, <2>2, <2>3 DEF ContentInv
<1>3. CASE UNCHANGED vars
  BY <1>1, <1>3
     DEF vars, psVars, plVars, controlVars, fieldVars, consumerVars,
         ContentInv, WrittenInv, CommittedInv, WordsInv, ReadInv, NoTornFrame,
         Holds
<1>4. QED
  BY <1>2, <1>3

(* No frame is torn: whatever the consumer has fetched of a frame is of    *)
(* the one frame the PL accepted for the bank it reads.                    *)
THEOREM FramesAreWhole == Spec => []NoTornFrame
<1>1. ContentInv => NoTornFrame
  BY DEF ContentInv, ReadInv
<1>2. QED
  BY <1>1, ContentInit, ContentStep, PTL DEF Spec

-----------------------------------------------------------------------------
(***************************************************************************)
(* The driver's side of the channel: what its snapshots hold.              *)
(***************************************************************************)
DriverInv ==
    /\ before.status = "READY" /\ after.status = "READY"
    /\ ConfirmInv
    /\ BootCommitInv
    /\ OnlyFullBanksFail

-----------------------------------------------------------------------------
(* The registers the driver compares change with a commit only.            *)
LEMMA SequenceMove ==
    ASSUME HandshakeInv, Clock
    PROVE  frame_sequence' = IF commit_swmod THEN Increment(frame_sequence)
                             ELSE frame_sequence
<1>1. CASE commit_swmod
  BY <1>1, CommitLands DEF Clock, PlClock, ControlClock, CommitFrame
<1>2. CASE ~commit_swmod
  BY <1>2 DEF Clock, PlClock, ControlClock, CommitFrame, CommitAccepted
<1> QED
  BY <1>1, <1>2

(* When a commit takes effect the driver is at the start of the snapshot   *)
(* that will confirm it.                                                   *)
LEMMA LandingMove ==
    ASSUME HandshakeInv, Next, commit_swmod
    PROVE  /\ pc = "after" /\ pc' = "after" /\ step' \in {0, 1} /\ ~commit_swmod'
           /\ UNCHANGED <<call, before, after, result>>
<1>1. TypeOK /\ pc = "after" /\ step = 0
  BY DEF HandshakeInv, LandInv
<1>2. /\ commit_swmod' = FALSE
      /\ pc' = "after" /\ step' \in {0, 1}
  BY <1>1, AfterMove, SnapshotLength, ContractAssumption DEF ContractAssumption
<1>3. CASE PsStall
  BY <1>1, <1>2, <1>3 DEF PsStall, psVars
<1>4. CASE SnapshotRead
  <2>1. after' = Capture(after, step + 1) /\ UNCHANGED <<call, before, result>>
    BY <1>1, <1>4 DEF SnapshotRead
  <2>2. Capture(after, step + 1) = after
    BY <1>1
       DEF Capture, StatusRead, ActiveBankRead, WriteBankRead,
           WriteBankValidRead, FrameSequenceRead, CommittedWordsRead,
           FrameRejectedRead
  <2> QED
    BY <1>1, <1>2, <2>1, <2>2
<1>5. ~AfterEnd
  BY <1>1, SnapshotLength, ContractAssumption
     DEF AfterEnd, LastSnapshotRead, ContractAssumption
<1>6. ~(CommitFrameCall \/ InitEnd \/ ClearErrors \/ SelfTestEnd)
  BY <1>1 DEF CommitFrameCall, InitEnd, ClearErrors, SelfTestEnd, LastSnapshotRead
<1>7. ~(EnableConsumer \/ BeforeEnd \/ WaitEnd \/ NotifyDrop)
  BY <1>1 DEF EnableConsumer, BootWrite, BeforeEnd, WaitEnd, NotifyDrop,
     LastSnapshotRead
<1>8. ~(WriteWord \/ WriteMarker \/ ReadBack \/ WriteCommit)
  BY <1>1 DEF WriteWord, WriteMarker, ReadBack, WriteCommit
<1> QED
  BY <1>3, <1>4, <1>5, <1>6, <1>7, <1>8 DEF Next

LEMMA LandingDriver ==
    ASSUME HandshakeInv, DriverInv, Next, commit_swmod
    PROVE  DriverInv'
<1>1. /\ pc = "after" /\ pc' = "after" /\ step' \in {0, 1} /\ ~commit_swmod'
      /\ UNCHANGED <<call, before, after, result>>
  BY LandingMove
<1>2. /\ frame_sequence' = Increment(frame_sequence)
      /\ active_bank' = before.bank
      /\ committed_words' = call.words
  BY PsBusStep, CommitMove, SequenceMove DEF HandshakeInv
<1>3. ConfirmInv'
  BY <1>1, <1>2
     DEF DriverInv, ConfirmInv, ActiveBankRead, WriteBankRead, FrameSequenceRead
<1>4. BootCommitInv' /\ OnlyFullBanksFail'
  BY <1>1 DEF DriverInv, BootCommitInv, OnlyFullBanksFail
<1> QED
  BY <1>1, <1>3, <1>4 DEF DriverInv

-----------------------------------------------------------------------------
(* The steps of the driver while no commit is in flight.                   *)

Registers == <<active_bank, committed_words, frame_sequence>>

(* What a read adds to a snapshot.                                         *)
LEMMA CaptureValue ==
    ASSUME HandshakeInv, FaultFreeInv, NEW s \in Snapshots, NEW n \in Nat
    PROVE  /\ Capture(s, n) \in Snapshots
           /\ s.status = "READY" => Capture(s, n).status = "READY"
           /\ s.rejected = 0 => Capture(s, n).rejected = 0
           /\ Capture(s, n).active =
                IF n = ActiveBankRead THEN active_bank ELSE s.active
           /\ Capture(s, n).bank =
                IF n = WriteBankRead THEN WriteBank ELSE s.bank
           /\ Capture(s, n).valid =
                IF n = WriteBankValidRead THEN WriteBankValid(consumer_active_bank)
                ELSE s.valid
           /\ Capture(s, n).sequence =
                IF n = FrameSequenceRead THEN frame_sequence ELSE s.sequence
<1>1. Capture(s, n) \in Snapshots
  BY CaptureType DEF HandshakeInv
<1>2. status = "READY" /\ frame_rejected = 0
  BY DEF FaultFreeInv, HandshakeInv, CommitNeverRefused
<1> QED
  BY <1>1, <1>2
     DEF Capture, Snapshots, StatusRead, ActiveBankRead, WriteBankRead,
         WriteBankValidRead, FrameSequenceRead, CommittedWordsRead,
         FrameRejectedRead

(* A call that returns leaves two blank snapshots.                         *)
LEMMA ReturnDriver ==
    ASSUME HandshakeInv, DriverInv, NEW r \in {"OK", "NO_FREE_BANK"}, Return(r),
           ~commit_swmod',
           call.name # "frame" => r = "OK",
           call.name = "self_test" =>
              frame_sequence' = Increment(0) /\ committed_words' = SelfTestWords
    PROVE  DriverInv'
<1>1. /\ pc' \in {"main", "self_test", "reset_fsm"}
      /\ pc' = "self_test" => call.name = "self_test"
      /\ call' = NoCall /\ before' = BlankSnapshot /\ after' = BlankSnapshot
      /\ result' = r
  BY DEF Return, Goto, HandshakeInv, TypeOK, PsTypeOK
<1>2. /\ before'.status = "READY" /\ after'.status = "READY"
      /\ before'.rejected = 0 /\ after'.rejected = 0
      /\ call'.name = "frame"
  BY <1>1 DEF BlankSnapshot, NoCall
<1>3. ConfirmInv'
  BY <1>1, <1>2 DEF ConfirmInv
<1>4. BootCommitInv' /\ OnlyFullBanksFail'
  BY <1>1, <1>2 DEF BootCommitInv, OnlyFullBanksFail
<1> QED
  BY <1>2, <1>3, <1>4 DEF DriverInv

(* So does one that begins.                                                *)
LEMMA BeginDriver ==
    ASSUME DriverInv, NEW c, Begin(c), ~commit_swmod', result' = result,
           c.name = "self_test" => c.words = SelfTestWords /\ frame_sequence' = 0
    PROVE  DriverInv'
<1>1. /\ pc' = "before" /\ step' = 0 /\ call' = c
      /\ before' = BlankSnapshot /\ after' = BlankSnapshot
  BY DEF Begin, Goto
<1>2. /\ before'.status = "READY" /\ after'.status = "READY"
      /\ before'.rejected = 0 /\ after'.rejected = 0
      /\ before'.sequence = 0
  BY <1>1 DEF BlankSnapshot
<1>3. ConfirmInv'
  BY <1>1, <1>2 DEF ConfirmInv, FrameSequenceRead
<1>4. BootCommitInv' /\ OnlyFullBanksFail'
  BY <1>1, <1>2 DEF BootCommitInv, OnlyFullBanksFail, DriverInv, WriteBankValidRead
<1> QED
  BY <1>2, <1>3, <1>4 DEF DriverInv

(* The sequence number a driver that owns a bank read is still the one of  *)
(* the register.                                                           *)
LEMMA OwnedSequence ==
    ASSUME ConfirmInv,
           \/ pc = "before" /\ step >= FrameSequenceRead
           \/ pc = "wait"
           \/ pc = "write"
           \/ pc = "markers"
           \/ pc = "readback"
           \/ pc = "commit"
    PROVE  before.sequence = frame_sequence
<1>1. CASE pc = "before" /\ step >= FrameSequenceRead
  BY <1>1 DEF ConfirmInv
<1>2. CASE pc \in {"wait", "write", "markers", "readback", "commit"}
  BY <1>2 DEF ConfirmInv
<1> QED
  BY <1>1, <1>2

(* During the boot every bank is free.                                     *)
LEMMA BootBankFree ==
    ASSUME HandshakeInv, call.name # "frame"
    PROVE  WriteBankValid(consumer_active_bank)
BY DEF HandshakeInv, BootInv, BusyInv, WriteBankValid, Reading

LEMMA SnapshotDriver ==
    ASSUME HandshakeInv, FaultFreeInv, DriverInv, SnapshotRead, ~commit_swmod,
           ~commit_swmod', UNCHANGED Registers
    PROVE  DriverInv'
<1>1. /\ before \in Snapshots /\ after \in Snapshots /\ step + 1 \in Nat
      /\ step \in Nat
  BY DEF HandshakeInv, TypeOK, PsTypeOK
<1>2. /\ pc \in Snapping /\ pc' = pc /\ step' = step + 1
      /\ UNCHANGED <<call, result>> /\ WriteBank' = WriteBank
      /\ UNCHANGED <<active_bank, committed_words, frame_sequence>>
  BY DEF SnapshotRead, Registers, WriteBank
<1>3. CASE pc = "after"
  <2>1. after' = Capture(after, step + 1) /\ before' = before
    BY <1>3 DEF SnapshotRead
  <2>2. /\ after.status = "READY" => after'.status = "READY"
        /\ after.rejected = 0 => after'.rejected = 0
        /\ after'.active = IF step + 1 = 6 THEN active_bank ELSE after.active
        /\ after'.bank = IF step + 1 = 7 THEN WriteBank ELSE after.bank
        /\ after'.sequence = IF step + 1 = 10 THEN frame_sequence ELSE after.sequence
    BY <1>1, <2>1, CaptureValue DEF ActiveBankRead, WriteBankRead, FrameSequenceRead
  <2>3. ConfirmInv'
    BY <1>1, <1>2, <1>3, <2>1, <2>2
       DEF DriverInv, ConfirmInv, ActiveBankRead, WriteBankRead, FrameSequenceRead
  <2>4. BootCommitInv' /\ OnlyFullBanksFail'
    BY <1>2, <1>3, <2>1 DEF DriverInv, BootCommitInv, OnlyFullBanksFail
  <2> QED
    BY <2>1, <2>2, <2>3, <2>4 DEF DriverInv
<1>4. CASE pc # "after"
  <2>1. before' = Capture(before, step + 1) /\ after' = after
    BY <1>4 DEF SnapshotRead
  <2>2. /\ before.status = "READY" => before'.status = "READY"
        /\ before.rejected = 0 => before'.rejected = 0
        /\ before'.valid = IF step + 1 = 8 THEN WriteBankValid(consumer_active_bank)
                           ELSE before.valid
        /\ before'.sequence = IF step + 1 = 10 THEN frame_sequence ELSE before.sequence
    BY <1>1, <2>1, CaptureValue DEF WriteBankValidRead, FrameSequenceRead
  <2>3. ConfirmInv'
    BY <1>1, <1>2, <1>4, <2>1, <2>2
       DEF DriverInv, ConfirmInv, FrameSequenceRead, Snapping
  <2>4. BootCommitInv'
    <3>1. call.name = "self_test" => frame_sequence = 0 /\ before'.sequence = 0
      BY <1>4, <2>2 DEF DriverInv, BootCommitInv
    <3>2. call.name # "frame" /\ pc = "before" /\ step + 1 >= 8 => before'.valid
      BY <1>1, <2>2, BootBankFree
         DEF DriverInv, BootCommitInv, WriteBankValidRead
    <3> QED
      BY <1>1, <1>2, <1>4, <3>1, <3>2
         DEF DriverInv, BootCommitInv, WriteBankValidRead, Snapping
  <2>5. OnlyFullBanksFail'
    BY <1>2 DEF DriverInv, OnlyFullBanksFail
  <2> QED
    BY <2>1, <2>2, <2>3, <2>4, <2>5 DEF DriverInv
<1> QED
  BY <1>3, <1>4

(* The decision for a bank never fails for its size.                       *)
LEMMA UseBankMove ==
    ASSUME HandshakeInv, UseBank
    PROVE  pc' = "write" /\ step' = 0 /\ UNCHANGED <<call, before, after, result>>
<1>1. ~(call.words > BankWords)
  BY ContractAssumption
     DEF HandshakeInv, TypeOK, PsTypeOK, Words, ContractAssumption
<1> QED
  BY <1>1 DEF UseBank, Goto

(* A commit that goes on with the same snapshots.                          *)
LEMMA ContinueDriver ==
    ASSUME DriverInv, ~commit_swmod, UNCHANGED Registers,
           UNCHANGED <<call, before, after, result>>,
           before.sequence = frame_sequence,
           \/ pc' \in {"write", "markers", "readback", "commit"}
           \/ pc' \in {"wait", "drop"} /\ call.name = "frame"
           \/ pc' = "after" /\ step' = 0 /\ commit_swmod',
           pc # "after"
    PROVE  DriverInv'
<1>1. UNCHANGED <<active_bank, committed_words, frame_sequence>>
  BY DEF Registers
<1>2. ConfirmInv'
  <2>1. before'.sequence = frame_sequence' /\ before'.rejected = 0 /\ after'.rejected = 0
    BY <1>1 DEF DriverInv, ConfirmInv
  <2>2. CASE pc' \in {"write", "markers", "readback", "commit", "wait", "drop"}
    BY <2>1, <2>2 DEF ConfirmInv
  <2>3. CASE pc' = "after" /\ step' = 0 /\ commit_swmod'
    BY <2>1, <2>3
       DEF ConfirmInv, ActiveBankRead, WriteBankRead, FrameSequenceRead
  <2> QED
    BY <2>2, <2>3
<1>3. BootCommitInv' /\ OnlyFullBanksFail'
  BY <1>1 DEF DriverInv, BootCommitInv, OnlyFullBanksFail
<1> QED
  BY <1>2, <1>3 DEF DriverInv

(* A step outside of a commit.                                             *)
LEMMA OutsideDriver ==
    ASSUME DriverInv, ~commit_swmod', UNCHANGED Registers,
           UNCHANGED <<call, before, after, result>>,
           pc' \notin Committing \cup {"init", "self_test", "fatal"},
           pc' = "clear" => frame_sequence = 0,
           pc' = "check_consumer" => enable',
           call.name = "frame"
    PROVE  DriverInv'
<1>1. UNCHANGED <<active_bank, committed_words, frame_sequence>>
  BY DEF Registers
<1>2. ConfirmInv'
  BY <1>1 DEF DriverInv, ConfirmInv, Committing
<1>3. BootCommitInv' /\ OnlyFullBanksFail'
  BY <1>1 DEF DriverInv, BootCommitInv, OnlyFullBanksFail, Committing
<1> QED
  BY <1>2, <1>3 DEF DriverInv

LEMMA EnableDriver ==
    ASSUME HandshakeInv, DriverInv, ~consumer_error, EnableConsumer,
           ~commit_swmod', UNCHANGED Registers
    PROVE  DriverInv'
<1>1. UNCHANGED <<call, before, after, result>>
  BY DEF EnableConsumer, BootWrite
<1>2. pc' \in {"clear_errors", "enable", "check_consumer", "main", "fatal"}
  BY DEF EnableConsumer, BootWrite, Goto
<1>3. pc' = "check_consumer" => enable'
  BY DEF EnableConsumer, BootWrite, Goto, Access, RegisterWrite
<1>4. pc' # "fatal"
  BY DEF EnableConsumer, BootWrite, Goto, DriverInv, BootCommitInv
<1>5. call.name = "frame"
  <2>1. pc \in {"reset_fsm", "clear_errors", "enable", "check_consumer"}
    BY DEF EnableConsumer, BootWrite
  <2>2. pc = "check_consumer" => enable
    BY DEF DriverInv, BootCommitInv
  <2> QED
    BY <2>1, <2>2 DEF HandshakeInv, BootInv, Booting
<1> QED
  BY <1>1, <1>2, <1>3, <1>4, <1>5, OutsideDriver DEF Committing

(* The second snapshot confirms the commit.                                *)
LEMMA AfterDriver ==
    ASSUME HandshakeInv, WordsInv, DriverInv, AfterEnd, ~commit_swmod,
           ~commit_swmod', UNCHANGED Registers
    PROVE  DriverInv'
<1>1. /\ pc = "after" /\ step >= 15
      /\ Return(IF CommitConfirmed THEN "OK" ELSE "COMMIT_FAILED")
  BY SnapshotLength, ContractAssumption
     DEF AfterEnd, LastSnapshotRead, HandshakeInv, TypeOK, PsTypeOK,
         ContractAssumption
<1>2. /\ frame_sequence = Increment(before.sequence)
      /\ active_bank = before.bank
      /\ committed_words = call.words
  BY <1>1 DEF DriverInv, ConfirmInv
<1>3. step \in Nat
  BY DEF HandshakeInv, TypeOK, PsTypeOK
<1>4. /\ after.active = active_bank
      /\ after.bank = WriteBank
      /\ after.sequence = frame_sequence
      /\ after.words = committed_words
  BY <1>1, <1>3
     DEF DriverInv, ConfirmInv, WordsInv, ActiveBankRead, WriteBankRead,
         FrameSequenceRead, CommittedWordsRead
<1>5. CommitConfirmed
  BY <1>2, <1>4 DEF CommitConfirmed, WriteBank, DriverInv, ConfirmInv
<1>6. call.name = "self_test" =>
         frame_sequence' = Increment(0) /\ committed_words' = SelfTestWords
  BY <1>2 DEF DriverInv, BootCommitInv, Registers
<1> QED
  BY <1>1, <1>5, <1>6, ReturnDriver

LEMMA DriverStep ==
    ASSUME ContentInv, FaultFreeInv, DriverInv, Next
    PROVE  DriverInv'
<1> USE DEF ContentInv
<1>1. CASE commit_swmod
  BY <1>1, LandingDriver
<1>2. CASE ~commit_swmod
  <2>1. UNCHANGED Registers
    BY <1>2, PsBusStep, CommitMove, SequenceMove DEF HandshakeInv, Registers
  <2>2. ~WriteCommit => ~commit_swmod'
    BY CommitWritten
  <2>3. step + 1 = SnapshotReads => step >= 15
    BY SnapshotLength, ContractAssumption
       DEF HandshakeInv, TypeOK, PsTypeOK, ContractAssumption
  <2>4. CASE PsStall
    <3>1. UNCHANGED <<pc, step, call, before, after, result, enable>>
      BY <2>4 DEF PsStall, psVars, Access, RegisterWrite
    <3>2. ~commit_swmod'
      BY <2>2, <2>4 DEF PsStall, Access, RegisterWrite
    <3> QED
      BY <1>2, <2>1, <3>1, <3>2
         DEF DriverInv, ConfirmInv, BootCommitInv, OnlyFullBanksFail, Registers,
             WriteBank
  <2>5. CASE CommitFrameCall
    <3>1. PICK f \in Frames : Begin(FrameCall(f))
      BY <2>5 DEF CommitFrameCall
    <3> QED
      BY <2>2, <2>5, <3>1, BeginDriver DEF CommitFrameCall, FrameCall, WriteCommit
  <2>6. CASE SnapshotRead
    BY <1>2, <2>1, <2>2, <2>6, SnapshotDriver DEF SnapshotRead, WriteCommit, Snapping
  <2>7. CASE InitEnd
    <3>1. pc = "init" /\ pc' = "clear" /\ UNCHANGED <<call, before, after, result>>
      BY <2>7 DEF InitEnd, LastSnapshotRead, Goto, DriverInv
    <3>2. frame_sequence = 0 /\ call.name = "frame"
      BY <3>1 DEF DriverInv, BootCommitInv, HandshakeInv, BootInv, Booting
    <3> QED
      BY <2>1, <2>2, <3>1, <3>2, OutsideDriver DEF Committing, WriteCommit
  <2>8. CASE ClearErrors
    <3>1. pc = "clear" /\ Begin(SelfTestCall) /\ result' = result
      BY <2>8 DEF ClearErrors
    <3>2. frame_sequence' = 0
      BY <2>1, <3>1 DEF DriverInv, BootCommitInv, Registers
    <3> QED
      BY <2>2, <3>1, <3>2, BeginDriver DEF SelfTestCall, WriteCommit
  <2>9. CASE SelfTestEnd
    <3>1. pc = "self_test" /\ Begin(InitialCall) /\ result' = result
      BY <2>9 DEF SelfTestEnd, DriverInv, BootCommitInv
    <3> QED
      BY <2>2, <3>1, BeginDriver DEF InitialCall, WriteCommit
  <2>10. CASE EnableConsumer
    BY <2>1, <2>2, <2>10, EnableDriver
       DEF EnableConsumer, BootWrite, WriteCommit, FaultFreeInv
  <2>11. CASE BeforeEnd
    <3>1. /\ pc = "before" /\ before.status = "READY" /\ before.valid \in BOOLEAN
          /\ before.sequence = frame_sequence
          /\ call.name # "frame" => before.valid
      <4>1. pc = "before" /\ step + 1 = SnapshotReads /\ step \in Nat
        BY <2>11 DEF BeforeEnd, LastSnapshotRead, HandshakeInv, TypeOK, PsTypeOK
      <4>2. step >= FrameSequenceRead /\ step >= WriteBankValidRead
        BY <2>3, <4>1 DEF FrameSequenceRead, WriteBankValidRead
      <4>3. before.sequence = frame_sequence
        BY <4>1, <4>2, OwnedSequence DEF DriverInv
      <4>4. before.status = "READY" /\ (call.name # "frame" => before.valid)
        BY <4>1, <4>2 DEF DriverInv, BootCommitInv
      <4>5. before.valid \in BOOLEAN
        BY DEF HandshakeInv, TypeOK, PsTypeOK, Snapshots
      <4> QED
        BY <4>1, <4>3, <4>4, <4>5
    <3>2. CASE before.valid
      BY <1>2, <2>1, <2>11, <3>1, <3>2, UseBankMove, ContinueDriver DEF BeforeEnd
    <3>3. CASE ~before.valid
      BY <1>2, <2>1, <2>11, <3>1, <3>3, ContinueDriver DEF BeforeEnd, Goto
    <3> QED
      BY <3>1, <3>2, <3>3
  <2>12. CASE WaitEnd
    <3>1. /\ pc = "wait" /\ before.sequence = frame_sequence /\ call.name = "frame"
      <4>1. pc = "wait"
        BY <2>12 DEF WaitEnd, LastSnapshotRead
      <4>2. before.sequence = frame_sequence
        BY <4>1, OwnedSequence DEF DriverInv
      <4> QED
        BY <4>1, <4>2 DEF DriverInv, BootCommitInv
    <3>2. CASE before.valid
      BY <1>2, <2>1, <2>12, <3>1, <3>2, UseBankMove, ContinueDriver DEF WaitEnd
    <3>3. CASE ~before.valid
      BY <1>2, <2>1, <2>12, <3>1, <3>3, ContinueDriver DEF WaitEnd, Goto
    <3> QED
      BY <3>2, <3>3
  <2>13. CASE NotifyDrop
    <3>1. call.name = "frame"
      BY <2>13 DEF NotifyDrop, DriverInv, BootCommitInv
    <3> QED
      BY <2>2, <2>13, <3>1, ReturnDriver DEF NotifyDrop, WriteCommit
  <2>14. CASE WriteWord \/ WriteMarker \/ WriteCommit
    <3>1. /\ pc \in {"write", "markers", "commit"}
          /\ UNCHANGED <<call, before, after, result>>
      BY <2>14 DEF WriteWord, WriteMarker, WriteCommit
    <3>2. before.sequence = frame_sequence
      BY <3>1, OwnedSequence DEF DriverInv
    <3>3. \/ pc' \in {"write", "markers", "readback"}
          \/ pc' = "after" /\ step' = 0 /\ commit_swmod'
      BY <2>14 DEF WriteWord, WriteMarker, WriteCommit, Goto, RegisterWrite
    <3> QED
      BY <1>2, <2>1, <3>1, <3>2, <3>3, ContinueDriver
  <2>15. CASE ReadBack
    <3> DEFINE word == IF step = 0 THEN 0 ELSE call.words - 1
    <3>1. pc = "readback" /\ before.sequence = frame_sequence
      <4>1. pc = "readback"
        BY <2>15 DEF ReadBack
      <4> QED
        BY <4>1, OwnedSequence DEF DriverInv
    <3>2. word \in 0 .. call.words - 1
      <4>1. call.words \in Nat /\ call.words >= 1
        BY <3>1, ContractAssumption
           DEF HandshakeInv, TypeOK, PsTypeOK, Words, Committing,
               ContractAssumption
      <4> QED
        BY <4>1
    <3>3. ram[before.bank][word] = call.frame
      BY <3>1, <3>2 DEF WrittenInv, Holds
    <3>4. /\ pc' \in {"readback", "commit"}
          /\ UNCHANGED <<call, before, after, result>>
      BY <2>15, <3>1, <3>3 DEF ReadBack, Goto
    <3> QED
      BY <1>2, <2>1, <3>1, <3>4, ContinueDriver
  <2>16. CASE AfterEnd
    BY <1>2, <2>1, <2>2, <2>16, AfterDriver DEF AfterEnd, LastSnapshotRead, WriteCommit
  <2> QED
    BY <2>4, <2>5, <2>6, <2>7, <2>8, <2>9, <2>10, <2>11, <2>12, <2>13, <2>14,
       <2>15, <2>16 DEF Next
<1> QED
  BY <1>1, <1>2

-----------------------------------------------------------------------------
(* The consumer.                                                           *)

(* Without faults a consumer that picked a frame works until it shows it.  *)
LEMMA FaultFreeMove ==
    ASSUME ContentInv, FaultFreeInv, PickedInv, ~ReadFaults, Next
    PROVE  /\ error_pulse' = FALSE /\ tx_state' # "TX_ERROR"
           /\ tx_state' \in {"TX_SEND", "TX_RESET"} => line' # {}
           /\ \/ /\ tx_state = "TX_IDLE" /\ tx_state' = "TX_COMPUTE_CONFIG"
                 /\ enable /\ frame_sequence # consumer_sequence
                 /\ tx_sequence' = frame_sequence /\ tx_active_bank' = active_bank
                 /\ UNCHANGED consumer_sequence
              \/ /\ tx_state = "TX_IDLE" /\ tx_state' = "TX_IDLE"
                 /\ ~(enable /\ frame_sequence # consumer_sequence)
                 /\ UNCHANGED <<tx_sequence, tx_active_bank, consumer_sequence>>
              \/ /\ tx_state # "TX_IDLE" /\ tx_state' # "TX_IDLE"
                 /\ UNCHANGED <<tx_sequence, tx_active_bank, consumer_sequence>>
              \/ /\ tx_state = "TX_RESET" /\ tx_state' = "TX_IDLE"
                 /\ consumer_sequence' = tx_sequence
                 /\ UNCHANGED <<tx_sequence, tx_active_bank>>
<1> USE DEF ContentInv, HandshakeInv, HoldState, HoldFrame, RaiseNoError
<1>1. ConsumerClock(enable, reset_pulse, active_bank, committed_words,
                    frame_sequence, FrameWords, ram)
  BY PsBusStep DEF Clock, PlClock
<1>2. tx_state # "TX_IDLE" => ~reset_pulse
  BY ResetAtRest
<1>3. CASE TxIdle(enable, reset_pulse, active_bank, frame_sequence, FrameWords)
  BY <1>3 DEF TxIdle
<1>4. CASE TxComputeConfig(reset_pulse)
  BY <1>2, <1>4 DEF TxComputeConfig
<1>5. CASE TxValidate(committed_words)
  <2>1. tx_words = FrameWords /\ committed_words = FrameWords
    BY <1>5 DEF TxValidate, ReadInv, WordsInv, BootInv
  <2>2. committed_words >= tx_words /\ tx_words # 0
    BY <2>1, ContractAssumption, ControllerAssumption
       DEF ContractAssumption, ControllerAssumption
  <2> QED
    BY <1>5, <2>2 DEF TxValidate
<1>6. CASE TxTransmit(reset_pulse, ram)
  <2>1. tx_state \in {"TX_LOAD_FIRST", "TX_SEND"} /\ ~reset_pulse
    BY <1>2, <1>6 DEF TxTransmit, TxFetch, TxSent
  <2>2. CASE TxFetch(reset_pulse, ram)
    BY <1>6, <2>1, <2>2 DEF TxTransmit, TxFetch
  <2>3. CASE TxSent
    BY <1>6, <2>3 DEF TxTransmit, TxSent, PickedInv
  <2>4. CASE HoldState(reset_pulse) /\ UNCHANGED <<fetched, line>>
    BY <1>6, <2>1, <2>4 DEF TxTransmit, PickedInv
  <2> QED
    BY <1>6, <2>2, <2>3, <2>4 DEF TxTransmit
<1>7. CASE TxReset(reset_pulse)
  BY <1>2, <1>7 DEF TxReset, PickedInv
<1>8. ~TxFault(reset_pulse) /\ ~TxError
  BY DEF TxFault, TxError, FaultFreeInv
<1> QED
  BY <1>1, <1>3, <1>4, <1>5, <1>6, <1>7, <1>8 DEF ConsumerClock

(* No error is raised, so none is recorded.                                *)
LEMMA FaultFreeStep ==
    ASSUME ContentInv, FaultFreeInv, PickedInv, DriverInv, ~ReadFaults, Next
    PROVE  FaultFreeInv'
<1>1. ControlClock(consumer_active_bank, error_pulse)
  BY PsBusStep DEF ContentInv, HandshakeInv, Clock, PlClock
<1>2. ~CommitRefused(consumer_active_bank)
  BY CommitLands DEF CommitRefused, ContentInv
<1>3. status' = "READY" /\ ~consumer_error'
  BY <1>1, <1>2 DEF ControlClock, FaultFreeInv
<1>4. ~error_pulse' /\ tx_state' # "TX_ERROR"
  BY FaultFreeMove
<1>5. before'.status = "READY" /\ after'.status = "READY"
  BY DriverStep DEF DriverInv
<1> QED
  BY <1>3, <1>4, <1>5 DEF FaultFreeInv

-----------------------------------------------------------------------------
(* What is picked.                                                         *)

(* Once enabled the consumer stays so: only the boot turns it off.         *)
LEMMA EnableKept ==
    ASSUME BootInv, Next, enable
    PROVE  enable' = TRUE
<1> USE DEF Access, RegisterWrite
<1>1. CASE PsStall \/ CommitFrameCall \/ SnapshotRead
  BY <1>1 DEF PsStall, CommitFrameCall, SnapshotRead
<1>2. CASE InitEnd \/ BeforeEnd \/ WaitEnd \/ AfterEnd
  BY <1>2 DEF InitEnd, BeforeEnd, WaitEnd, AfterEnd, LastSnapshotRead
<1>3. CASE ClearErrors \/ SelfTestEnd
  BY <1>3 DEF ClearErrors, SelfTestEnd
<1>4. CASE EnableConsumer
  BY <1>4 DEF EnableConsumer, BootWrite, BootInv, Booting
<1>5. CASE NotifyDrop \/ WriteWord \/ WriteMarker \/ ReadBack \/ WriteCommit
  BY <1>5 DEF NotifyDrop, WriteWord, WriteMarker, ReadBack, WriteCommit
<1> QED
  BY <1>1, <1>2, <1>3, <1>4, <1>5 DEF Next

(* A driver owns no bank when the consumer has just been enabled.          *)
LEMMA EnabledAtRest ==
    ASSUME Next, pc = "enable"
    PROVE  pc' \in {"enable", "check_consumer"} /\ commit_swmod' = FALSE
<1>1. ~(CommitFrameCall \/ SnapshotRead \/ InitEnd \/ ClearErrors \/ SelfTestEnd)
  BY DEF CommitFrameCall, SnapshotRead, InitEnd, ClearErrors, SelfTestEnd,
     LastSnapshotRead, Snapping
<1>2. ~(BeforeEnd \/ WaitEnd \/ NotifyDrop \/ AfterEnd)
  BY DEF BeforeEnd, WaitEnd, NotifyDrop, AfterEnd, LastSnapshotRead
<1>3. ~(WriteWord \/ WriteMarker \/ ReadBack \/ WriteCommit)
  BY DEF WriteWord, WriteMarker, ReadBack, WriteCommit
<1>4. PsStall \/ EnableConsumer
  BY <1>1, <1>2, <1>3 DEF Next
<1> QED
  BY <1>3, <1>4, CommitWritten DEF PsStall, psVars, EnableConsumer, BootWrite, Goto

(* A commit takes effect while the consumer has picked every frame before  *)
(* it, and picks none.                                                     *)
LEMMA LandingPicked ==
    ASSUME ContentInv, FaultFreeInv, PickedInv, ~ReadFaults, Next, commit_swmod
    PROVE  /\ ~Owning'
           /\ tx_state' # "TX_IDLE" => tx_state # "TX_IDLE" /\ tx_active_bank' # active_bank'
           /\ accepted'[active_bank'] = call.frame /\ call.frame \in Frames
           /\ tx_state # "TX_IDLE" =>
                 tx_active_bank = active_bank /\ active_bank' # active_bank
<1>1. Owning /\ HandshakeInv
  BY DEF Owning, ContentInv
<1>2. ~Owning'
  BY <1>1, LandingMove DEF Owning
<1>3. /\ pc = "after"
      /\ active_bank' = before.bank
      /\ accepted' = [accepted EXCEPT ![before.bank] = call.frame]
  BY <1>1, PsBusStep, CommitMove DEF HandshakeInv
<1>4. /\ before.bank = WriteBank /\ before.bank \in Banks /\ active_bank \in Banks
      /\ tx_state # "TX_IDLE" => tx_active_bank = active_bank
      /\ call.frame \in Frames
      /\ accepted \in [Banks -> Frames \cup {NoFrame}]
  BY <1>1, <1>3
     DEF HandshakeInv, OwnInv, TypeOK, PsTypeOK, PlTypeOK, ControlTypeOK,
         Snapshots, Committing
<1>5. before.bank # active_bank
  BY <1>4 DEF WriteBank, Banks
<1>6. tx_state' # "TX_IDLE" => tx_state # "TX_IDLE" /\ tx_active_bank' = tx_active_bank
  BY <1>1, FaultFreeMove DEF PickedInv, LastPicked
<1> QED
  BY <1>1, <1>2, <1>3, <1>4, <1>5, <1>6

(* A driver that owns a bank has no frame waiting.                         *)
LEMMA OwnerPicked ==
    ASSUME ContentInv, FaultFreeInv, PickedInv, ~ReadFaults, Next,
           ~commit_swmod, Owning', enable'
    PROVE  (frame_sequence = LastPicked)'
<1> USE DEF ContentInv, HandshakeInv
<1>1. frame_sequence' = frame_sequence
  BY PsBusStep, SequenceMove
<1>2. Owning \/ (pc # "after" /\ WriteBankValid(consumer_active_bank))
  BY ChosenBank
<1>3. pc # "enable"
  BY EnabledAtRest DEF Owning
<1>4. enable
  BY <1>3, EnableMove
<1>5. CASE tx_state = "TX_IDLE"
  <2>1. CASE frame_sequence # consumer_sequence
    BY <1>1, <1>4, <1>5, <2>1, FaultFreeMove DEF LastPicked
  <2>2. CASE frame_sequence = consumer_sequence
    BY <1>1, <1>4, <1>5, <2>2, FaultFreeMove DEF LastPicked
  <2> QED
    BY <2>1, <2>2
<1>6. CASE tx_state # "TX_IDLE"
  <2>1. frame_sequence = tx_sequence
    <3>1. CASE Owning
      BY <1>4, <1>6, <3>1 DEF PickedInv, LastPicked
    <3>2. CASE pc # "after" /\ WriteBankValid(consumer_active_bank)
      <4>1. tx_state \in Scanning \cup Reading
        BY <1>6 DEF TypeOK, PlTypeOK, TxStates
      <4>2. tx_active_bank \in Banks /\ active_bank \in Banks
        BY DEF TypeOK, PlTypeOK, ControlTypeOK
      <4>3. CASE tx_state \in Scanning
        BY <1>6, <3>2, <4>3 DEF ScanInv, PickedInv
      <4>4. CASE tx_state \in Reading
        <5>1. consumer_active_bank = tx_active_bank /\ tx_active_bank # NoBusyBank
          BY <4>2, <4>4, ContractAssumption DEF BusyInv, ContractAssumption
        <5>2. tx_active_bank = active_bank
          BY <3>2, <4>2, <5>1 DEF WriteBankValid, WriteBank, Banks
        <5> QED
          BY <1>6, <5>2 DEF PickedInv
      <4> QED
        BY <4>1, <4>3, <4>4
    <3> QED
      BY <1>2, <3>1, <3>2
  <2> QED
    BY <1>1, <1>6, <2>1, FaultFreeMove DEF LastPicked
<1> QED
  BY <1>5, <1>6

LEMMA PickedStep ==
    ASSUME ContentInv, FaultFreeInv, PickedInv, ~ReadFaults, Next
    PROVE  PickedInv'
<1> USE DEF ContentInv, HandshakeInv
<1>1. tx_active_bank \in Banks /\ active_bank \in Banks
  BY DEF TypeOK, PlTypeOK, ControlTypeOK
<1>2. tx_state # "TX_IDLE" => accepted'[tx_active_bank] = accepted[tx_active_bank]
  BY <1>1, OtherBankKept
<1>3. accepted'[active_bank] = accepted[active_bank]
  BY <1>1, OtherBankKept
<1>4. (tx_state # "TX_IDLE" => accepted[tx_active_bank] # NoFrame)'
  <2>1. CASE tx_state = "TX_IDLE"
    BY <1>3, <2>1, FaultFreeMove DEF PickedInv
  <2>2. CASE tx_state # "TX_IDLE"
    BY <1>2, <2>2, FaultFreeMove DEF PickedInv
  <2> QED
    BY <2>1, <2>2
<1>5. (tx_state \in {"TX_SEND", "TX_RESET"} => line # {})'
  BY FaultFreeMove
<1>6. CASE commit_swmod
  <2>1. call.frame # NoFrame
    BY <1>6, LandingPicked, ControllerAssumption DEF ControllerAssumption
  <2> QED
    BY <1>4, <1>5, <1>6, <2>1, LandingPicked DEF PickedInv
<1>7. CASE ~commit_swmod
  <2>1. UNCHANGED <<active_bank, frame_sequence, accepted>>
    BY <1>7, PsBusStep, CommitMove, SequenceMove
  <2>2. (tx_state # "TX_IDLE" /\ tx_active_bank = active_bank
           => frame_sequence = tx_sequence)'
    BY <2>1, FaultFreeMove DEF PickedInv
  <2>3. (Owning /\ enable => frame_sequence = LastPicked)'
    BY <1>7, OwnerPicked
  <2>4. (accepted[active_bank] = NoFrame
           => tx_state = "TX_IDLE" /\ frame_sequence = consumer_sequence)'
    BY <2>1, FaultFreeMove DEF PickedInv
  <2> QED
    BY <1>4, <1>5, <2>2, <2>3, <2>4 DEF PickedInv
<1> QED
  BY <1>6, <1>7

-----------------------------------------------------------------------------
LEMMA ChannelInit == Init => ChannelInv
<1> SUFFICES ASSUME Init PROVE ChannelInv
  OBVIOUS
<1> USE DEF Init, PlInit, ControlInit, ConsumerInit, PsInit, BlankSnapshot, NoCall
<1>1. ContentInv
  BY ContentInit
<1>2. FaultFreeInv
  BY DEF FaultFreeInv
<1>3. PickedInv
  BY DEF PickedInv, Owning
<1>4. ConfirmInv
  BY DEF ConfirmInv
<1>5. BootCommitInv /\ OnlyFullBanksFail
  BY DEF BootCommitInv, OnlyFullBanksFail
<1> QED
  BY <1>1, <1>2, <1>3, <1>4, <1>5 DEF ChannelInv

LEMMA ChannelStep == ~ReadFaults => (ChannelInv /\ [Next]_vars => ChannelInv')
<1> SUFFICES ASSUME ~ReadFaults, ChannelInv, [Next]_vars PROVE ChannelInv'
  OBVIOUS
<1>1. ContentInv'
  BY ContentStep DEF ChannelInv
<1>2. CASE Next
  BY <1>1, <1>2, FaultFreeStep, PickedStep, DriverStep
     DEF ChannelInv, DriverInv, FaultFreeInv
<1>3. CASE UNCHANGED vars
  <2>1. UNCHANGED <<psVars, plVars, accepted>>
    BY <1>3 DEF vars
  <2>2. FaultFreeInv' /\ OnlyFullBanksFail'
    BY <2>1
       DEF ChannelInv, FaultFreeInv, OnlyFullBanksFail, psVars, plVars,
           controlVars, consumerVars
  <2>3. PickedInv'
    BY <2>1
       DEF ChannelInv, PickedInv, LastPicked, Owning, psVars, plVars,
           controlVars, fieldVars, consumerVars
  <2>4. ConfirmInv' /\ BootCommitInv'
    BY <2>1
       DEF ChannelInv, ConfirmInv, BootCommitInv, WriteBank, psVars, plVars,
           controlVars, fieldVars
  <2> QED
    BY <1>1, <2>2, <2>3, <2>4 DEF ChannelInv
<1> QED
  BY <1>2, <1>3

(* A call of the driver that finds no fault of the consumer gives up for   *)
(* lack of a free bank only: every commit it makes is confirmed by its own *)
(* snapshot, and the boot never ends in the error loop.                    *)
THEOREM CallsFailForBanksOnly ==
    ASSUME ~ReadFaults
    PROVE  Spec => []OnlyFullBanksFail
<1>1. ChannelInv /\ [Next]_vars => ChannelInv'
  BY ChannelStep
<1>2. ChannelInv => OnlyFullBanksFail
  BY DEF ChannelInv
<1> QED
  BY <1>1, <1>2, ChannelInit, PTL DEF Spec

-----------------------------------------------------------------------------
(* The refinement: the three variables of the channel, as Channel computes *)
(* them from the registers, the state machine and the history.             *)
Pending == IF enable /\ frame_sequence # LastPicked
           THEN accepted[active_bank] ELSE NoFrame
Showing == IF tx_state = "TX_IDLE" THEN NoFrame ELSE accepted[tx_active_bank]

(* An accepted commit is another frame than the one before.                *)
LEMMA IncrementMoves ==
    ASSUME NEW n \in Sequences32
    PROVE  Increment(n) # n
<1>1. CASE n + 1 < SequenceSpace
  BY <1>1, ContractAssumption, Z3 DEF Sequences32, Increment, ContractAssumption
<1>2. CASE n + 1 = SequenceSpace
  BY <1>2, ContractAssumption, Z3 DEF Sequences32, Increment, ContractAssumption
<1> QED
  BY <1>1, <1>2, ContractAssumption DEF Sequences32, ContractAssumption

(* What a step does to the frame on display: it is kept, or completed.     *)
LEMMA DisplayStep ==
    ASSUME ChannelInv, ~ReadFaults, Next,
           ~(tx_state = "TX_IDLE" /\ tx_state' = "TX_COMPUTE_CONFIG")
    PROVE  /\ UNCHANGED <<Showing, displayed>> \/ Channel!Finish
           /\ LastPicked' = LastPicked
<1> USE DEF ChannelInv, ContentInv, HandshakeInv
<1>1. tx_state # "TX_IDLE" => accepted'[tx_active_bank] = accepted[tx_active_bank]
  BY OtherBankKept DEF TypeOK, PlTypeOK
<1>2. displayed' = IF tx_state = "TX_RESET" /\ tx_state' = "TX_IDLE"
                   THEN line ELSE displayed
  BY PsBusStep DEF Clock, RecordHistory
<1>3. CASE tx_state = "TX_RESET" /\ tx_state' = "TX_IDLE"
  <2>1. consumer_sequence' = tx_sequence
    BY <1>3, FaultFreeMove
  <2>2. line = {accepted[tx_active_bank]} /\ accepted[tx_active_bank] # NoFrame
    BY <1>3 DEF ReadInv, NoTornFrame, Reading, PickedInv
  <2> QED
    BY <1>2, <1>3, <2>1, <2>2 DEF Channel!Finish, LastPicked
<1>4. CASE ~(tx_state = "TX_RESET" /\ tx_state' = "TX_IDLE")
  BY <1>1, <1>2, <1>4, FaultFreeMove DEF Showing, LastPicked
<1> QED
  BY <1>3, <1>4

(* A pick starts the pending frame.                                        *)
LEMMA PickStarts ==
    ASSUME ChannelInv, ~ReadFaults, Next,
           tx_state = "TX_IDLE", tx_state' = "TX_COMPUTE_CONFIG"
    PROVE  Channel!Start
<1> USE DEF ChannelInv, ContentInv, HandshakeInv
<1>1. /\ enable /\ frame_sequence # consumer_sequence
      /\ tx_sequence' = frame_sequence /\ tx_active_bank' = active_bank
  BY FaultFreeMove
<1>2. ~commit_swmod
  BY <1>1, LandingPicked
<1>3. UNCHANGED <<active_bank, frame_sequence, accepted>>
  BY <1>2, PsBusStep, CommitMove, SequenceMove
<1>4. accepted[active_bank] # NoFrame
  BY <1>1 DEF PickedInv
<1>5. displayed' = displayed
  BY PsBusStep DEF Clock, RecordHistory
<1> QED
  BY <1>1, <1>3, <1>4, <1>5 DEF Channel!Start, LastPicked

(* What a step that picks nothing does to the pending frame: it stays, or  *)
(* there was none and a frame is accepted.                                 *)
LEMMA PendingStep ==
    ASSUME ChannelInv, ~ReadFaults, Next,
           ~(tx_state = "TX_IDLE" /\ tx_state' = "TX_COMPUTE_CONFIG")
    PROVE  UNCHANGED Pending \/ Channel!Accept
<1> USE DEF ChannelInv, ContentInv, HandshakeInv
<1>1. LastPicked' = LastPicked
  BY DisplayStep
<1>2. CASE commit_swmod
  <2>1. pc # "enable" /\ Owning
    BY <1>2, LandingMove DEF Owning
  <2>2. CASE ~enable
    BY <2>1, <2>2, EnableMove DEF Pending
  <2>3. CASE enable
    <3>1. enable' = TRUE /\ frame_sequence = LastPicked
      BY <2>1, <2>3, EnableKept DEF PickedInv
    <3>2. frame_sequence' = Increment(frame_sequence) /\ frame_sequence \in Sequences32
      BY <1>2, PsBusStep, SequenceMove DEF TypeOK, PlTypeOK, ControlTypeOK
    <3>3. frame_sequence' # LastPicked'
      BY <1>1, <3>1, <3>2, IncrementMoves
    <3>4. accepted'[active_bank'] \in Frames
      BY <1>2, LandingPicked
    <3> QED
      BY <2>3, <3>1, <3>3, <3>4 DEF Channel!Accept
  <2> QED
    BY <2>2, <2>3
<1>3. CASE ~commit_swmod
  <2>1. UNCHANGED <<active_bank, frame_sequence, accepted>>
    BY <1>3, PsBusStep, CommitMove, SequenceMove
  <2>2. CASE enable
    BY <1>1, <2>1, <2>2, EnableKept DEF Pending
  <2>3. CASE ~enable /\ ~enable'
    BY <2>3 DEF Pending
  <2>4. CASE ~enable /\ enable'
    <3>1. LastPicked = consumer_sequence
      BY <2>4 DEF BootInv, LastPicked
    <3>2. accepted[active_bank] \in Frames \cup {NoFrame}
      BY DEF TypeOK, PlTypeOK, ControlTypeOK
    <3>3. frame_sequence # LastPicked => accepted[active_bank] # NoFrame
      BY <3>1 DEF PickedInv
    <3> QED
      BY <1>1, <2>1, <2>4, <3>2, <3>3 DEF Channel!Accept, Pending
  <2> QED
    BY <2>2, <2>3, <2>4
<1> QED
  BY <1>2, <1>3

(* The handoff of frames, as long as the consumer has no fault, is the     *)
(* channel: every frame the PL accepts is shown once, whole, in the order  *)
(* of the commits, and no frame is accepted while another waits.           *)
THEOREM HandoffIsAChannel ==
    ASSUME ~ReadFaults
    PROVE  Spec => ChannelSpec
<1>1. Init => Channel!Init
  BY DEF Init, PlInit, ControlInit, ConsumerInit, Channel!Init
<1>2. ChannelInv /\ [Next]_vars => ChannelInv'
  BY ChannelStep
<1>3. ChannelInv /\ [Next]_vars => [Channel!Next]_(Channel!vars)
  <2> SUFFICES ASSUME ChannelInv, [Next]_vars
               PROVE  Channel!Next \/ UNCHANGED Channel!vars
    OBVIOUS
  <2>1. CASE Next /\ tx_state = "TX_IDLE" /\ tx_state' = "TX_COMPUTE_CONFIG"
    BY <2>1, PickStarts DEF Channel!Next
  <2>2. CASE Next /\ ~(tx_state = "TX_IDLE" /\ tx_state' = "TX_COMPUTE_CONFIG")
    BY <2>2, DisplayStep, PendingStep
       DEF Channel!Next, Channel!vars, Pending, Showing
  <2>3. CASE UNCHANGED vars
    BY <2>3
       DEF vars, plVars, controlVars, fieldVars, consumerVars, Channel!vars,
           LastPicked
  <2> QED
    BY <2>1, <2>2, <2>3
<1> QED
  BY <1>1, <1>2, <1>3, ChannelInit, PTL DEF Spec, ChannelSpec, Channel!Spec
=============================================================================

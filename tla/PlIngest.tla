------------------------------ MODULE PlIngest ------------------------------
(***************************************************************************)
(* The PS side of the frame handoff: the driver ps/app/pl_ingest.c and the *)
(* boot sequence of ps/app/main.c that calls it.                           *)
(*                                                                         *)
(* An action is one access of the CPU to the PL, with every decision the   *)
(* code takes before its next access.  The computation between two         *)
(* accesses takes no time of its own and PsStall makes it as long as one   *)
(* likes, so the model is never slower than the CPU.                       *)
(*                                                                         *)
(* A frame fills the words 0 .. call.words - 1 of a bank with one value.   *)
(* Left out: time stamps, statistics, and the arguments no caller passes.  *)
(***************************************************************************)
EXTENDS WsController

CONSTANTS
    SelfTestWords, \* words of the frame of pl_ingest_self_test
    SelfTestFrame, \* that frame
    InitialFrame,  \* the black frame committed before the consumer starts
    WaitTries      \* PL_INGEST_BANK_WAIT_TRIES

ASSUME IngestAssumption ==
    /\ SelfTestWords \in 1 .. BankWords
    /\ {SelfTestFrame, InitialFrame} \subseteq Frames
    /\ WaitTries \in Nat \ {0}

VARIABLES
    pc,     \* what the program is doing
    step,   \* accesses it has made in this phase
    tries,  \* the loop index of wait_for_write_bank, plus one
    call,   \* the commit in progress: on whose behalf, its frame and size
    before, \* the snapshot taken before the frame is written
    after,  \* the snapshot taken after the commit
    result  \* what the last commit returned

psVars == <<pc, step, tries, call, before, after, result>>

-----------------------------------------------------------------------------
(* pl_ingest_snapshot reads its registers one after the other.             *)

StatusRead          == 3
ActiveBankRead      == 6
WriteBankRead       == 7
WriteBankValidRead  == 8
FrameSequenceRead   == 10
CommittedWordsRead  == 12
FrameRejectedRead   == 15

(* Mutant: a snapshot that stops at the last register a decision needs.    *)
ShortSnapshotReads == FrameRejectedRead

(* 20 registers, one per output, the configuration status, two masks.      *)
SnapshotReads == 21 + OutputCount + 2 * MaskWords

BlankSnapshot ==
    [status |-> "READY", active |-> 0, bank |-> 0, valid |-> FALSE,
     sequence |-> 0, words |-> 0, rejected |-> 0]

Snapshots ==
    [status : Statuses, active : Banks, bank : Banks, valid : BOOLEAN,
     sequence : Sequences32, words : Words, rejected : Sequences32]

(* Snapshot s after the n-th read.                                         *)
Capture(s, n) ==
    CASE n = StatusRead         -> [s EXCEPT !.status = status]
      [] n = ActiveBankRead     -> [s EXCEPT !.active = active_bank]
      [] n = WriteBankRead      -> [s EXCEPT !.bank = WriteBank]
      [] n = WriteBankValidRead ->
            [s EXCEPT !.valid = WriteBankValid(consumer_active_bank)]
      [] n = FrameSequenceRead  -> [s EXCEPT !.sequence = frame_sequence]
      [] n = CommittedWordsRead -> [s EXCEPT !.words = committed_words]
      [] n = FrameRejectedRead  -> [s EXCEPT !.rejected = frame_rejected]
      [] OTHER                  -> s

Snapping == {"init", "before", "wait", "after"}

-----------------------------------------------------------------------------
(* Control flow.                                                           *)

NoCall == [name |-> "frame", frame |-> NoFrame, words |-> 0]
SelfTestCall ==
    [name |-> "self_test", frame |-> SelfTestFrame, words |-> SelfTestWords]
InitialCall ==
    [name |-> "initial", frame |-> InitialFrame, words |-> FrameWords]
FrameCall(f) == [name |-> "frame", frame |-> f, words |-> FrameWords]

Results == {"NONE", "OK", "BAD_STATUS", "NO_FREE_BANK", "CAPACITY_TOO_SMALL",
            "READBACK_FAILED", "COMMIT_FAILED"}

Access(register) == RegisterWrite(register, 0, 0)

Goto(label) == pc' = label /\ step' = 0

Begin(c) ==
    /\ Goto("before")
    /\ call' = c
    /\ before' = BlankSnapshot /\ after' = BlankSnapshot

(* Back to the caller: the main loop, or the boot sequence, which goes on  *)
(* only if the commit succeeded.                                           *)
Return(r) ==
    /\ Goto(CASE call.name = "frame"                       -> "main"
              [] call.name = "self_test" /\ r = "OK"       -> "self_test"
              [] call.name = "initial" /\ r = "OK"         -> "reset_fsm"
              [] call.name \in {"self_test", "initial"} /\ r # "OK" -> "fatal")
    /\ result' = r
    /\ tries' = 0
    /\ call' = NoCall
    /\ before' = BlankSnapshot /\ after' = BlankSnapshot

UseBank ==
    IF call.words > BankWords
    THEN Return("CAPACITY_TOO_SMALL")
    ELSE Goto("write") /\ tries' = 0 /\ UNCHANGED <<call, before, after, result>>

-----------------------------------------------------------------------------
(* The accesses.                                                           *)

(* A PL clock cycle in which the CPU reaches no register of the PL.        *)
PsStall == Access("NONE") /\ UNCHANGED <<psVars, ram>>

SnapshotRead ==
    /\ pc \in Snapping
    /\ step + 1 < SnapshotReads
    /\ step' = step + 1
    /\ IF pc = "after"
       THEN after' = Capture(after, step + 1) /\ UNCHANGED before
       ELSE before' = Capture(before, step + 1) /\ UNCHANGED after
    /\ Access("NONE")
    /\ UNCHANGED <<pc, tries, call, result, ram>>

LastSnapshotRead(label) ==
    /\ pc = label
    /\ step + 1 = SnapshotReads
    /\ Access("NONE")
    /\ UNCHANGED ram

(* Mutant: the free bank is trusted whatever the wait found.               *)
WaitEndUnchecked == LastSnapshotRead("wait") /\ UseBank

(* Mutant: the tries are not counted.                                      *)
WaitEndForever ==
    /\ LastSnapshotRead("wait")
    /\ IF before.valid
       THEN UseBank
       ELSE Goto("wait") /\ UNCHANGED <<tries, call, before, after, result>>

(* pl_ingest_write_frame(_strands): the first snapshot decides.            *)
BeforeEnd ==
    /\ LastSnapshotRead("before")
    /\ CASE before.status # "READY" -> Return("BAD_STATUS")
         [] before.status = "READY" /\ before.valid -> UseBank
         [] before.status = "READY" /\ ~before.valid ->
              Goto("wait") /\ tries' = 1 /\ UNCHANGED <<call, before, after, result>>

(* wait_for_write_bank: another snapshot per try, which replaces `before`; *)
(* only write_bank_valid of it is looked at.                               *)
WaitEnd ==
    /\ LastSnapshotRead("wait")
    /\ IF before.valid
       THEN UseBank
       ELSE /\ Goto(IF tries = WaitTries THEN "drop" ELSE "wait")
            /\ tries' = IF tries = WaitTries THEN 0 ELSE tries + 1
            /\ UNCHANGED <<call, before, after, result>>

NotifyDrop ==
    /\ pc = "drop"
    /\ Return("NO_FREE_BANK")
    /\ Access("FRAME_DROP_NOTIFY")
    /\ UNCHANGED ram

WriteWord ==
    /\ pc = "write"
    /\ RamWrite(before.bank, step, call.frame)
    /\ IF step + 1 = call.words
       THEN Goto("markers")
       ELSE step' = step + 1 /\ UNCHANGED pc
    /\ Access("NONE")
    /\ UNCHANGED <<tries, call, before, after, result>>

(* FIRST_FRAME_WORD, then LAST_FRAME_WORD.                                 *)
WriteMarker ==
    /\ pc = "markers"
    /\ IF step = 1 THEN Goto("readback") ELSE step' = step + 1 /\ UNCHANGED pc
    /\ Access("FRAME_WORD_MARKER")
    /\ UNCHANGED <<tries, call, before, after, result, ram>>

(* The first word of the frame, then the last one.                         *)
ReadBack ==
    /\ pc = "readback"
    /\ LET word == IF step = 0 THEN 0 ELSE call.words - 1
       IN CASE ram[before.bank][word] # call.frame -> Return("READBACK_FAILED")
            [] ram[before.bank][word] = call.frame ->
                 /\ IF step = 1 THEN Goto("commit")
                                ELSE step' = step + 1 /\ UNCHANGED pc
                 /\ UNCHANGED <<tries, call, before, after, result>>
    /\ Access("NONE")
    /\ UNCHANGED ram

WriteCommit ==
    /\ pc = "commit"
    /\ RegisterWrite("FRAME_COMMIT", before.bank, call.words)
    /\ Goto("after")
    /\ UNCHANGED <<tries, call, before, after, result, ram>>

CommitConfirmed ==
    /\ after.sequence = Increment(before.sequence)
    /\ after.active = before.bank
    /\ after.bank = 1 - before.bank
    /\ after.words = call.words
    /\ after.status = "READY"
    /\ after.rejected = before.rejected

AfterEnd ==
    /\ LastSnapshotRead("after")
    /\ Return(IF CommitConfirmed THEN "OK" ELSE "COMMIT_FAILED")

(* The main loop hands over another frame.                                 *)
CommitFrameCall ==
    /\ pc = "main"
    /\ \E f \in Frames : Begin(FrameCall(f))
    /\ Access("NONE")
    /\ UNCHANGED <<tries, result, ram>>

-----------------------------------------------------------------------------
(* Boot: pl_ingest_init, self test, initial frame, consumer enabled.       *)

PsInit ==
    /\ pc = "init" /\ step = 0 /\ tries = 0
    /\ call = NoCall
    /\ before = BlankSnapshot /\ after = BlankSnapshot
    /\ result = "NONE"

InitEnd ==
    /\ LastSnapshotRead("init")
    /\ Goto(IF before.status = "READY" THEN "clear" ELSE "fatal")
    /\ UNCHANGED <<tries, call, before, after, result>>

ClearErrors ==
    /\ pc = "clear"
    /\ Begin(SelfTestCall)
    /\ Access("CLEAR_ERRORS")
    /\ UNCHANGED <<tries, result, ram>>

(* What the self test reads back from the PL after its commit.  With the   *)
(* consumer off nothing changes between its reads, so they are one step.   *)
SelfTestEnd ==
    /\ pc = "self_test"
    /\ IF frame_sequence = Increment(0) /\ committed_words = SelfTestWords
       THEN Begin(InitialCall)
       ELSE Goto("fatal") /\ UNCHANGED <<call, before, after>>
    /\ Access("NONE")
    /\ UNCHANGED <<tries, result, ram>>

BootWrite(label, register, next) ==
    /\ pc = label
    /\ Goto(next)
    /\ Access(register)
    /\ UNCHANGED <<tries, call, before, after, result, ram>>

(* pl_ingest_enable_consumer.                                              *)
EnableConsumer ==
    \/ BootWrite("reset_fsm", "RESET_FSM", "clear_errors")
    \/ BootWrite("clear_errors", "CLEAR_ERRORS", "enable")
    \/ BootWrite("enable", "ENABLE", "check_consumer")
    \/ BootWrite("check_consumer", "NONE",
                 IF enable /\ ~consumer_error THEN "main" ELSE "fatal")

(* Where a commit is in progress.                                          *)
Committing == {"before", "wait", "drop", "write", "markers", "readback",
               "commit", "after"}

Labels == Snapping \cup {"clear", "self_test", "reset_fsm", "clear_errors",
                         "enable", "check_consumer", "main", "drop", "write",
                         "markers", "readback", "commit", "fatal"}

PsTypeOK ==
    /\ pc \in Labels
    /\ step \in Nat
    /\ pc \in Snapping => step < SnapshotReads
    /\ pc = "write" => step < call.words
    /\ pc \in {"markers", "readback"} => step <= 1
    /\ tries \in 0 .. WaitTries
    /\ call \in [name : {"self_test", "initial", "frame"},
                 frame : Frames \cup {NoFrame}, words : Words]
    /\ pc \in Committing => call.words > 0 /\ call.frame \in Frames
    /\ before \in Snapshots
    /\ after \in Snapshots
    /\ result \in Results
=============================================================================

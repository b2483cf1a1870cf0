---------------------------- MODULE FramePipeline ----------------------------
(***************************************************************************)
(* The two frame buffers of the PS (ps/app/frame_pipeline.c): packets are  *)
(* written into one of them, a successful commit swaps them.  A frame maps *)
(* every universe of the strand configuration, which is fixed here, to the *)
(* pixels last written for it.                                             *)
(*                                                                         *)
(* pl_ingest_write_frame_strands is seen through its result: FrameHandoff  *)
(* says what it does.  A call that fails for another reason than a full    *)
(* PL may have committed the frame before it failed.                       *)
(*                                                                         *)
(* Pixels are told apart by where they come from: the sender, the sync     *)
(* address it sent them under, and whether they arrived in the sweep being *)
(* assembled.  The last is a history variable in the data: StartSweep ages *)
(* what the buffers hold, and no decision reads it.                        *)
(***************************************************************************)
EXTENDS Integers

CONSTANTS
    Universes, \* the universes of a frame, as offsets from the first one
    Sources,   \* the CIDs of senders
    SyncAddresses, \* the synchronization addresses in use; 0 is none
    Black      \* the pixels of frame_pipeline_clear_all(0)

ASSUME PipelineAssumption ==
    /\ Universes # {}
    /\ 0 \in SyncAddresses /\ SyncAddresses \subseteq Nat

VARIABLES
    frame_words, \* g_frame_words, the two buffers
    write_bank,  \* g_write_bank, the one that is written
    taken        \* history: the frame the PL accepted last

pipelineVars == <<frame_words, write_bank, taken>>

Pixels ==
    {Black} \cup [source : Sources, sync : SyncAddresses, fresh : BOOLEAN]
FramesOfPixels == [Universes -> Pixels]
BlackFrame == [u \in Universes |-> Black]

PipelineTypeOK ==
    /\ frame_words \in [{0, 1} -> FramesOfPixels]
    /\ write_bank \in {0, 1}
    /\ taken \in FramesOfPixels

(* As main.c leaves it: one black frame committed, both buffers black.     *)
PipelineInit ==
    /\ frame_words = [b \in {0, 1} |-> BlackFrame]
    /\ write_bank = 1
    /\ taken = BlackFrame

(* What frame_pipeline_commit returns: 0, 1 when the PL had no free bank,  *)
(* -1 otherwise.                                                           *)
CommitResults == {0, 1, -1}

Aged(pixels) ==
    IF pixels = Black THEN Black ELSE [pixels EXCEPT !.fresh = FALSE]

(* The buffers `buffers` with everything in them of an earlier sweep.      *)
StartSweep(buffers) ==
    [b \in {0, 1} |-> [u \in Universes |-> Aged(buffers[b][u])]]

(* frame_pipeline_write_linear_rgb, for the pixels of one universe.        *)
WriteUniverse(buffers, universe, pixels) ==
    [buffers EXCEPT ![write_bank][universe] = pixels]

(* frame_pipeline_clear_all(0).                                            *)
ClearAll(buffers) == [buffers EXCEPT ![write_bank] = BlackFrame]

(* Mutant: the buffers are swapped before the result is known.             *)
CommitSwapFirst(buffers, commitResult) ==
    /\ write_bank' = 1 - write_bank
    /\ \/ commitResult \in {0, -1} /\ taken' = buffers[write_bank]
       \/ commitResult \in {1, -1} /\ taken' = taken

(* Mutant: the index of the buffer goes past the second one.               *)
CommitUnwrapped(buffers, commitResult) ==
    /\ write_bank' = IF commitResult = 0 THEN write_bank + 1 ELSE write_bank
    /\ \/ commitResult \in {0, -1} /\ taken' = buffers[write_bank]
       \/ commitResult \in {1, -1} /\ taken' = taken

(* frame_pipeline_commit of the buffer being written, which holds what     *)
(* `buffers` says.                                                         *)
Commit(buffers, commitResult) ==
    /\ write_bank' = IF commitResult = 0 THEN 1 - write_bank ELSE write_bank
    /\ \/ commitResult \in {0, -1} /\ taken' = buffers[write_bank]
       \/ commitResult \in {1, -1} /\ taken' = taken
=============================================================================

---------------------------- MODULE CommitTiming -----------------------------
(***************************************************************************)
(* The commit-gap statistic of the receiver (record_commit_timing in       *)
(* ps/app/e131_receiver.c) beside the poll that drives it.  A commit is    *)
(* recorded with the time of the call that made it: for a packet the time  *)
(* of the poll that received it, for a blackout the time of this poll.     *)
(***************************************************************************)
EXTENDS EthernetPoll

VARIABLES
    has_commit_time, \* g_has_commit_time
    last_commit_ms,  \* g_last_commit_ms
    commit_gap_ms,   \* g_status.last_frame_commit_gap_ms
    uptime           \* history: ms since the start, up to TimeSpace - 1

timingVars == <<has_commit_time, last_commit_ms, commit_gap_ms>>

TimingInit ==
    /\ Init
    /\ has_commit_time = FALSE /\ last_commit_ms = 0 /\ commit_gap_ms = 0
    /\ uptime = 0

(* record_commit_timing, called when the PL took a frame.                  *)
RecordCommitTiming(now) ==
    IF write_bank' = write_bank
    THEN UNCHANGED timingVars
    ELSE /\ has_commit_time' = TRUE
         /\ last_commit_ms' = now
         /\ commit_gap_ms' = IF has_commit_time
                             THEN Elapsed(now, last_commit_ms)
                             ELSE commit_gap_ms

TimedTick ==
    /\ Tick
    /\ uptime' = IF uptime = TimeSpace - 1 THEN uptime ELSE uptime + 1
    /\ UNCHANGED timingVars

TimedReceive ==
    /\ PollStart \/ InputEnd \/ NextRound
         \/ \E payload \in Payloads : ReceiveUdp(payload)
    /\ UNCHANGED <<timingVars, uptime>>

TimedDrain ==
    /\ DrainPacket
    /\ RecordCommitTiming(Head(queue).received_ms)
    /\ UNCHANGED uptime

TimedPollEnd ==
    /\ PollEnd
    /\ RecordCommitTiming(poll_now_ms)
    /\ UNCHANGED uptime

TimingSpec ==
    TimingInit /\ [][TimedTick \/ TimedReceive \/ TimedDrain \/ TimedPollEnd]_<<
                     vars, timingVars, uptime>>

-----------------------------------------------------------------------------
(* The gap between two commits is time that passed between them, so it is  *)
(* never longer than the program has been running                          *)
(* (ps/tests/e131_host_tests.c:385-395).                                   *)
CommitGapIsElapsed == commit_gap_ms <= uptime
=============================================================================

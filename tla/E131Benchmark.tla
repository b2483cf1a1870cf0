--------------------------- MODULE E131Benchmark ---------------------------
(***************************************************************************)
(* The throughput measurement, ps/tools/e131_benchmark.py (and run_cell of *)
(* ps/tools/e131_ingress_profile.py, which makes the same steps): for each *)
(* cell the board is programmed over JTAG, its configuration line and an   *)
(* idle status are awaited on the UART, packets are sent, a later status   *)
(* is awaited, and the difference of the two is classified.                *)
(*                                                                         *)
(* Every cell asks for the same strand configuration, so that the          *)
(* configuration line of another boot matches as well.                     *)
(***************************************************************************)
EXTENDS ControllerBoard, XsdbRun

CONSTANTS
    Cells,      \* cells of a run
    MaxStarts   \* bound on the runs

ASSUME BenchmarkAssumption ==
    /\ Cells \in Nat \ {0}
    /\ MaxStarts \in Nat
    /\ MaxBoots >= MaxStarts * Cells
    /\ MaxCalls >= MaxStarts * Cells

VARIABLES
    pc,          \* where main() is, "idle" between runs
    starts,      \* runs started
    cell,        \* cells of this run finished
    script,      \* the next step of the script in xsdb
    uartStart,   \* uart_start
    statusStart, \* cell_status_start
    config,      \* config_line
    before,      \* before_line
    latest,      \* the status wait_for_status_counter has; then `after'
    sent,        \* packets_sent
    row          \* the last row of results.csv

marks == <<uartStart, statusStart>>
found == <<config, before, latest>>
outcome == <<cell, sent, row>>
benchVars == <<pc, starts, script, marks, found, outcome>>
vars == <<benchVars, captureVars, boardVars, xsdbVars>>

NoRow == [classification |-> "none"]

Init ==
    /\ NoCapture /\ BoardInit /\ XsdbInit
    /\ pc = "idle" /\ starts = 0 /\ cell = 0 /\ script = "none"
    /\ uartStart = 0 /\ statusStart = 0
    /\ config = NoStatus /\ before = NoStatus /\ latest = NoStatus
    /\ sent = 0 /\ row = NoRow

-----------------------------------------------------------------------------
\* The steps of main() that use neither the board nor xsdb.
Goto(next) ==
    /\ pc' = next
    /\ UNCHANGED <<boardVars, xsdbVars, starts, script>>

StartRun ==
    /\ pc = "idle"
    /\ starts < MaxStarts
    /\ starts' = starts + 1
    /\ cell' = 0
    /\ row' = NoRow
    /\ pc' = "open"
    /\ UNCHANGED <<captureVars, boardVars, xsdbVars, script, marks, found, sent>>

\* Leaving main(): the finally block stops the capture, whatever happened.
EndRun ==
    /\ pc' = "idle"
    /\ StopCapture
    /\ uartStart' = 0 /\ statusStart' = 0
    /\ config' = NoStatus /\ before' = NoStatus /\ latest' = NoStatus /\ sent' = 0
    /\ UNCHANGED <<boardVars, xsdbVars, starts, script, cell, row>>

\* capture.start(), with any subset of the ports present and any free.
OpenPort ==
    /\ pc = "open"
    /\ \E ports \in SUBSET Ports : \E openable \in SUBSET ports :
        LET opened == OpenedPort(ports, openable)
        IN  \/ opened = {} /\ EndRun
            \/ /\ \E port \in opened : StartCapture(port)
               /\ Goto("cell")
               /\ UNCHANGED <<outcome, marks, found>>

\* Mutated: the cell starts behind the next line.
BeginCellLate ==
    /\ pc = "cell"
    /\ cell < Cells
    /\ uartStart' = Len(lines) + 1
    /\ Goto("drain")
    /\ UNCHANGED <<captureVars, outcome, statusStart, found>>

BeginCell ==
    /\ pc = "cell"
    /\ cell < Cells
    /\ uartStart' = Len(lines)
    /\ Goto("drain")
    /\ UNCHANGED <<captureVars, outcome, statusStart, found>>

LastCellDone == pc = "cell" /\ cell = Cells /\ EndRun

Drain(here, next) ==
    /\ pc = here
    /\ DrainPending
    /\ Goto(next)
    /\ UNCHANGED <<outcome, marks, found>>

-----------------------------------------------------------------------------
(***************************************************************************)
(* run_checked: a call of run_xsdb_checked.py; an error ends the run.      *)
(***************************************************************************)
CallProgram ==
    /\ pc = "program"
    /\ pc' = "programming"
    /\ script' = "reset"
    /\ CallXsdb
    /\ UNCHANGED <<captureVars, boardVars, starts, outcome, marks, found>>

ProgramReturns ==
    /\ pc = "programming"
    /\ xsdb = "idle"
    /\ \/ result = "error" /\ EndRun
       \/ /\ result = "ok"
          /\ Goto("config_scan")
          /\ UNCHANGED <<captureVars, outcome, marks, found>>

\* The snapshot of the registers is taken by a second call of the launcher,
\* whose script only reads; here it succeeds or fails in one step.
Snapshot ==
    /\ pc = "snapshot"
    /\ \/ EndRun
       \/ /\ Goto("record")
          /\ UNCHANGED <<captureVars, outcome, marks, found>>

ScriptFails ==
    /\ ScriptEnds("error")
    /\ script' = "none"
    /\ UNCHANGED <<captureVars, boardVars, pc, starts, outcome, marks, found>>

ScriptReset ==
    /\ xsdb = "script" /\ script = "reset"
    /\ ResetProcessor
    /\ script' = "start"
    /\ UNCHANGED <<xsdbVars, pc, starts, outcome, marks, found>>

ScriptStart ==
    /\ xsdb = "script" /\ script = "start"
    /\ StartApplication
    /\ script' = "after"
    /\ UNCHANGED <<xsdbVars, pc, starts, outcome, marks, found>>

\* The script ends with reading registers.
ScriptDone ==
    /\ script = "after"
    /\ ApplicationHasStarted
    /\ ScriptEnds("ok")
    /\ script' = "none"
    /\ UNCHANGED <<captureVars, boardVars, pc, starts, outcome, marks, found>>

ScriptStep == ScriptFails \/ ScriptReset \/ ScriptStart \/ ScriptDone

-----------------------------------------------------------------------------
(***************************************************************************)
(* wait_for: the lines from the start index on first, then the queue until *)
(* the deadline.                                                           *)
(***************************************************************************)
IsConfig(line) == line.kind = "config"

\* ^e131_status .*rx_packets=0
IsIdleStatus(line) == line.kind = "status" /\ line.rx = 0

IsStatus(line) == line.kind = "status"

\* The line a wait returned is the configuration line or the first status.
Return(line) ==
    IF line.kind = "config"
    THEN config' = line /\ UNCHANGED before
    ELSE before' = line /\ UNCHANGED config

Scan(here, Matches(_), start, next, queueing) ==
    /\ pc = here
    /\ IF Found(Matches, start) # {}
       THEN Goto(next) /\ Return(FirstFound(Matches, start))
       ELSE Goto(queueing) /\ UNCHANGED <<config, before>>
    /\ UNCHANGED <<captureVars, outcome, marks, latest>>

Take(here, Matches(_), next) ==
    /\ pc = here
    /\ TakeQueued
    /\ IF Matches(Head(queue))
       THEN Goto(next) /\ Return(Head(queue))
       ELSE Goto(here) /\ UNCHANGED <<config, before>>
    /\ UNCHANGED <<outcome, marks, latest>>

\* Mutated: the wait for the configuration line has no deadline.
DeadlinesButConfig == {"before_queue", "send"}

\* A deadline of the waits, or the sender fails.
Deadlines == {"config_queue", "before_queue", "send"}

GiveUp ==
    /\ pc \in Deadlines
    /\ EndRun

\* Mutated: the statuses are looked for where the configuration line was.
UartMark == uartStart

\* max(0, len(capture.lines) - 1)
StatusMark == IF lines = <<>> THEN 0 ELSE Len(lines) - 1

MarkStatus ==
    /\ pc = "mark"
    /\ statusStart' = StatusMark
    /\ Goto("before_scan")
    /\ UNCHANGED <<captureVars, outcome, uartStart, found>>

-----------------------------------------------------------------------------
\* e131_send.py: a packet is lost or reaches the board.
SendPacket ==
    /\ pc = "send"
    /\ sent < Packets
    /\ sent' = sent + 1
    /\ Deliver \/ UNCHANGED boardVars
    /\ UNCHANGED <<captureVars, xsdbVars, pc, starts, cell, script, marks, found, row>>

SendDone ==
    /\ pc = "send"
    /\ sent = Packets
    /\ Goto("after_scan")
    /\ UNCHANGED <<captureVars, outcome, marks, found>>

Expected == before.rx + sent

AfterScan ==
    /\ pc = "after_scan"
    /\ latest' = LatestStatus(statusStart)
    /\ Goto("after_poll")
    /\ UNCHANGED <<captureVars, outcome, marks, config, before>>

\* The counter has been reached; or a queued line is looked at; or 0.2
\* seconds pass without one; or the deadline has passed.
AfterPoll ==
    /\ pc = "after_poll"
    /\ IF latest # NoStatus /\ latest.rx >= Expected
       THEN Goto("snapshot") /\ UNCHANGED <<captureVars, latest>>
       ELSE \/ /\ TakeQueued
               /\ latest' = IF IsStatus(Head(queue)) THEN Head(queue) ELSE latest
               /\ Goto("after_poll")
            \/ /\ queue = <<>>
               /\ latest' = LatestStatus(statusStart)
               /\ Goto("after_poll")
               /\ UNCHANGED captureVars
    /\ UNCHANGED <<outcome, marks, config, before>>

AfterDeadline ==
    /\ pc = "after_poll"
    /\ latest' = IF LatestStatus(statusStart) # NoStatus
                 THEN LatestStatus(statusStart) ELSE latest
    /\ Goto("snapshot")
    /\ UNCHANGED <<captureVars, outcome, marks, config, before>>

-----------------------------------------------------------------------------
(***************************************************************************)
(* The row.  A counter missing in either status has no difference and      *)
(* counts as zero.                                                         *)
(***************************************************************************)
Complete(status) == status # NoStatus /\ status.complete

Delta(counter) ==
    IF Complete(before) /\ Complete(latest)
    THEN latest[counter] - before[counter]
    ELSE 0

\* Mutated: what was committed is compared with what was received.
ClassifyReceived ==
    CASE Delta("errors") = 0 /\ 100 * Delta("committed") >= 99 * Delta("rx") -> "stable"
      [] Delta("errors") <= 1 /\ 100 * Delta("committed") >= 95 * Delta("rx") -> "marginal"
      [] OTHER -> "broken"

Classify ==
    CASE Delta("errors") = 0 /\ 100 * Delta("committed") >= 99 * sent -> "stable"
      [] Delta("errors") <= 1 /\ 100 * Delta("committed") >= 95 * sent -> "marginal"
      [] OTHER -> "broken"

RecordRow ==
    /\ pc = "record"
    /\ row' = [classification |-> Classify, config |-> config, status |-> latest]
    /\ cell' = cell + 1
    /\ sent' = 0
    /\ config' = NoStatus /\ before' = NoStatus /\ latest' = NoStatus
    /\ Goto("cell")
    /\ UNCHANGED <<captureVars, marks>>

-----------------------------------------------------------------------------
Cell ==
    \/ BeginCell
    \/ Drain("drain", "program")
    \/ CallProgram
    \/ ProgramReturns
    \/ Scan("config_scan", IsConfig, uartStart, "mark", "config_queue")
    \/ Take("config_queue", IsConfig, "mark")
    \/ MarkStatus
    \/ Scan("before_scan", IsIdleStatus, statusStart, "drain_again", "before_queue")
    \/ Take("before_queue", IsIdleStatus, "drain_again")
    \/ Drain("drain_again", "send")
    \/ SendPacket
    \/ SendDone
    \/ AfterScan
    \/ AfterPoll
    \/ AfterDeadline
    \/ Snapshot
    \/ RecordRow
    \/ LastCellDone

Main == OpenPort \/ Cell \/ GiveUp

Environment ==
    \/ BoardStep /\ UNCHANGED <<benchVars, xsdbVars>>
    \/ (PutLine \/ ReaderDies) /\ UNCHANGED <<benchVars, boardVars, xsdbVars>>
    \/ (LauncherStep \/ ServerStep) /\ UNCHANGED <<benchVars, captureVars, boardVars>>

Next == StartRun \/ Main \/ ScriptStep \/ Environment

\* The tool, its reader and the debugger keep running; the board may be mute.
Fairness ==
    /\ WF_vars(Main)
    /\ WF_vars(ScriptStep)
    /\ WF_vars(LauncherStep /\ UNCHANGED <<benchVars, captureVars, boardVars>>)

Spec == Init /\ [][Next]_vars /\ Fairness

-----------------------------------------------------------------------------
Places ==
    {"idle", "open", "cell", "drain", "program", "programming", "config_scan",
     "config_queue", "mark", "before_scan", "before_queue", "drain_again",
     "send", "after_scan", "after_poll", "snapshot", "record"}

Printed ==
    {[kind |-> "config", boot |-> b] : b \in 0 .. MaxBoots}
    \cup [kind : {"status"}, boot : 0 .. MaxBoots, rx : 0 .. Packets,
          complete : {FALSE}]
    \cup [kind : {"status"}, boot : 0 .. MaxBoots, rx : 0 .. Packets,
          committed : 0 .. Packets, errors : 0 .. Packets, complete : {TRUE}]

TypeOK ==
    /\ BoardTypeOK /\ XsdbTypeOK
    /\ lines \in Seq(Printed) /\ pending \in Seq(Printed) /\ queue \in Seq(Printed)
    /\ Len(pending) <= 1 /\ Len(queue) <= Len(lines)
    /\ reader \in {"none", "running", "dead"} /\ glitches \in 0 .. MaxGlitches
    /\ pc \in Places
    /\ starts \in 0 .. MaxStarts /\ cell \in 0 .. Cells
    /\ script \in {"none", "reset", "start", "after"}
    /\ uartStart \in 0 .. Len(lines) /\ statusStart \in 0 .. Len(lines)
    /\ {config, before, latest} \subseteq Printed \cup {NoStatus}
    /\ sent \in 0 .. Packets

JustRecorded == pc = "cell" /\ row # NoRow

(***************************************************************************)
(* A row is "stable" only when the board, in the boot the cell programmed, *)
(* has committed all but one in a hundred of the packets the cell sent,    *)
(* and no more than that can be errors: neither statuses of another boot,  *)
(* nor lost, late or broken lines, nor a status printed while packets were *)
(* still queued make a bad cell good.                                      *)
(***************************************************************************)
StableRowIsHonest ==
    JustRecorded /\ row.classification = "stable"
        => /\ 100 * committed >= 99 * Packets
           /\ 100 * errors <= Packets

(***************************************************************************)
(* A row whose configuration line is of the boot the cell programmed ends  *)
(* with a status of that boot, though the list still holds the lines of    *)
(* all boots before and the queue those since the last drain.              *)
(***************************************************************************)
RowOfItsBoot ==
    JustRecorded /\ row.config.boot = boot /\ row.status # NoStatus
        => row.status.boot = boot

(***************************************************************************)
(* A run ends, also when the board goes mute, the reader thread has died   *)
(* or a hw_server never answers: every wait has a deadline.                *)
(***************************************************************************)
BenchmarkEnds == pc # "idle" ~> pc = "idle"

=============================================================================

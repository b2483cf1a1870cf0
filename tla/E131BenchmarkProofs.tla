------------------------ MODULE E131BenchmarkProofs ------------------------
(***************************************************************************)
(* That the measurement is honest: which boot each line of the capture is  *)
(* of, and what it may still say when it is read.                          *)
(***************************************************************************)
EXTENDS E131Benchmark, SequenceTheorems, WellFoundedInduction, TLAPS

(***************************************************************************)
(* The debugger.  Between the start of its server and the end of its       *)
(* processes a call is alone: the server of no other call is alive.        *)
(***************************************************************************)
XsdbInv ==
    /\ xsdb \in {"port", "script", "exit"}
         => servers = {call} /\ holder \in {call, Nobody}
    /\ XsdbTalksToOwnServer

(***************************************************************************)
(* The capture.  The queue and the line between list and queue are of the  *)
(* list, which is in the order of the boots.  No line of the present boot  *)
(* counts more frames than the board has committed.                        *)
(***************************************************************************)
Counted(line) == IF line.kind = "status" /\ line.complete THEN line.committed ELSE 0

CaptureInv ==
    /\ Len(queue) + Len(pending) <= Len(lines)
    /\ \A k \in 1 .. Len(queue) : \E i \in 1 .. Len(lines) : queue[k] = lines[i]
    /\ pending # <<>> => pending[1] = lines[Len(lines)] /\ pending[1].boot = boot
    /\ \A i, j \in 1 .. Len(lines) : i <= j => lines[i].boot <= lines[j].boot
    /\ \A i \in 1 .. Len(lines) :
          /\ lines[i].boot <= boot
          /\ lines[i].boot = boot => Counted(lines[i]) <= committed

\* Nothing is marked in a capture that has not begun, and a cell is one of them.
PlaceInv ==
    /\ pc \in {"idle", "open"} => uartStart = 0 /\ statusStart = 0
    /\ pc \notin {"idle", "open", "cell"} => cell < Cells

(***************************************************************************)
(* The script.  It runs only while main() waits for it, and what it ends   *)
(* with is a board whose application is past its configuration line.       *)
(***************************************************************************)
NoConfigPending == \A k \in 1 .. Len(pending) : pending[k].kind # "config"

Started == phase \in {"configured", "running", "fatal"} /\ NoConfigPending

Searching == {"config_scan", "config_queue", "mark"}
Measuring ==
    {"before_scan", "before_queue", "drain_again", "send", "after_scan",
     "after_poll", "snapshot", "record"}

\* Where the cell relies on a board that has started.
AfterProgram ==
    \/ pc = "programming" /\ result = "ok"
    \/ pc \in Searching \cup Measuring
    \/ pc = "cell" /\ cell > 0

ScriptInv ==
    /\ phase \in {"booting", "configured"} => rx = 0
    /\ xsdb # "idle" => pc = "programming"
    /\ xsdb \in {"start", "port"} => script = "reset"
    /\ xsdb \in {"start", "port", "script"} => result = "none"
    /\ script \in {"start", "after"} => xsdb = "script"
    /\ script = "start" => phase = "held"
    /\ AfterProgram => Started

(***************************************************************************)
(* Before the boot of the cell.  If the boot before may still show its     *)
(* configuration line behind the start of the cell, it has received        *)
(* nothing, and the capture holds no line of an earlier one.               *)
(***************************************************************************)
BeforeBoot ==
    \/ pc \in {"cell", "drain", "program"}
    \/ pc = "programming" /\ result = "none" /\ script \in {"reset", "start"}

ConfigQueued == \E k \in 1 .. Len(queue) : queue[k].kind = "config"

ConfigListed == \E i \in uartStart + 1 .. Len(lines) : lines[i].kind = "config"

ConfigAhead ==
    \/ phase = "booting"
    \/ ~NoConfigPending
    \/ pc \in {"program", "programming"} /\ ConfigQueued
    \/ pc # "cell" /\ ConfigListed

Fresh == rx = 0 /\ \A i \in 1 .. Len(lines) : lines[i].boot = boot

EarlyInv == BeforeBoot /\ ConfigAhead => Fresh

(***************************************************************************)
(* After it, as long as the configuration line is looked for.  If that of  *)
(* the boot before can be found, no line of that boot counts a frame.      *)
(***************************************************************************)
AfterBoot ==
    \/ script = "after"
    \/ pc = "programming" /\ result = "ok"
    \/ pc \in Searching

OldConfig ==
    \/ \E k \in 1 .. Len(queue) : queue[k].kind = "config" /\ queue[k].boot # boot
    \/ \E i \in uartStart + 1 .. Len(lines) :
          lines[i].kind = "config" /\ lines[i].boot # boot
    \/ pc = "mark" /\ config.boot # boot

SearchInv ==
    /\ AfterBoot /\ OldConfig =>
          \A i \in 1 .. Len(lines) : lines[i].boot = boot \/ Counted(lines[i]) = 0
    /\ pc = "mark" => \E i \in 1 .. Len(lines) : config = lines[i]

(***************************************************************************)
(* While the statuses are looked for: what may still be read is of this    *)
(* boot, or counts nothing.                                                *)
(***************************************************************************)
ReadableInv ==
    /\ {before.kind, latest.kind} \subseteq {"none", "status"}
    /\ pc \in Measuring =>
          \A i \in statusStart + 1 .. Len(lines) :
             \/ lines[i].boot = boot
             \/ config.boot # boot /\ Counted(lines[i]) = 0
    /\ pc \in Measuring \ {"before_scan", "before_queue", "drain_again"} =>
          \A k \in 1 .. Len(queue) : queue[k].boot = boot
    /\ pc \in {"after_scan", "after_poll", "snapshot", "record"} => sent = Packets
    /\ pc \in {"after_poll", "snapshot", "record"} /\ latest # NoStatus =>
          /\ Counted(latest) <= committed
          /\ config.boot = boot => latest.boot = boot

RowInv ==
    /\ pc = "open" => cell = 0 /\ row = NoRow
    /\ StableRowIsHonest
    /\ RowOfItsBoot

BenchmarkInv ==
    /\ TypeOK /\ XsdbInv /\ CaptureInv /\ PlaceInv /\ ScriptInv
    /\ EarlyInv /\ SearchInv /\ ReadableInv /\ RowInv

-----------------------------------------------------------------------------
(***************************************************************************)
(* Lines.                                                                  *)
(***************************************************************************)
LEMMA LineFields ==
    ASSUME NEW line \in Printed
    PROVE  /\ line.kind \in {"config", "status"} /\ line # NoStatus
           /\ line.boot \in 0 .. MaxBoots
           /\ line.kind = "status" =>
                 /\ line.rx \in 0 .. Packets /\ line.complete \in BOOLEAN
                 /\ line.complete => /\ line.committed \in 0 .. Packets
                                     /\ line.errors \in 0 .. Packets
           /\ Counted(line) \in 0 .. Packets
<1>0. Packets \in Nat
  BY BoardAssumption
<1>1. CASE \E b \in 0 .. MaxBoots : line = [kind |-> "config", boot |-> b]
  BY <1>0, <1>1 DEF NoStatus, Counted
<1>2. CASE line \in [kind : {"status"}, boot : 0 .. MaxBoots, rx : 0 .. Packets,
                     complete : {FALSE}]
  <2>1. /\ line.kind = "status" /\ line.complete = FALSE
        /\ line.boot \in 0 .. MaxBoots /\ line.rx \in 0 .. Packets
    BY <1>2
  <2>2. Counted(line) = 0 /\ line.complete \in BOOLEAN /\ ~line.complete
    BY <2>1, Zenon DEF Counted
  <2>3. line # NoStatus
    BY <2>1 DEF NoStatus
  <2> QED
    BY <1>0, <2>1, <2>2, <2>3
<1>3. CASE line \in [kind : {"status"}, boot : 0 .. MaxBoots, rx : 0 .. Packets,
                     committed : 0 .. Packets, errors : 0 .. Packets,
                     complete : {TRUE}]
  <2>1. /\ line.kind = "status" /\ line.complete = TRUE
        /\ line.boot \in 0 .. MaxBoots /\ line.rx \in 0 .. Packets
        /\ line.committed \in 0 .. Packets /\ line.errors \in 0 .. Packets
    BY <1>3
  <2>2. Counted(line) = line.committed
    BY <2>1, Zenon DEF Counted
  <2>3. line # NoStatus
    BY <2>1 DEF NoStatus
  <2> QED
    BY <1>0, <2>1, <2>2, <2>3
<1> QED
  BY <1>1, <1>2, <1>3 DEF Printed

\* What the board prints.
PrintedNow == {ConfigLine(boot), StatusLine(boot), CutLine(boot)}

LEMMA PrintedLine ==
    ASSUME BoardTypeOK, NEW line \in PrintedNow
    PROVE  /\ line \in Printed /\ line.boot = boot
           /\ Counted(line) <= committed
           /\ line.kind = "config" <=> line = ConfigLine(boot)
<1>0. /\ Packets \in Nat /\ boot \in 0 .. MaxBoots /\ rx \in 0 .. Packets
      /\ committed \in 0 .. Packets /\ errors \in 0 .. Packets
  BY BoardAssumption DEF BoardTypeOK
<1>1. CASE line = ConfigLine(boot)
  <2>1. line.kind = "config" /\ line.boot = boot
    BY <1>1 DEF ConfigLine
  <2>2. Counted(line) = 0
    BY <2>1 DEF Counted
  <2>3. line \in Printed
    BY <1>0, <1>1, Zenon DEF ConfigLine, Printed
  <2> QED
    BY <1>0, <1>1, <2>1, <2>2, <2>3
<1>2. CASE line = StatusLine(boot)
  <2>1. line \in [kind : {"status"}, boot : 0 .. MaxBoots, rx : 0 .. Packets,
                  committed : 0 .. Packets, errors : 0 .. Packets,
                  complete : {TRUE}]
    BY <1>0, <1>2 DEF StatusLine
  <2>2. /\ line.kind = "status" /\ line.boot = boot /\ line.complete = TRUE
        /\ line.committed = committed
    BY <1>2 DEF StatusLine
  <2>3. line # ConfigLine(boot)
    BY <2>2 DEF ConfigLine
  <2>4. Counted(line) = committed
    BY <2>2, Zenon DEF Counted
  <2>5. line \in Printed
    BY <2>1, Zenon DEF Printed
  <2> QED
    BY <1>0, <2>2, <2>3, <2>4, <2>5
<1>3. CASE line = CutLine(boot)
  <2>1. line \in [kind : {"status"}, boot : 0 .. MaxBoots, rx : 0 .. Packets,
                  complete : {FALSE}]
    BY <1>0, <1>3 DEF CutLine
  <2>2. line.kind = "status" /\ line.boot = boot /\ line.complete = FALSE
    BY <1>3 DEF CutLine
  <2>3. line # ConfigLine(boot)
    BY <2>2 DEF ConfigLine
  <2>4. Counted(line) = 0
    BY <2>2, Zenon DEF Counted
  <2>5. line \in Printed
    BY <2>1, Zenon DEF Printed
  <2> QED
    BY <1>0, <2>2, <2>3, <2>4, <2>5
<1> QED
  BY <1>1, <1>2, <1>3 DEF PrintedNow

(***************************************************************************)
(* The searches of the list find what they look for behind the start.      *)
(***************************************************************************)
LEMMA LeastElement ==
    ASSUME NEW S, S \subseteq Nat, S # {}
    PROVE  \E least \in S : \A i \in S : least <= i
<1>1. PICK least \in S : \A i \in S : <<i, least>> \notin OpToRel(<, Nat)
  BY NatLessThanWellFounded, WFMin, Zenon
<1>2. ASSUME NEW i \in S
      PROVE  least <= i
  <2>1. ~(i < least)
    BY <1>1 DEF OpToRel
  <2> QED
    BY <2>1
<1> QED
  BY <1>2

LEMMA GreatestElement ==
    ASSUME NEW n \in Nat, NEW S, S \subseteq 0 .. n, S # {}
    PROVE  \E greatest \in S : \A i \in S : greatest >= i
<1> DEFINE mirror == {n - i : i \in S}
<1>1. mirror \subseteq Nat /\ mirror # {}
  OBVIOUS
<1>2. PICK least \in mirror : \A i \in mirror : least <= i
  <2> HIDE DEF mirror
  <2> QED
    BY <1>1, LeastElement, Zenon
<1>3. PICK greatest \in S : least = n - greatest
  OBVIOUS
<1>4. ASSUME NEW i \in S
      PROVE  greatest >= i
  <2>1. n - greatest <= n - i
    BY <1>2, <1>3
  <2> QED
    BY <2>1
<1> QED
  BY <1>4

LEMMA FromProperties ==
    ASSUME lines \in Seq(Printed), NEW start \in 0 .. Len(lines)
    PROVE  /\ From(start) \in Seq(Printed)
           /\ DOMAIN From(start) = 1 .. Len(lines) - start
           /\ \A i \in 1 .. Len(lines) - start : From(start)[i] = lines[start + i]
<1>1. Len(lines) \in Nat /\ \A i \in 1 .. Len(lines) : lines[i] \in Printed
  BY ElementOfSeq, LenProperties
<1>2. /\ SubSeq(lines, start + 1, Len(lines)) \in Seq(Printed)
      /\ Len(SubSeq(lines, start + 1, Len(lines))) =
            IF start + 1 <= Len(lines) THEN Len(lines) - (start + 1) + 1 ELSE 0
      /\ \A i \in 1 .. Len(lines) - (start + 1) + 1 :
            SubSeq(lines, start + 1, Len(lines))[i] = lines[(start + 1) + i - 1]
  <2>1. start + 1 \in Int /\ Len(lines) \in Int
        /\ \A i \in start + 1 .. Len(lines) : lines[i] \in Printed
    BY <1>1
  <2> QED
    BY <2>1, SubSeqProperties
<1>3. /\ From(start) \in Seq(Printed)
      /\ Len(From(start)) = Len(lines) - start
  BY <1>1, <1>2 DEF From
<1>4. DOMAIN From(start) = 1 .. Len(lines) - start
  BY <1>3, LenProperties
<1>5. ASSUME NEW i \in 1 .. Len(lines) - start
      PROVE  From(start)[i] = lines[start + i]
  <2>1. (start + 1) + i - 1 = start + i /\ i \in 1 .. Len(lines) - (start + 1) + 1
    BY <1>1
  <2> QED
    BY <1>2, <2>1 DEF From
<1> QED
  BY <1>3, <1>4, <1>5

LEMMA ConfigFound ==
    ASSUME lines \in Seq(Printed), NEW start \in 0 .. Len(lines),
           Found(IsConfig, start) # {}
    PROVE  \E i \in start + 1 .. Len(lines) :
              FirstFound(IsConfig, start) = lines[i] /\ lines[i].kind = "config"
<1> DEFINE matching == {i \in DOMAIN From(start) : From(start)[i].kind = "config"}
<1>0. matching # {} /\ matching \subseteq Nat
  BY FromProperties, LenProperties DEF Found, IsConfig
<1>1. \E i \in matching : \A j \in matching : i <= j
  <2> HIDE DEF matching
  <2> QED
    BY <1>0, LeastElement, Zenon
<1>2. PICK i \in matching : FirstFound(IsConfig, start) = From(start)[i]
  BY <1>1 DEF FirstFound, Found, IsConfig
<1>3. /\ i \in 1 .. Len(lines) - start /\ From(start)[i].kind = "config"
      /\ Len(lines) \in Nat
  BY <1>2, FromProperties, LenProperties
<1>4. start + i \in start + 1 .. Len(lines) /\ From(start)[i] = lines[start + i]
  BY <1>3, FromProperties
<1> QED
  BY <1>2, <1>3, <1>4

LEMMA IdleStatusFound ==
    ASSUME lines \in Seq(Printed), NEW start \in 0 .. Len(lines),
           Found(IsIdleStatus, start) # {}
    PROVE  \E i \in start + 1 .. Len(lines) :
              FirstFound(IsIdleStatus, start) = lines[i] /\ lines[i].kind = "status"
<1> DEFINE matching == {i \in DOMAIN From(start) :
                        From(start)[i].kind = "status" /\ From(start)[i].rx = 0}
<1>0. matching # {} /\ matching \subseteq Nat
  BY FromProperties, LenProperties DEF Found, IsIdleStatus
<1>1. \E i \in matching : \A j \in matching : i <= j
  <2> HIDE DEF matching
  <2> QED
    BY <1>0, LeastElement, Zenon
<1>2. PICK i \in matching : FirstFound(IsIdleStatus, start) = From(start)[i]
  BY <1>1 DEF FirstFound, Found, IsIdleStatus
<1>3. /\ i \in 1 .. Len(lines) - start /\ From(start)[i].kind = "status"
      /\ Len(lines) \in Nat
  BY <1>2, FromProperties, LenProperties
<1>4. start + i \in start + 1 .. Len(lines) /\ From(start)[i] = lines[start + i]
  BY <1>3, FromProperties
<1> QED
  BY <1>2, <1>3, <1>4

LEMMA LatestFound ==
    ASSUME lines \in Seq(Printed), NEW start \in 0 .. Len(lines)
    PROVE  \/ LatestStatus(start) = NoStatus
           \/ \E i \in start + 1 .. Len(lines) :
                 LatestStatus(start) = lines[i] /\ lines[i].kind = "status"
<1> DEFINE statuses == {i \in DOMAIN From(start) : From(start)[i].kind = "status"}
<1>1. CASE statuses = {}
  BY <1>1 DEF LatestStatus
<1>2. CASE statuses # {}
  <2>1. statuses \subseteq 0 .. Len(lines) /\ Len(lines) \in Nat
    BY FromProperties, LenProperties
  <2>2. \E i \in statuses : \A j \in statuses : i >= j
    <3> HIDE DEF statuses
    <3> QED
      BY <1>2, <2>1, GreatestElement
  <2>3. PICK i \in statuses : LatestStatus(start) = From(start)[i]
    BY <1>2, <2>2 DEF LatestStatus
  <2>4. i \in 1 .. Len(lines) - start /\ From(start)[i].kind = "status"
    BY <2>3, FromProperties
  <2>5. From(start)[i] = lines[start + i]
    BY <2>4, FromProperties
  <2>6. start + i \in start + 1 .. Len(lines)
    BY <2>1, <2>4
  <2> QED
    BY <2>3, <2>4, <2>5, <2>6
<1> QED
  BY <1>1, <1>2

-----------------------------------------------------------------------------
(***************************************************************************)
(* What a step does to each part of the state.                             *)
(***************************************************************************)
\* The steps of main() that touch no board and no debugger.
Desk ==
    \/ OpenPort \/ BeginCell \/ Drain("drain", "program") \/ ProgramReturns
    \/ Scan("config_scan", IsConfig, uartStart, "mark", "config_queue")
    \/ Take("config_queue", IsConfig, "mark")
    \/ MarkStatus
    \/ Scan("before_scan", IsIdleStatus, statusStart, "drain_again", "before_queue")
    \/ Take("before_queue", IsIdleStatus, "drain_again")
    \/ Drain("drain_again", "send")
    \/ SendDone \/ AfterScan \/ AfterPoll \/ AfterDeadline
    \/ Snapshot \/ RecordRow \/ LastCellDone \/ GiveUp

LEMMA MainSteps == Main <=> Desk \/ CallProgram \/ SendPacket
BY DEF Main, Cell, Desk

LEMMA DeskEffect ==
    ASSUME Desk
    PROVE  /\ UNCHANGED <<boardVars, xsdbVars, starts, script>>
           /\ pc \notin {"idle", "programming"} \/ ProgramReturns
<1>1. CASE OpenPort
  BY <1>1 DEF OpenPort, EndRun, Goto
<1>2. CASE BeginCell
  BY <1>2 DEF BeginCell, Goto
<1>3. CASE Drain("drain", "program") \/ Drain("drain_again", "send")
  BY <1>3 DEF Drain, Goto
<1>4. CASE ProgramReturns
  BY <1>4 DEF ProgramReturns, EndRun, Goto
<1>5. CASE Scan("config_scan", IsConfig, uartStart, "mark", "config_queue")
  BY <1>5 DEF Scan, Goto
<1>6. CASE Scan("before_scan", IsIdleStatus, statusStart, "drain_again", "before_queue")
  BY <1>6 DEF Scan, Goto
<1>7. CASE Take("config_queue", IsConfig, "mark")
  BY <1>7 DEF Take, Goto
<1>8. CASE Take("before_queue", IsIdleStatus, "drain_again")
  BY <1>8 DEF Take, Goto
<1>9. CASE MarkStatus \/ SendDone \/ AfterScan \/ AfterDeadline \/ RecordRow
  BY <1>9 DEF MarkStatus, SendDone, AfterScan, AfterDeadline, RecordRow, Goto
<1>10. CASE AfterPoll
  BY <1>10 DEF AfterPoll, Goto
<1>11. CASE Snapshot
  BY <1>11 DEF Snapshot, EndRun, Goto
<1>12. CASE LastCellDone \/ GiveUp
  BY <1>12 DEF LastCellDone, GiveUp, EndRun, Deadlines
<1> QED
  BY <1>1, <1>2, <1>3, <1>4, <1>5, <1>6, <1>7, <1>8, <1>9, <1>10, <1>11, <1>12 DEF Desk

LEMMA StartRunEffect ==
    ASSUME StartRun
    PROVE  /\ UNCHANGED <<captureVars, boardVars, xsdbVars, script, marks, found, sent>>
           /\ pc = "idle" /\ pc' = "open" /\ cell' = 0 /\ row' = NoRow
           /\ starts < MaxStarts /\ starts' = starts + 1
BY DEF StartRun

\* The steps beside main().
Beside == ScriptStep \/ Environment

LEMMA NextSteps == Next <=> StartRun \/ Desk \/ CallProgram \/ SendPacket \/ Beside
BY MainSteps DEF Next, Beside

LEMMA BesideEffect ==
    ASSUME Beside
    PROVE  UNCHANGED <<pc, starts, marks, found, outcome>>
<1>1. CASE ScriptStep
  BY <1>1 DEF ScriptStep, ScriptFails, ScriptReset, ScriptStart, ScriptDone
<1>2. CASE Environment
  BY <1>2 DEF Environment, benchVars
<1> QED
  BY <1>1, <1>2 DEF Beside

(***************************************************************************)
(* The debugger.                                                           *)
(***************************************************************************)
XsdbMove ==
    \/ UNCHANGED xsdbVars
    \/ CallProgram /\ CallXsdb
    \/ LauncherStep /\ UNCHANGED benchVars
    \/ ServerStep /\ UNCHANGED benchVars
    \/ ScriptFails \/ ScriptDone

LEMMA XsdbMoves == Next => XsdbMove
<1> SUFFICES ASSUME Next PROVE XsdbMove
  OBVIOUS
<1>1. CASE StartRun
  BY <1>1, StartRunEffect DEF XsdbMove
<1>2. CASE Desk
  BY <1>2, DeskEffect DEF XsdbMove
<1>3. CASE CallProgram
  BY <1>3 DEF CallProgram, XsdbMove
<1>4. CASE SendPacket
  BY <1>4 DEF SendPacket, XsdbMove
<1>5. CASE ScriptStep
  BY <1>5 DEF ScriptStep, ScriptReset, ScriptStart, XsdbMove
<1>6. CASE Environment
  BY <1>6 DEF Environment, XsdbMove
<1> QED
  BY <1>1, <1>2, <1>3, <1>4, <1>5, <1>6, NextSteps DEF Beside

LEMMA XsdbStep ==
    ASSUME XsdbTypeOK, XsdbInv, Next
    PROVE  XsdbTypeOK' /\ XsdbInv'
<1>0. MaxCalls \in Nat /\ Nobody \notin 0 .. MaxCalls
  BY XsdbAssumption DEF Nobody
<1>1. CASE UNCHANGED xsdbVars
  BY <1>1 DEF XsdbTypeOK, XsdbInv, XsdbTalksToOwnServer, xsdbVars
<1>2. CASE CallXsdb
  BY <1>0, <1>2 DEF CallXsdb, XsdbTypeOK, XsdbInv, XsdbTalksToOwnServer, Stages
<1>3. CASE StartServer
  <2>1. servers' = {call} /\ holder' = Nobody
    BY <1>0, <1>3 DEF StartServer, LeftAfterCleaning, HolderAmong
  <2> QED
    BY <1>0, <1>3, <2>1
       DEF StartServer, XsdbTypeOK, XsdbInv, XsdbTalksToOwnServer, Stages
<1>4. CASE PortAnswers
  BY <1>4 DEF PortAnswers, XsdbTypeOK, XsdbInv, XsdbTalksToOwnServer, Stages
<1>5. CASE PortTimesOut
  BY <1>5 DEF PortTimesOut, XsdbTypeOK, XsdbInv, XsdbTalksToOwnServer, Stages
<1>6. CASE TerminateProcesses
  <2>1. servers' \subseteq servers /\ holder' \in servers' \cup {Nobody}
    BY <1>6 DEF TerminateProcesses, HolderAmong
  <2> QED
    BY <1>6, <2>1
       DEF TerminateProcesses, XsdbTypeOK, XsdbInv, XsdbTalksToOwnServer, Stages
<1>7. CASE ServerStep
  <2>1. PICK s \in servers : ServerBinds(s)
    BY <1>7 DEF ServerStep
  <2>2. /\ holder = Nobody /\ holder' = s /\ UNCHANGED <<call, xsdb, result, servers>>
    BY <2>1 DEF ServerBinds
  <2>3. xsdb # "script"
    BY <1>0, <2>2 DEF XsdbTypeOK, XsdbInv, XsdbTalksToOwnServer
  <2> QED
    BY <2>2, <2>3 DEF XsdbTypeOK, XsdbInv, XsdbTalksToOwnServer
<1>8. CASE ScriptEnds("ok") \/ ScriptEnds("error")
  BY <1>8 DEF ScriptEnds, XsdbTypeOK, XsdbInv, XsdbTalksToOwnServer, Stages
<1> QED
  BY <1>1, <1>2, <1>3, <1>4, <1>5, <1>6, <1>7, <1>8, XsdbMoves
     DEF XsdbMove, LauncherStep, ScriptFails, ScriptDone

(***************************************************************************)
(* The board.                                                              *)
(***************************************************************************)
BoardMove ==
    \/ UNCHANGED boardVars
    \/ BoardStep /\ UNCHANGED <<benchVars, xsdbVars>>
    \/ SendPacket /\ Deliver
    \/ ScriptReset
    \/ ScriptStart

LEMMA BoardMoves == Next => BoardMove
<1> SUFFICES ASSUME Next PROVE BoardMove
  OBVIOUS
<1>1. CASE StartRun
  BY <1>1, StartRunEffect DEF BoardMove
<1>2. CASE Desk
  BY <1>2, DeskEffect DEF BoardMove
<1>3. CASE CallProgram
  BY <1>3 DEF CallProgram, BoardMove
<1>4. CASE SendPacket
  BY <1>4 DEF SendPacket, BoardMove
<1>5. CASE ScriptStep
  BY <1>5 DEF ScriptStep, ScriptFails, ScriptDone, BoardMove
<1>6. CASE Environment
  BY <1>6 DEF Environment, BoardMove
<1> QED
  BY <1>1, <1>2, <1>3, <1>4, <1>5, <1>6, NextSteps DEF Beside

LEMMA BoardStepType ==
    ASSUME BoardTypeOK, Next
    PROVE  /\ BoardTypeOK'
           /\ \/ boot' = boot /\ committed' >= committed
              \/ ScriptStart /\ boot' = boot + 1
<1>0. /\ Packets \in Nat \ {0} /\ MaxBoots \in Nat /\ MaxStatus \in Nat \ {0}
  BY BoardAssumption
<1>1. CASE UNCHANGED boardVars
  BY <1>1 DEF BoardTypeOK, boardVars
<1>2. CASE PrintConfig
  BY <1>2 DEF PrintConfig, BoardTypeOK, counters
<1>3. CASE EnterMainLoop
  BY <1>0, <1>3 DEF EnterMainLoop, BoardTypeOK, counters
<1>4. CASE Fatal
  BY <1>4 DEF Fatal, BoardTypeOK, counters
<1>5. CASE PrintStatus
  BY <1>0, <1>5 DEF PrintStatus, BoardTypeOK, counters
<1>6. CASE HandlePacket
  BY <1>0, <1>6 DEF HandlePacket, BoardTypeOK
<1>7. CASE Deliver
  BY <1>0, <1>7 DEF Deliver, BoardTypeOK
<1>8. CASE ScriptReset
  BY <1>8 DEF ScriptReset, ResetProcessor, BoardTypeOK, counters
<1>9. CASE ScriptStart
  BY <1>0, <1>9 DEF ScriptStart, StartApplication, BoardTypeOK
<1> QED
  BY <1>1, <1>2, <1>3, <1>4, <1>5, <1>6, <1>7, <1>8, <1>9, BoardMoves
     DEF BoardMove, BoardStep, Boot

(***************************************************************************)
(* The capture.                                                            *)
(***************************************************************************)
Still == UNCHANGED <<lines, pending, queue>>

Reads(line) ==
    /\ line \in PrintedNow
    /\ line = ConfigLine(boot) => phase = "booting"
    /\ pending = <<>> /\ pending' = <<line>>
    /\ lines' = Append(lines, line)
    /\ queue' = queue

Cleared == lines' = <<>> /\ pending' = <<>> /\ queue' = <<>>

CaptureMove ==
    \/ Still
    \/ (\E line \in PrintedNow : Reads(line)) /\ boot' = boot /\ Beside
    \/ PutLine /\ UNCHANGED <<benchVars, boardVars, xsdbVars>>
    \/ TakeQueued /\ UNCHANGED boardVars
    \/ DrainPending /\ UNCHANGED boardVars
    \/ Cleared /\ UNCHANGED boardVars

LEMMA ReceiveMoves ==
    ASSUME NEW line \in PrintedNow, Receive(line),
           line = ConfigLine(boot) => phase = "booting"
    PROVE  Still \/ Reads(line)
BY DEF Receive, ReadLine, GarbleLine, Glitch, NobodyReads, Still, Reads, captureVars

LEMMA DeskCapture ==
    ASSUME Desk
    PROVE  \/ Still
           \/ TakeQueued /\ pc \in {"config_queue", "before_queue", "after_poll"}
           \/ DrainPending /\ pc \in {"drain", "drain_again"}
           \/ Cleared /\ pc = "open" /\ UNCHANGED <<outcome, marks, found>> /\ pc' = "cell"
           \/ EndRun
<1>1. CASE OpenPort
  BY <1>1 DEF OpenPort, StartCapture, Goto, Cleared
<1>2. CASE BeginCell
  BY <1>2 DEF BeginCell, captureVars, Still
<1>3. CASE Drain("drain", "program") \/ Drain("drain_again", "send")
  BY <1>3 DEF Drain
<1>4. CASE ProgramReturns
  BY <1>4 DEF ProgramReturns, captureVars, Still
<1>5. CASE Scan("config_scan", IsConfig, uartStart, "mark", "config_queue")
  BY <1>5 DEF Scan, captureVars, Still
<1>6. CASE Scan("before_scan", IsIdleStatus, statusStart, "drain_again", "before_queue")
  BY <1>6 DEF Scan, captureVars, Still
<1>7. CASE Take("config_queue", IsConfig, "mark")
  BY <1>7 DEF Take
<1>8. CASE Take("before_queue", IsIdleStatus, "drain_again")
  BY <1>8 DEF Take
<1>9. CASE MarkStatus \/ SendDone \/ AfterScan \/ AfterDeadline \/ RecordRow
  BY <1>9 DEF MarkStatus, SendDone, AfterScan, AfterDeadline, RecordRow, captureVars, Still
<1>10. CASE AfterPoll
  BY <1>10 DEF AfterPoll, captureVars, Still
<1>11. CASE Snapshot
  BY <1>11 DEF Snapshot, captureVars, Still
<1>12. CASE LastCellDone \/ GiveUp
  BY <1>12 DEF LastCellDone, GiveUp
<1> QED
  BY <1>1, <1>2, <1>3, <1>4, <1>5, <1>6, <1>7, <1>8, <1>9, <1>10, <1>11, <1>12 DEF Desk

LEMMA BesideCapture ==
    ASSUME BoardTypeOK, Beside
    PROVE  \/ Still
           \/ (\E line \in PrintedNow : Reads(line)) /\ boot' = boot
           \/ PutLine /\ UNCHANGED <<benchVars, boardVars, xsdbVars>>
<1>0. /\ ConfigLine(boot) \in PrintedNow /\ StatusLine(boot) \in PrintedNow
      /\ CutLine(boot) \in PrintedNow
      /\ StatusLine(boot) # ConfigLine(boot) /\ CutLine(boot) # ConfigLine(boot)
  <2>1. /\ StatusLine(boot).kind = "status" /\ CutLine(boot).kind = "status"
        /\ ConfigLine(boot).kind = "config"
    BY DEF StatusLine, CutLine, ConfigLine
  <2> QED
    BY <2>1 DEF PrintedNow
<1>1. CASE ScriptFails \/ ScriptDone \/ ScriptStart
  BY <1>1 DEF ScriptFails, ScriptDone, ScriptStart, StartApplication, captureVars, Still
<1>2. CASE ScriptReset
  <2>1. boot' = boot /\ (Receive(CutLine(boot)) \/ UNCHANGED captureVars)
    BY <1>2 DEF ScriptReset, ResetProcessor
  <2> QED
    BY <1>0, <2>1, ReceiveMoves DEF captureVars, Still
<1>3. CASE PrintConfig
  BY <1>0, <1>3, ReceiveMoves DEF PrintConfig
<1>4. CASE EnterMainLoop \/ PrintStatus
  <2>1. boot' = boot /\ Receive(StatusLine(boot))
    BY <1>4 DEF EnterMainLoop, PrintStatus
  <2> QED
    BY <1>0, <2>1, ReceiveMoves
<1>5. CASE Fatal \/ HandlePacket
  BY <1>5 DEF Fatal, HandlePacket, captureVars, Still
<1>6. CASE ReaderDies
  BY <1>6 DEF ReaderDies, Glitch, Still
<1>7. CASE (LauncherStep \/ ServerStep) /\ UNCHANGED <<benchVars, captureVars, boardVars>>
  BY <1>7 DEF captureVars, Still
<1> QED
  BY <1>1, <1>2, <1>3, <1>4, <1>5, <1>6, <1>7
     DEF Beside, ScriptStep, Environment, BoardStep, Boot

LEMMA CaptureMoves ==
    ASSUME BoardTypeOK, Next
    PROVE  CaptureMove
<1>1. CASE StartRun
  BY <1>1, StartRunEffect DEF CaptureMove, captureVars, Still
<1>2. CASE Desk
  BY <1>2, DeskCapture, DeskEffect DEF CaptureMove, EndRun, StopCapture, Cleared
<1>3. CASE CallProgram
  BY <1>3 DEF CallProgram, CaptureMove, captureVars, Still
<1>4. CASE SendPacket
  BY <1>4 DEF SendPacket, CaptureMove, captureVars, Still
<1>5. CASE Beside
  BY <1>5, BesideCapture DEF CaptureMove
<1> QED
  BY <1>1, <1>2, <1>3, <1>4, <1>5, NextSteps

-----------------------------------------------------------------------------
(***************************************************************************)
(* Types, and the order of the lines.                                      *)
(***************************************************************************)
CaptureTypeOK ==
    /\ lines \in Seq(Printed) /\ pending \in Seq(Printed) /\ queue \in Seq(Printed)
    /\ Len(pending) <= 1
    /\ reader \in {"none", "running", "dead"} /\ glitches \in 0 .. MaxGlitches

BenchTypeOK ==
    /\ pc \in Places
    /\ starts \in 0 .. MaxStarts /\ cell \in 0 .. Cells
    /\ script \in {"none", "reset", "start", "after"}
    /\ uartStart \in 0 .. Len(lines) /\ statusStart \in 0 .. Len(lines)
    /\ {config, before, latest} \subseteq Printed \cup {NoStatus}
    /\ sent \in 0 .. Packets

LEMMA TypeParts ==
    ASSUME CaptureInv
    PROVE  TypeOK <=> BoardTypeOK /\ XsdbTypeOK /\ CaptureTypeOK /\ BenchTypeOK
<1>1. CASE CaptureTypeOK
  <2>1. Len(queue) <= Len(lines)
    BY <1>1, LenProperties DEF CaptureInv, CaptureTypeOK
  <2> QED
    BY <2>1 DEF TypeOK, CaptureTypeOK, BenchTypeOK
<1>2. CASE ~CaptureTypeOK
  BY <1>2 DEF TypeOK, CaptureTypeOK
<1> QED
  BY <1>1, <1>2

LEMMA TypePartsNext ==
    ASSUME CaptureInv'
    PROVE  TypeOK' <=> (BoardTypeOK /\ XsdbTypeOK /\ CaptureTypeOK /\ BenchTypeOK)'
<1>1. CASE CaptureTypeOK'
  <2>1. (Len(queue) <= Len(lines))'
    BY <1>1, LenProperties DEF CaptureInv, CaptureTypeOK
  <2> QED
    BY <2>1 DEF TypeOK, CaptureTypeOK, BenchTypeOK
<1>2. CASE ~CaptureTypeOK'
  BY <1>2 DEF TypeOK, CaptureTypeOK
<1> QED
  BY <1>1, <1>2

LEMMA Elements ==
    ASSUME CaptureTypeOK
    PROVE  /\ Len(lines) \in Nat /\ Len(pending) \in {0, 1} /\ Len(queue) \in Nat
           /\ \A i \in 1 .. Len(lines) : lines[i] \in Printed
           /\ \A k \in 1 .. Len(queue) : queue[k] \in Printed
           /\ pending = <<>> => Len(pending) = 0
           /\ pending # <<>> => Len(pending) = 1 /\ pending[1] \in Printed
<1>1. /\ Len(lines) \in Nat /\ Len(queue) \in Nat
      /\ \A i \in 1 .. Len(lines) : lines[i] \in Printed
      /\ \A k \in 1 .. Len(queue) : queue[k] \in Printed
  BY ElementOfSeq, LenProperties DEF CaptureTypeOK
<1>2. Len(pending) \in {0, 1} /\ (pending = <<>> <=> Len(pending) = 0)
  <2>1. Len(pending) \in Nat /\ Len(pending) <= 1
    BY LenProperties DEF CaptureTypeOK
  <2>2. pending = <<>> <=> Len(pending) = 0
    BY EmptySeq DEF CaptureTypeOK
  <2>3. \A n \in Nat : n <= 1 => n \in {0, 1}
    OBVIOUS
  <2> QED
    BY <2>1, <2>2, <2>3, Zenon
<1>3. pending # <<>> => pending[1] \in Printed
  BY <1>2, ElementOfSeq DEF CaptureTypeOK
<1> QED
  BY <1>1, <1>2, <1>3

LEMMA ReadEffect ==
    ASSUME CaptureTypeOK, BoardTypeOK, NEW line \in PrintedNow, Reads(line)
    PROVE  /\ lines' \in Seq(Printed) /\ Len(lines') = Len(lines) + 1
           /\ \A i \in 1 .. Len(lines) : lines'[i] = lines[i]
           /\ lines'[Len(lines) + 1] = line
           /\ pending' \in Seq(Printed) /\ Len(pending') = 1 /\ pending'[1] = line
           /\ Len(pending) = 0 /\ queue' = queue
           /\ line \in Printed
<1>1. line \in Printed
  BY PrintedLine
<1>2. lines' = Append(lines, line) /\ pending' = <<line>> /\ pending = <<>> /\ queue' = queue
  BY DEF Reads
<1>3. /\ lines' \in Seq(Printed) /\ Len(lines') = Len(lines) + 1
      /\ \A i \in 1 .. Len(lines) : lines'[i] = lines[i]
      /\ lines'[Len(lines) + 1] = line
  BY <1>1, <1>2, AppendProperties DEF CaptureTypeOK
<1>4. pending' \in Seq(Printed) /\ Len(pending') = 1 /\ pending'[1] = line
  BY <1>1, <1>2
<1> QED
  BY <1>1, <1>2, <1>3, <1>4

LEMMA PutEffect ==
    ASSUME CaptureTypeOK, PutLine
    PROVE  /\ queue' \in Seq(Printed) /\ Len(queue') = Len(queue) + 1
           /\ \A k \in 1 .. Len(queue) : queue'[k] = queue[k]
           /\ queue'[Len(queue) + 1] = pending[1]
           /\ Len(pending) = 1 /\ pending' = <<>> /\ Len(pending') = 0
           /\ lines' = lines /\ UNCHANGED <<reader, glitches>>
<1>1. /\ queue' = queue \o pending /\ pending' = <<>> /\ pending # <<>>
      /\ UNCHANGED <<lines, reader, glitches>>
  BY DEF PutLine
<1>2. Len(pending) = 1 /\ Len(queue) \in Nat
  BY <1>1, Elements
<1>3. /\ queue' \in Seq(Printed) /\ Len(queue') = Len(queue) + Len(pending)
      /\ \A k \in 1 .. Len(queue) + Len(pending) : queue'[k] =
            IF k <= Len(queue) THEN queue[k] ELSE pending[k - Len(queue)]
  BY <1>1, ConcatProperties DEF CaptureTypeOK
<1>4. Len(pending') = 0
  BY <1>1
<1>5. \A k \in 1 .. Len(queue) : queue'[k] = queue[k]
  BY <1>2, <1>3
<1>6. queue'[Len(queue) + 1] = pending[1]
  <2>1. queue'[Len(queue) + 1] = pending[(Len(queue) + 1) - Len(queue)]
    BY <1>2, <1>3
  <2>2. (Len(queue) + 1) - Len(queue) = 1
    BY <1>2
  <2> QED
    BY <2>1, <2>2
<1> QED
  BY <1>1, <1>2, <1>3, <1>4, <1>5, <1>6

LEMMA TakeEffect ==
    ASSUME CaptureTypeOK, TakeQueued
    PROVE  /\ queue' \in Seq(Printed) /\ Len(queue') = Len(queue) - 1
           /\ \A k \in 1 .. Len(queue') : queue'[k] = queue[k + 1]
           /\ Len(queue) >= 1 /\ Head(queue) = queue[1] /\ Head(queue) \in Printed
           /\ UNCHANGED <<lines, pending, reader, glitches>>
<1>1. queue # <<>> /\ queue' = Tail(queue) /\ UNCHANGED <<lines, pending, reader, glitches>>
  BY DEF TakeQueued
<1>2. /\ queue' \in Seq(Printed) /\ Len(queue') = Len(queue) - 1
      /\ \A k \in 1 .. Len(queue') : queue'[k] = queue[k + 1]
      /\ Head(queue) \in Printed
  BY <1>1, HeadTailProperties DEF CaptureTypeOK
<1>3. Len(queue) >= 1
  BY <1>1, EmptySeq, LenProperties DEF CaptureTypeOK
<1>4. Head(queue) = queue[1]
  OBVIOUS
<1> QED
  BY <1>1, <1>2, <1>3, <1>4

(***************************************************************************)
(* The lines stay in order, and the queue is of the list.                  *)
(***************************************************************************)
LEMMA CaptureStep ==
    ASSUME TypeOK, CaptureInv, Next
    PROVE  CaptureInv' /\ (lines \in Seq(Printed) /\ pending \in Seq(Printed)
                           /\ queue \in Seq(Printed) /\ Len(pending) <= 1)'
<1>0. CaptureTypeOK /\ BoardTypeOK
  BY TypeParts
<1>t. /\ boot \in Nat /\ boot' \in Nat /\ committed \in Nat /\ committed' \in Nat
      /\ \/ boot' = boot /\ committed' >= committed
         \/ ScriptStart /\ boot' = boot + 1
  BY <1>0, BoardStepType, BoardAssumption DEF BoardTypeOK
<1>e. /\ Len(lines) \in Nat /\ Len(pending) \in {0, 1} /\ Len(queue) \in Nat
      /\ \A i \in 1 .. Len(lines) :
            /\ lines[i] \in Printed /\ lines[i].boot \in Nat
            /\ Counted(lines[i]) \in Nat
      /\ pending = <<>> => Len(pending) = 0
      /\ pending # <<>> => Len(pending) = 1 /\ pending[1] \in Printed
  BY <1>0, Elements, LineFields, BoardAssumption
<1>1. CASE Still
  <2>1. UNCHANGED <<lines, pending, queue>>
    BY <1>1 DEF Still
  <2>2. CASE boot' = boot /\ committed' >= committed
    <3>1. \A i \in 1 .. Len(lines) : lines[i].boot = boot => Counted(lines[i]) <= committed'
      BY <1>t, <1>e, <2>2 DEF CaptureInv
    <3> QED
      BY <1>0, <2>1, <2>2, <3>1 DEF CaptureInv, Counted, CaptureTypeOK
  <2>3. CASE ScriptStart /\ boot' = boot + 1
    <3>1. pending = <<>>
      BY <2>3 DEF ScriptStart, StartApplication
    <3>2. \A i \in 1 .. Len(lines) : lines[i].boot <= boot' /\ lines[i].boot # boot'
      BY <1>t, <1>e, <2>3 DEF CaptureInv
    <3> QED
      BY <1>0, <2>1, <3>1, <3>2 DEF CaptureInv, CaptureTypeOK
  <2> QED
    BY <1>t, <2>2, <2>3
<1>2. ASSUME NEW line \in PrintedNow, Reads(line), boot' = boot, Beside
      PROVE  CaptureInv' /\ (lines \in Seq(Printed) /\ pending \in Seq(Printed)
                             /\ queue \in Seq(Printed) /\ Len(pending) <= 1)'
  <2>1. /\ lines' \in Seq(Printed) /\ Len(lines') = Len(lines) + 1
        /\ \A i \in 1 .. Len(lines) : lines'[i] = lines[i]
        /\ lines'[Len(lines) + 1] = line
        /\ pending' \in Seq(Printed) /\ Len(pending') = 1 /\ pending'[1] = line
        /\ Len(pending) = 0 /\ queue' = queue
    BY <1>0, <1>2, ReadEffect
  <2>2. line.boot = boot /\ Counted(line) <= committed /\ Counted(line) \in Nat
    BY <1>0, <1>2, PrintedLine, LineFields, BoardAssumption
  <2>3. committed' >= committed
    BY <1>t, <1>2
  <2>4. \A i \in 1 .. Len(lines') : i \in 1 .. Len(lines) \/ i = Len(lines) + 1
    BY <1>e, <2>1
  <2>5. \A i \in 1 .. Len(lines') :
           /\ lines'[i].boot <= boot
           /\ lines'[i].boot = boot => Counted(lines'[i]) <= committed'
    <3> SUFFICES ASSUME NEW i \in 1 .. Len(lines')
                 PROVE  /\ lines'[i].boot <= boot
                        /\ lines'[i].boot = boot => Counted(lines'[i]) <= committed'
      OBVIOUS
    <3>1. CASE i \in 1 .. Len(lines)
      <4>1. /\ lines'[i] = lines[i] /\ lines[i].boot <= boot /\ Counted(lines[i]) \in Nat
            /\ lines[i].boot = boot => Counted(lines[i]) <= committed
        BY <1>e, <2>1, <3>1 DEF CaptureInv
      <4> QED
        BY <1>t, <2>3, <4>1
    <3>2. CASE i = Len(lines) + 1
      BY <1>t, <2>1, <2>2, <2>3, <3>2
    <3> QED
      BY <2>4, <3>1, <3>2
  <2>6. \A i, j \in 1 .. Len(lines') : i <= j => lines'[i].boot <= lines'[j].boot
    <3> SUFFICES ASSUME NEW i \in 1 .. Len(lines'), NEW j \in 1 .. Len(lines'), i <= j
                 PROVE  lines'[i].boot <= lines'[j].boot
      OBVIOUS
    <3>1. CASE j = Len(lines) + 1
      BY <1>t, <2>1, <2>2, <2>5, <3>1
    <3>2. CASE j \in 1 .. Len(lines)
      <4>1. i \in 1 .. Len(lines)
        BY <1>e, <2>1, <3>2
      <4> QED
        BY <2>1, <3>2, <4>1 DEF CaptureInv
    <3> QED
      BY <2>4, <3>1, <3>2
  <2>7. \A k \in 1 .. Len(queue') : \E i \in 1 .. Len(lines') : queue'[k] = lines'[i]
    <3> SUFFICES ASSUME NEW k \in 1 .. Len(queue)
                 PROVE  \E i \in 1 .. Len(lines') : queue[k] = lines'[i]
      BY <2>1
    <3>1. PICK i \in 1 .. Len(lines) : queue[k] = lines[i]
      BY DEF CaptureInv
    <3>2. i \in 1 .. Len(lines')
      BY <1>e, <2>1, <3>1
    <3>3. queue[k] = lines'[i]
      BY <2>1, <3>1, Zenon
    <3> QED
      BY <3>2, <3>3
  <2>8. Len(queue') + Len(pending') <= Len(lines')
    BY <1>e, <2>1 DEF CaptureInv
  <2>9. pending'[1] = lines'[Len(lines')] /\ pending'[1].boot = boot'
    BY <1>2, <2>1, <2>2
  <2> QED
    BY <1>0, <1>2, <2>1, <2>5, <2>6, <2>7, <2>8, <2>9 DEF CaptureInv, CaptureTypeOK
<1>3. CASE PutLine /\ UNCHANGED <<benchVars, boardVars, xsdbVars>>
  <2>1. /\ queue' \in Seq(Printed) /\ Len(queue') = Len(queue) + 1
        /\ \A k \in 1 .. Len(queue) : queue'[k] = queue[k]
        /\ queue'[Len(queue) + 1] = pending[1]
        /\ Len(pending) = 1 /\ pending' = <<>> /\ Len(pending') = 0
        /\ lines' = lines
    BY <1>0, <1>3, PutEffect
  <2>2. boot' = boot /\ committed' = committed
    BY <1>3 DEF boardVars
  <2>3. pending # <<>>
    BY <1>3 DEF PutLine
  <2>4. \A k \in 1 .. Len(queue') : \E i \in 1 .. Len(lines) : queue'[k] = lines[i]
    <3> SUFFICES ASSUME NEW k \in 1 .. Len(queue')
                 PROVE  \E i \in 1 .. Len(lines) : queue'[k] = lines[i]
      OBVIOUS
    <3>1. CASE k \in 1 .. Len(queue)
      BY <2>1, <3>1 DEF CaptureInv
    <3>2. CASE k = Len(queue) + 1
      <4>1. pending[1] = lines[Len(lines)] /\ Len(lines) \in 1 .. Len(lines)
        BY <1>e, <2>1, <2>3 DEF CaptureInv
      <4> QED
        BY <2>1, <3>2, <4>1
    <3> QED
      BY <1>e, <2>1, <3>1, <3>2
  <2>5. Len(queue') + Len(pending') <= Len(lines)
    BY <1>e, <2>1 DEF CaptureInv
  <2> QED
    BY <1>0, <2>1, <2>2, <2>4, <2>5 DEF CaptureInv, Counted, CaptureTypeOK
<1>4. CASE TakeQueued /\ UNCHANGED boardVars
  <2>1. /\ queue' \in Seq(Printed) /\ Len(queue') = Len(queue) - 1
        /\ \A k \in 1 .. Len(queue') : queue'[k] = queue[k + 1]
        /\ Len(queue) >= 1 /\ UNCHANGED <<lines, pending>>
    BY <1>0, <1>4, TakeEffect
  <2>2. boot' = boot /\ committed' = committed
    BY <1>4 DEF boardVars
  <2>3. \A k \in 1 .. Len(queue') : \E i \in 1 .. Len(lines) : queue'[k] = lines[i]
    <3> SUFFICES ASSUME NEW k \in 1 .. Len(queue')
                 PROVE  \E i \in 1 .. Len(lines) : queue'[k] = lines[i]
      OBVIOUS
    <3>1. k + 1 \in 1 .. Len(queue) /\ queue'[k] = queue[k + 1]
      BY <1>e, <2>1
    <3> QED
      BY <3>1 DEF CaptureInv
  <2>4. Len(queue') + Len(pending) <= Len(lines)
    BY <1>e, <2>1 DEF CaptureInv
  <2> QED
    BY <1>0, <2>1, <2>2, <2>3, <2>4 DEF CaptureInv, Counted, CaptureTypeOK
<1>5. CASE DrainPending /\ UNCHANGED boardVars
  <2>1. queue' = <<>> /\ UNCHANGED <<lines, pending, boot, committed>>
    BY <1>5 DEF DrainPending, boardVars
  <2>2. Len(queue') = 0 /\ queue' \in Seq(Printed)
    BY <2>1
  <2>3. Len(queue') + Len(pending) <= Len(lines)
    BY <1>e, <2>2 DEF CaptureInv
  <2> QED
    BY <1>0, <2>1, <2>2, <2>3 DEF CaptureInv, Counted, CaptureTypeOK
<1>6. CASE Cleared /\ UNCHANGED boardVars
  <2>1. /\ lines' = <<>> /\ pending' = <<>> /\ queue' = <<>>
        /\ Len(lines') = 0 /\ Len(pending') = 0 /\ Len(queue') = 0
    BY <1>6 DEF Cleared
  <2> QED
    BY <2>1 DEF CaptureInv
<1> QED
  BY <1>0, <1>1, <1>2, <1>3, <1>4, <1>5, <1>6, CaptureMoves DEF CaptureMove

-----------------------------------------------------------------------------
(***************************************************************************)
(* What the waits return.                                                  *)
(***************************************************************************)
ConfigScan == Scan("config_scan", IsConfig, uartStart, "mark", "config_queue")
ConfigTake == Take("config_queue", IsConfig, "mark")
StatusScan ==
    Scan("before_scan", IsIdleStatus, statusStart, "drain_again", "before_queue")
StatusTake == Take("before_queue", IsIdleStatus, "drain_again")

LEMMA ConfigScanEffect ==
    ASSUME CaptureTypeOK, uartStart \in 0 .. Len(lines), ConfigScan
    PROVE  /\ pc = "config_scan"
           /\ UNCHANGED <<captureVars, outcome, marks, before, latest>>
           /\ \/ /\ pc' = "mark"
                 /\ \E i \in uartStart + 1 .. Len(lines) :
                       config' = lines[i] /\ lines[i].kind = "config"
              \/ pc' = "config_queue" /\ config' = config
<1>1. CASE Found(IsConfig, uartStart) # {}
  <2>1. PICK i \in uartStart + 1 .. Len(lines) :
           FirstFound(IsConfig, uartStart) = lines[i] /\ lines[i].kind = "config"
    BY <1>1, ConfigFound DEF CaptureTypeOK
  <2>2. /\ pc = "config_scan" /\ pc' = "mark" /\ UNCHANGED <<captureVars, outcome, marks, latest>>
        /\ Return(FirstFound(IsConfig, uartStart))
    BY <1>1 DEF ConfigScan, Scan, Goto
  <2>3. config' = lines[i] /\ before' = before
    BY <2>1, <2>2 DEF Return
  <2> QED
    BY <2>1, <2>2, <2>3
<1>2. CASE Found(IsConfig, uartStart) = {}
  BY <1>2 DEF ConfigScan, Scan, Goto
<1> QED
  BY <1>1, <1>2

LEMMA ConfigTakeEffect ==
    ASSUME CaptureTypeOK, ConfigTake
    PROVE  /\ pc = "config_queue"
           /\ TakeQueued /\ UNCHANGED <<outcome, marks, before, latest>>
           /\ \/ pc' = "mark" /\ config' = queue[1] /\ queue[1].kind = "config"
              \/ pc' = "config_queue" /\ config' = config
<1>1. TakeQueued
  BY DEF ConfigTake, Take
<1>2. Head(queue) = queue[1]
  BY <1>1, TakeEffect
<1> QED
  BY <1>1, <1>2 DEF ConfigTake, Take, Goto, Return, IsConfig

LEMMA StatusScanEffect ==
    ASSUME CaptureTypeOK, statusStart \in 0 .. Len(lines), StatusScan
    PROVE  /\ pc = "before_scan" /\ pc' \in {"drain_again", "before_queue"}
           /\ UNCHANGED <<captureVars, outcome, marks, config, latest>>
           /\ before' = before \/ (before' \in Printed /\ before'.kind = "status")
<1>1. CASE Found(IsIdleStatus, statusStart) # {}
  <2>1. PICK i \in statusStart + 1 .. Len(lines) :
           FirstFound(IsIdleStatus, statusStart) = lines[i] /\ lines[i].kind = "status"
    BY <1>1, IdleStatusFound DEF CaptureTypeOK
  <2>2. /\ pc = "before_scan" /\ pc' = "drain_again"
        /\ UNCHANGED <<captureVars, outcome, marks, latest>>
        /\ Return(FirstFound(IsIdleStatus, statusStart))
    BY <1>1 DEF StatusScan, Scan, Goto
  <2>3. before' = lines[i] /\ lines[i].kind = "status" /\ config' = config
    BY <2>1, <2>2 DEF Return
  <2>4. i \in 1 .. Len(lines) /\ Len(lines) \in Nat
    BY Elements
  <2>5. lines[i] \in Printed
    BY <2>4, Elements
  <2> QED
    BY <2>2, <2>3, <2>5
<1>2. CASE Found(IsIdleStatus, statusStart) = {}
  BY <1>2 DEF StatusScan, Scan, Goto
<1> QED
  BY <1>1, <1>2

LEMMA StatusTakeEffect ==
    ASSUME CaptureTypeOK, StatusTake
    PROVE  /\ pc = "before_queue" /\ pc' \in {"drain_again", "before_queue"}
           /\ TakeQueued /\ UNCHANGED <<outcome, marks, config, latest>>
           /\ before' = before \/ (before' \in Printed /\ before'.kind = "status")
<1>1. TakeQueued
  BY DEF StatusTake, Take
<1>2. Head(queue) \in Printed
  BY <1>1, TakeEffect
<1>3. IsIdleStatus(Head(queue)) => Head(queue).kind = "status"
  BY DEF IsIdleStatus
<1> QED
  BY <1>1, <1>2, <1>3 DEF StatusTake, Take, Goto, Return

LEMMA LatestEffect ==
    ASSUME CaptureTypeOK, statusStart \in 0 .. Len(lines),
           AfterScan \/ AfterPoll \/ AfterDeadline
    PROVE  /\ pc \in {"after_scan", "after_poll"}
           /\ pc' \in {"after_poll", "snapshot"}
           /\ UNCHANGED captureVars \/ TakeQueued
           /\ UNCHANGED <<outcome, marks, config, before>>
           /\ \/ latest' = latest /\ pc = "after_poll"
              \/ latest' = NoStatus
              \/ \E i \in statusStart + 1 .. Len(lines) :
                    latest' = lines[i] /\ lines[i].kind = "status"
              \/ TakeQueued /\ latest' = queue[1] /\ queue[1].kind = "status"
<1>0. \/ LatestStatus(statusStart) = NoStatus
      \/ \E i \in statusStart + 1 .. Len(lines) :
            LatestStatus(statusStart) = lines[i] /\ lines[i].kind = "status"
  BY LatestFound DEF CaptureTypeOK
<1>1. CASE AfterScan
  BY <1>0, <1>1 DEF AfterScan, Goto
<1>2. CASE AfterPoll
  <2>1. TakeQueued => Head(queue) = queue[1]
    BY TakeEffect
  <2> QED
    BY <1>0, <1>2, <2>1 DEF AfterPoll, Goto, IsStatus
<1>3. CASE AfterDeadline
  BY <1>0, <1>3 DEF AfterDeadline, Goto
<1> QED
  BY <1>1, <1>2, <1>3

(***************************************************************************)
(* The steps of main(), one after the other.                               *)
(***************************************************************************)
Leaves == EndRun /\ pc \notin {"idle"}

Opens ==
    /\ pc = "open" /\ pc' = "cell" /\ Cleared /\ UNCHANGED <<outcome, marks, found>>
    /\ reader' \in {"running", "dead"} /\ glitches' = glitches

Passes(from, to) ==
    /\ pc = from /\ pc' = to
    /\ UNCHANGED <<captureVars, outcome, marks, found>>

Drains(from, to) == 
    /\ pc = from /\ pc' = to /\ DrainPending
    /\ UNCHANGED <<outcome, marks, found>>

LEMMA DeskSteps ==
    ASSUME Desk
    PROVE  \/ Leaves
           \/ Opens
           \/ BeginCell
           \/ Drains("drain", "program") \/ Drains("drain_again", "send")
           \/ Passes("programming", "config_scan") /\ xsdb = "idle" /\ result = "ok"
           \/ ConfigScan \/ ConfigTake
           \/ MarkStatus
           \/ StatusScan \/ StatusTake
           \/ Passes("send", "after_scan") /\ sent = Packets
           \/ AfterScan \/ AfterPoll \/ AfterDeadline
           \/ Passes("snapshot", "record")
           \/ RecordRow
<1>1. CASE OpenPort
  BY <1>1 DEF OpenPort, StartCapture, Goto, Cleared, Opens, Leaves
<1>2. CASE Drain("drain", "program") \/ Drain("drain_again", "send")
  BY <1>2 DEF Drain, Drains, Goto
<1>3. CASE ProgramReturns
  BY <1>3 DEF ProgramReturns, Goto, Passes, Leaves
<1>4. CASE SendDone
  BY <1>4 DEF SendDone, Goto, Passes
<1>5. CASE Snapshot
  BY <1>5 DEF Snapshot, Goto, Passes, Leaves
<1>6. CASE LastCellDone \/ GiveUp
  BY <1>6 DEF LastCellDone, GiveUp, Deadlines, Leaves
<1> QED
  BY <1>1, <1>2, <1>3, <1>4, <1>5, <1>6
     DEF Desk, ConfigScan, ConfigTake, StatusScan, StatusTake

LEMMA ReaderStep ==
    ASSUME CaptureTypeOK, BoardTypeOK, Next
    PROVE  reader' \in {"none", "running", "dead"} /\ glitches' \in 0 .. MaxGlitches
<1>0. /\ reader \in {"none", "running", "dead"} /\ glitches \in 0 .. MaxGlitches
      /\ MaxGlitches \in Nat
  BY CaptureAssumption DEF CaptureTypeOK
<1>1. CASE UNCHANGED captureVars
  BY <1>0, <1>1 DEF captureVars
<1>2. CASE EndRun
  BY <1>0, <1>2 DEF EndRun, StopCapture
<1>3. CASE DrainPending \/ TakeQueued \/ PutLine
  BY <1>0, <1>3 DEF DrainPending, TakeQueued, PutLine
<1>4. CASE Desk
  <2>1. \/ UNCHANGED captureVars \/ EndRun \/ Opens \/ DrainPending \/ TakeQueued
    BY <1>4, DeskSteps
       DEF Leaves, Opens, BeginCell, Drains, Passes, ConfigScan, ConfigTake, MarkStatus,
           StatusScan, StatusTake, Scan, Take, AfterScan, AfterPoll, AfterDeadline, RecordRow
  <2> QED
    BY <1>0, <1>1, <1>2, <1>3, <2>1 DEF Opens
<1>5. ASSUME NEW line, Receive(line)
      PROVE  reader' \in {"none", "running", "dead"} /\ glitches' \in 0 .. MaxGlitches
  BY <1>0, <1>5 DEF Receive, ReadLine, GarbleLine, Glitch, NobodyReads, captureVars
<1>6. CASE ReaderDies
  BY <1>0, <1>6 DEF ReaderDies, Glitch
<1>7. CASE ScriptStep
  BY <1>1, <1>5, <1>7
     DEF ScriptStep, ScriptFails, ScriptReset, ResetProcessor, ScriptStart, StartApplication,
         ScriptDone
<1>8. CASE BoardStep
  BY <1>1, <1>5, <1>8
     DEF BoardStep, Boot, PrintConfig, EnterMainLoop, Fatal, PrintStatus, HandlePacket
<1>9. CASE StartRun \/ CallProgram \/ SendPacket
  BY <1>1, <1>9 DEF StartRun, CallProgram, SendPacket
<1> QED
  BY <1>1, <1>3, <1>4, <1>6, <1>7, <1>8, <1>9, NextSteps DEF Beside, Environment

\* What a step leaves of the list behind which the marks point.
LEMMA ListGrows ==
    ASSUME CaptureTypeOK, BoardTypeOK, Beside
    PROVE  Len(lines') \in Nat /\ Len(lines') >= Len(lines)
<1>0. Len(lines) \in Nat
  BY Elements
<1>1. CASE Still
  BY <1>0, <1>1 DEF Still
<1>2. ASSUME NEW line \in PrintedNow, Reads(line)
      PROVE  Len(lines') = Len(lines) + 1
  BY <1>2, ReadEffect
<1>3. CASE PutLine
  BY <1>0, <1>3 DEF PutLine
<1> QED
  BY <1>0, <1>1, <1>2, <1>3, BesideCapture

LEMMA ListKept ==
    ASSUME Desk
    PROVE  \/ Leaves /\ lines' = <<>>
           \/ Opens
           \/ lines' = lines
<1>1. CASE Leaves
  BY <1>1 DEF Leaves, EndRun, StopCapture
<1>2. CASE BeginCell
  BY <1>2 DEF BeginCell, captureVars
<1>3. CASE ConfigScan \/ StatusScan
  BY <1>3 DEF ConfigScan, StatusScan, Scan, captureVars
<1>4. CASE ConfigTake \/ StatusTake
  BY <1>4 DEF ConfigTake, StatusTake, Take, TakeQueued
<1>5. CASE MarkStatus \/ AfterScan \/ AfterDeadline \/ RecordRow
  BY <1>5 DEF MarkStatus, AfterScan, AfterDeadline, RecordRow, captureVars
<1>6. CASE AfterPoll
  BY <1>6 DEF AfterPoll, TakeQueued, captureVars
<1> QED
  BY <1>1, <1>2, <1>3, <1>4, <1>5, <1>6, DeskSteps
     DEF Drains, DrainPending, Passes, captureVars

LEMMA DeskTypes ==
    ASSUME CaptureTypeOK, BenchTypeOK, PlaceInv, Desk
    PROVE  BenchTypeOK' /\ PlaceInv'
<1>0. /\ Packets \in Nat /\ Cells \in Nat \ {0} /\ Len(lines) \in Nat
      /\ \A i \in 1 .. Len(lines) : lines[i] \in Printed
      /\ \A k \in 1 .. Len(queue) : queue[k] \in Printed
      /\ uartStart \in 0 .. Len(lines) /\ statusStart \in 0 .. Len(lines)
  BY BoardAssumption, BenchmarkAssumption, Elements DEF BenchTypeOK
<1>s. starts' = starts /\ script' = script
  BY DeskEffect
<1>1. CASE Leaves
  <2>1. Len(lines') = 0
    BY <1>1 DEF Leaves, EndRun, StopCapture
  <2> QED
    BY <1>0, <1>s, <1>1, <2>1 DEF Leaves, EndRun, BenchTypeOK, PlaceInv, Places
<1>2. CASE Opens
  <2>1. Len(lines') = 0
    BY <1>2 DEF Opens, Cleared
  <2> QED
    BY <1>0, <1>s, <1>2, <2>1
       DEF Opens, BenchTypeOK, PlaceInv, Places, outcome, marks, found
<1>3. CASE BeginCell
  <2>1. lines' = lines
    BY <1>3 DEF BeginCell, captureVars
  <2> QED
    BY <1>0, <1>s, <1>3, <2>1
       DEF BeginCell, Goto, BenchTypeOK, PlaceInv, Places, outcome, found
<1>4. CASE Drains("drain", "program") \/ Drains("drain_again", "send")
  BY <1>0, <1>s, <1>4
     DEF Drains, DrainPending, BenchTypeOK, PlaceInv, Places, outcome, marks, found
<1>5. CASE \/ Passes("programming", "config_scan") \/ Passes("send", "after_scan")
           \/ Passes("snapshot", "record")
  BY <1>0, <1>s, <1>5
     DEF Passes, BenchTypeOK, PlaceInv, Places, outcome, marks, found, captureVars
<1>6. CASE ConfigScan
  <2>1. /\ pc = "config_scan" /\ pc' \in {"mark", "config_queue"}
        /\ UNCHANGED <<captureVars, outcome, marks, before, latest>>
        /\ config' = config \/ \E i \in uartStart + 1 .. Len(lines) : config' = lines[i]
    BY <1>0, <1>6, ConfigScanEffect
  <2>2. config' = config \/ config' \in Printed
    BY <1>0, <2>1
  <2> QED
    BY <1>0, <1>s, <2>1, <2>2
       DEF BenchTypeOK, PlaceInv, Places, outcome, marks, captureVars
<1>7. CASE ConfigTake
  <2>1. /\ pc = "config_queue" /\ pc' \in {"mark", "config_queue"} /\ TakeQueued
        /\ UNCHANGED <<outcome, marks, before, latest>>
        /\ config' = config \/ config' = queue[1]
    BY <1>7, ConfigTakeEffect
  <2>2. queue[1] \in Printed /\ lines' = lines
    BY <2>1, TakeEffect
  <2> QED
    BY <1>0, <1>s, <2>1, <2>2 DEF BenchTypeOK, PlaceInv, Places, outcome, marks
<1>8. CASE MarkStatus
  <2>1. /\ pc = "mark" /\ pc' = "before_scan" /\ statusStart' = StatusMark
        /\ UNCHANGED <<captureVars, outcome, uartStart, found>>
    BY <1>8 DEF MarkStatus, Goto
  <2>2. StatusMark \in 0 .. Len(lines)
    <3>1. lines # <<>> => Len(lines) # 0
      BY EmptySeq DEF CaptureTypeOK
    <3> QED
      BY <1>0, <3>1 DEF StatusMark
  <2> QED
    BY <1>0, <1>s, <2>1, <2>2
       DEF BenchTypeOK, PlaceInv, Places, outcome, found, captureVars
<1>9. CASE StatusScan \/ StatusTake
  <2>1. /\ pc \in {"before_scan", "before_queue"} /\ pc' \in {"drain_again", "before_queue"}
        /\ UNCHANGED captureVars \/ TakeQueued
        /\ UNCHANGED <<outcome, marks, config, latest>>
        /\ before' = before \/ before' \in Printed
    BY <1>0, <1>9, StatusScanEffect, StatusTakeEffect
  <2>2. lines' = lines
    BY <2>1 DEF captureVars, TakeQueued
  <2> QED
    BY <1>0, <1>s, <2>1, <2>2 DEF BenchTypeOK, PlaceInv, Places, outcome, marks
<1>10. CASE AfterScan \/ AfterPoll \/ AfterDeadline
  <2>1. /\ pc \in {"after_scan", "after_poll"} /\ pc' \in {"after_poll", "snapshot"}
        /\ UNCHANGED captureVars \/ TakeQueued
        /\ UNCHANGED <<outcome, marks, config, before>>
        /\ \/ latest' = latest \/ latest' = NoStatus
           \/ \E i \in statusStart + 1 .. Len(lines) : latest' = lines[i]
           \/ TakeQueued /\ latest' = queue[1]
    BY <1>0, <1>10, LatestEffect
  <2>2. lines' = lines
    BY <2>1 DEF captureVars, TakeQueued
  <2>3. latest' \in {latest, NoStatus} \/ latest' \in Printed
    <3>1. TakeQueued => queue[1] \in Printed
      BY TakeEffect
    <3> QED
      BY <1>0, <2>1, <3>1
  <2> QED
    BY <1>0, <1>s, <2>1, <2>2, <2>3 DEF BenchTypeOK, PlaceInv, Places, outcome, marks
<1>11. CASE RecordRow
  <2>1. /\ pc = "record" /\ pc' = "cell" /\ cell' = cell + 1 /\ sent' = 0
        /\ config' = NoStatus /\ before' = NoStatus /\ latest' = NoStatus
        /\ UNCHANGED <<captureVars, marks>>
    BY <1>11 DEF RecordRow, Goto
  <2>2. cell' \in 0 .. Cells
    BY <1>0, <2>1 DEF PlaceInv, BenchTypeOK
  <2>3. pc' \in Places /\ PlaceInv'
    BY <2>1 DEF PlaceInv, Places
  <2> QED
    BY <1>0, <1>s, <2>1, <2>2, <2>3 DEF BenchTypeOK, marks, captureVars
<1> QED
  BY <1>1, <1>2, <1>3, <1>4, <1>5, <1>6, <1>7, <1>8, <1>9, <1>10, <1>11, DeskSteps

LEMMA BenchTypes ==
    ASSUME BoardTypeOK, CaptureTypeOK, BenchTypeOK, PlaceInv, Next
    PROVE  BenchTypeOK' /\ PlaceInv'
<1>0. /\ Packets \in Nat /\ Cells \in Nat \ {0} /\ MaxStarts \in Nat /\ Len(lines) \in Nat
  BY BoardAssumption, BenchmarkAssumption, Elements
<1>1. CASE StartRun
  BY <1>0, <1>1, StartRunEffect
     DEF BenchTypeOK, PlaceInv, Places, captureVars, marks, found
<1>2. CASE CallProgram
  BY <1>0, <1>2
     DEF CallProgram, BenchTypeOK, PlaceInv, Places, captureVars, marks, found, outcome
<1>3. CASE SendPacket
  BY <1>0, <1>3
     DEF SendPacket, BenchTypeOK, PlaceInv, Places, captureVars, marks, found
<1>4. CASE Beside
  <2>1. /\ UNCHANGED <<pc, starts, marks, found, outcome>>
        /\ Len(lines') \in Nat /\ Len(lines') >= Len(lines)
    BY <1>4, BesideEffect, ListGrows
  <2>2. script' \in {"none", "reset", "start", "after"}
    BY <1>4 DEF Beside, Environment, benchVars, ScriptStep, ScriptFails, ScriptReset,
                ScriptStart, ScriptDone, BenchTypeOK
  <2>3. uartStart' \in 0 .. Len(lines') /\ statusStart' \in 0 .. Len(lines')
    BY <1>0, <2>1 DEF BenchTypeOK, marks
  <2> QED
    BY <2>1, <2>2, <2>3 DEF BenchTypeOK, PlaceInv, marks, found, outcome
<1> QED
  BY <1>1, <1>2, <1>3, <1>4, DeskTypes, NextSteps

LEMMA TypeStep ==
    ASSUME TypeOK, XsdbInv, CaptureInv, PlaceInv, Next
    PROVE  TypeOK' /\ XsdbInv' /\ CaptureInv' /\ PlaceInv'
<1>1. BoardTypeOK /\ XsdbTypeOK /\ CaptureTypeOK /\ BenchTypeOK
  BY TypeParts
<1>2. CaptureInv' /\ CaptureTypeOK'
  BY <1>1, CaptureStep, ReaderStep DEF CaptureTypeOK
<1>3. BoardTypeOK' /\ XsdbTypeOK' /\ XsdbInv' /\ BenchTypeOK' /\ PlaceInv'
  BY <1>1, BoardStepType, XsdbStep, BenchTypes
<1> QED
  BY <1>2, <1>3, TypePartsNext

-----------------------------------------------------------------------------
(***************************************************************************)
(* The script, the board and main() move together.                         *)
(***************************************************************************)
LEMMA PendingStep ==
    ASSUME CaptureTypeOK, BoardTypeOK, Next, NoConfigPending
    PROVE  NoConfigPending' \/ phase = "booting"
<1>1. CASE Still
  BY <1>1 DEF Still, NoConfigPending
<1>2. ASSUME NEW line \in PrintedNow, Reads(line), phase # "booting"
      PROVE  NoConfigPending'
  <2>1. line.kind # "config"
    BY <1>2, PrintedLine DEF Reads
  <2>2. Len(pending') = 1 /\ pending'[1] = line
    BY <1>2, ReadEffect
  <2> QED
    BY <2>1, <2>2 DEF NoConfigPending
<1>3. CASE PutLine \/ Cleared
  <2>1. Len(pending') = 0
    BY <1>3 DEF PutLine, Cleared
  <2> QED
    BY <2>1 DEF NoConfigPending
<1>4. CASE TakeQueued \/ DrainPending
  BY <1>4 DEF TakeQueued, DrainPending, NoConfigPending
<1> QED
  BY <1>1, <1>2, <1>3, <1>4, CaptureMoves DEF CaptureMove

LEMMA ToldStarted ==
    ASSUME CaptureTypeOK, ApplicationHasStarted
    PROVE  Started
<1>1. \A k \in 1 .. Len(pending) : pending[k] \in ToSet(pending)
  <2>1. DOMAIN pending = 1 .. Len(pending)
    BY LenProperties DEF CaptureTypeOK
  <2> QED
    BY <2>1 DEF ToSet
<1> QED
  BY <1>1 DEF ApplicationHasStarted, Started, NoConfigPending

LEMMA StartedStep ==
    ASSUME CaptureTypeOK, BoardTypeOK, Next, Started
    PROVE  Started' \/ ScriptReset \/ ScriptStart
<1>1. NoConfigPending' /\ phase \in {"configured", "running", "fatal"}
  BY PendingStep DEF Started
<1>2. phase' \in {"configured", "running", "fatal"} \/ ScriptReset \/ ScriptStart
  BY <1>1, BoardMoves
     DEF BoardMove, boardVars, BoardStep, Boot, PrintConfig, EnterMainLoop, Fatal,
         PrintStatus, HandlePacket, Deliver
<1> QED
  BY <1>1, <1>2 DEF Started

LEMMA ScriptDesk ==
    ASSUME TypeOK, CaptureInv, ScriptInv, RowInv, Desk
    PROVE  ScriptInv'
<1>0. CaptureTypeOK /\ BoardTypeOK /\ Next
  BY TypeParts, NextSteps
<1>1. UNCHANGED <<boardVars, xsdbVars, script>> /\ xsdb = "idle"
  <2>1. ProgramReturns => xsdb = "idle"
    BY DEF ProgramReturns
  <2> QED
    BY <2>1, DeskEffect DEF ScriptInv
<1>2. AfterProgram' => AfterProgram
  <2>0. /\ pc = "open" => cell = 0
        /\ UNCHANGED <<cell, pc>> \/ pc # "cell" \/ pc' = "idle" \/ pc' = "drain"
    <3>1. pc = "cell" => BeginCell \/ LastCellDone \/ EndRun
      BY DEF Desk, OpenPort, Drain, ProgramReturns, Scan, Take, MarkStatus, SendDone,
             AfterScan, AfterPoll, AfterDeadline, Snapshot, RecordRow, GiveUp, Deadlines
    <3> QED
      BY <3>1 DEF RowInv, BeginCell, LastCellDone, EndRun, Goto
  <2>1. CASE Leaves
    BY <2>1 DEF Leaves, EndRun, AfterProgram, Searching, Measuring
  <2>2. CASE Opens
    BY <2>0, <2>2 DEF Opens, AfterProgram, Searching, Measuring, outcome
  <2>3. CASE BeginCell
    BY <2>3 DEF BeginCell, Goto, AfterProgram, Searching, Measuring
  <2>4. CASE Drains("drain", "program")
    BY <2>4 DEF Drains, AfterProgram, Searching, Measuring
  <2>5. CASE \/ Drains("drain_again", "send") \/ Passes("send", "after_scan")
             \/ Passes("snapshot", "record")
             \/ Passes("programming", "config_scan") /\ result = "ok"
    BY <2>5 DEF Drains, Passes, AfterProgram, Searching, Measuring
  <2>6. CASE ConfigScan \/ ConfigTake \/ StatusScan \/ StatusTake
    BY <2>6 DEF ConfigScan, ConfigTake, StatusScan, StatusTake, Scan, Take,
                AfterProgram, Searching, Measuring
  <2>7. CASE MarkStatus \/ AfterScan \/ AfterPoll \/ AfterDeadline \/ RecordRow
    BY <2>7 DEF MarkStatus, AfterScan, AfterPoll, AfterDeadline, RecordRow,
                AfterProgram, Searching, Measuring
  <2> QED
    BY <2>1, <2>2, <2>3, <2>4, <2>5, <2>6, <2>7, DeskSteps
<1>3. AfterProgram => Started
  BY DEF ScriptInv
<1>4. AfterProgram => Started'
  <2>1. ~ScriptReset /\ ~ScriptStart
    BY <1>1 DEF ScriptReset, ScriptStart
  <2> QED
    BY <1>0, <1>3, <2>1, StartedStep
<1> QED
  BY <1>1, <1>2, <1>4 DEF ScriptInv, AfterProgram, boardVars, xsdbVars

LEMMA ScriptBeside ==
    ASSUME TypeOK, CaptureInv, ScriptInv, Beside
    PROVE  ScriptInv'
<1>0. CaptureTypeOK /\ BoardTypeOK /\ Next
  BY TypeParts, NextSteps
<1>1. UNCHANGED <<pc, cell>>
  BY BesideEffect DEF outcome
<1>2. AfterProgram => Started
  BY DEF ScriptInv, AfterProgram
<1>3. xsdb # "idle" => pc = "programming"
  BY DEF ScriptInv
<1>4. CASE ScriptFails
  BY <1>1, <1>3, <1>4
     DEF ScriptFails, ScriptEnds, ScriptInv, AfterProgram, boardVars, counters,
         Searching, Measuring
<1>5. CASE ScriptReset
  BY <1>1, <1>3, <1>5
     DEF ScriptReset, ResetProcessor, ScriptInv, AfterProgram, xsdbVars,
         Searching, Measuring
<1>6. CASE ScriptStart
  BY <1>1, <1>3, <1>6
     DEF ScriptStart, StartApplication, ScriptInv, AfterProgram, xsdbVars,
         Searching, Measuring
<1>7. CASE ScriptDone
  <2>1. Started'
    <3>1. UNCHANGED <<phase, pending>>
      BY <1>7 DEF ScriptDone, boardVars, captureVars
    <3> QED
      BY <1>0, <1>7, <3>1, ToldStarted DEF ScriptDone, Started, NoConfigPending
  <2> QED
    BY <1>1, <1>3, <1>7, <2>1 DEF ScriptDone, ScriptEnds, ScriptInv, boardVars
<1>8. CASE (LauncherStep \/ ServerStep) /\ UNCHANGED <<benchVars, captureVars, boardVars>>
  <2>1. Started => Started'
    BY <1>8 DEF Started, NoConfigPending, captureVars, boardVars
  <2>2. AfterProgram' => AfterProgram
    BY <1>1, <1>8 DEF LauncherStep, ServerStep, ServerBinds, StartServer, PortAnswers,
       PortTimesOut, TerminateProcesses, AfterProgram
  <2>3. /\ UNCHANGED <<phase, rx, script>>
        /\ xsdb' # "idle" => xsdb # "idle"
        /\ xsdb' \in {"start", "port"} => xsdb \in {"start", "port"}
        /\ xsdb' \in {"start", "port", "script"} =>
              xsdb \in {"start", "port", "script"} /\ result' = result
        /\ xsdb = "script" => xsdb' = "script"
    BY <1>8 DEF LauncherStep, ServerStep, ServerBinds, StartServer, PortAnswers,
       PortTimesOut, TerminateProcesses, benchVars, boardVars
  <2> QED
    BY <1>1, <1>2, <2>1, <2>2, <2>3 DEF ScriptInv, AfterProgram
<1>9. CASE BoardStep /\ UNCHANGED <<benchVars, xsdbVars>>
  <2>1. UNCHANGED <<xsdb, result, script>> /\ (AfterProgram' <=> AfterProgram)
    BY <1>1, <1>9 DEF benchVars, xsdbVars, AfterProgram
  <2>2. /\ phase = "held" => phase' = "held"
        /\ rx' = rx
        /\ phase' \in {"booting", "configured"} => phase \in {"booting", "configured"}
    BY <1>9 DEF BoardStep, Boot, PrintConfig, EnterMainLoop, Fatal, PrintStatus,
       HandlePacket, counters
  <2>3. AfterProgram => Started'
    <3>1. ~ScriptReset /\ ~ScriptStart
      BY <2>1 DEF ScriptReset, ScriptStart
    <3> QED
      BY <1>0, <1>2, <3>1, StartedStep
  <2> QED
    BY <1>1, <2>1, <2>2, <2>3 DEF ScriptInv, AfterProgram
<1>10. CASE (PutLine \/ ReaderDies) /\ UNCHANGED <<benchVars, boardVars, xsdbVars>>
  <2>1. /\ UNCHANGED <<xsdb, result, script, phase, rx>>
        /\ AfterProgram' <=> AfterProgram
    BY <1>1, <1>10 DEF benchVars, boardVars, xsdbVars, AfterProgram
  <2>2. AfterProgram => Started'
    <3>1. ~ScriptReset /\ ~ScriptStart
      BY <2>1 DEF ScriptReset, ScriptStart
    <3> QED
      BY <1>0, <1>2, <3>1, StartedStep
  <2> QED
    BY <1>1, <2>1, <2>2 DEF ScriptInv, AfterProgram
<1> QED
  BY <1>4, <1>5, <1>6, <1>7, <1>8, <1>9, <1>10 DEF Beside, ScriptStep, Environment

LEMMA ScriptInvStep ==
    ASSUME TypeOK, CaptureInv, ScriptInv, RowInv, Next
    PROVE  ScriptInv'
<1>0. CaptureTypeOK /\ BoardTypeOK
  BY TypeParts
<1>1. CASE StartRun
  BY <1>1, StartRunEffect
     DEF ScriptInv, AfterProgram, boardVars, xsdbVars, Searching, Measuring
<1>2. CASE CallProgram
  BY <1>2 DEF CallProgram, CallXsdb, ScriptInv, AfterProgram, boardVars, Searching,
     Measuring
<1>3. CASE SendPacket
  <2>1. /\ UNCHANGED <<pc, cell, script, xsdbVars, captureVars>>
        /\ Deliver \/ UNCHANGED boardVars
    BY <1>3 DEF SendPacket
  <2>2. phase' = phase /\ (phase # "running" => rx' = rx)
    BY <2>1 DEF Deliver, boardVars
  <2> QED
    BY <2>1, <2>2
       DEF ScriptInv, AfterProgram, Started, NoConfigPending, xsdbVars, captureVars
<1> QED
  BY <1>1, <1>2, <1>3, ScriptDesk, ScriptBeside, NextSteps

-----------------------------------------------------------------------------
(***************************************************************************)
(* Before the boot of the cell.                                            *)
(***************************************************************************)
\* What runs beside main() leaves the boot alone, but for its start.
LEMMA BesideBoard ==
    ASSUME BoardTypeOK, Beside
    PROVE  \/ ScriptStart
           \/ /\ UNCHANGED <<boot, rx>> /\ committed' >= committed
              /\ phase' = "booting" => phase = "booting"
<1>0. committed \in Nat /\ Next
  BY NextSteps DEF BoardTypeOK
<1>1. CASE ScriptReset
  BY <1>0, <1>1 DEF ScriptReset, ResetProcessor, counters
<1>2. CASE BoardStep
  BY <1>0, <1>2 DEF BoardStep, Boot, PrintConfig, EnterMainLoop, Fatal, PrintStatus,
     HandlePacket, counters
<1>3. CASE UNCHANGED boardVars
  BY <1>0, <1>3 DEF boardVars
<1> QED
  BY <1>1, <1>2, <1>3
     DEF Beside, Environment, ScriptStep, ScriptFails, ScriptDone

LEMMA BesideScript ==
    ASSUME ScriptInv, Beside
    PROVE  /\ BeforeBoot' => BeforeBoot /\ ~ScriptStart
           /\ AfterBoot' => AfterBoot \/ ScriptStart
           /\ ScriptStart => pc = "programming" /\ BeforeBoot
<1>0. pc' = pc /\ (xsdb # "idle" => pc = "programming")
  BY BesideEffect DEF ScriptInv
<1>1. CASE ScriptFails
  BY <1>0, <1>1 DEF ScriptFails, ScriptEnds, BeforeBoot, AfterBoot, ScriptStart
<1>2. CASE ScriptReset
  BY <1>0, <1>2
     DEF ScriptReset, ResetProcessor, ScriptInv, BeforeBoot, AfterBoot, xsdbVars,
         ScriptStart
<1>3. CASE ScriptStart
  BY <1>0, <1>3
     DEF ScriptStart, StartApplication, ScriptInv, BeforeBoot, AfterBoot, xsdbVars
<1>4. CASE ScriptDone
  BY <1>0, <1>4 DEF ScriptDone, ScriptEnds, BeforeBoot, AfterBoot, ScriptStart
<1>5. CASE (LauncherStep \/ ServerStep) /\ UNCHANGED <<benchVars, captureVars, boardVars>>
  <2>1. script' = script /\ (result' = result \/ result' = "error")
    BY <1>5 DEF LauncherStep, ServerStep, ServerBinds, StartServer, PortAnswers,
       PortTimesOut, TerminateProcesses, benchVars
  <2>2. ~ScriptStart
    BY <2>1 DEF ScriptStart
  <2> QED
    BY <1>0, <2>1, <2>2 DEF BeforeBoot, AfterBoot
<1>6. CASE UNCHANGED <<benchVars, xsdbVars>>
  <2>1. script' = script /\ result' = result
    BY <1>6 DEF benchVars, xsdbVars
  <2>2. ~ScriptStart
    BY <2>1 DEF ScriptStart
  <2> QED
    BY <1>0, <2>1, <2>2 DEF BeforeBoot, AfterBoot
<1> QED
  BY <1>1, <1>2, <1>3, <1>4, <1>5, <1>6 DEF Beside, ScriptStep, Environment

LEMMA EarlyBeside ==
    ASSUME TypeOK, CaptureInv, ScriptInv, EarlyInv, Beside, BeforeBoot', ConfigAhead'
    PROVE  Fresh'
<1>0. /\ CaptureTypeOK /\ BoardTypeOK /\ Len(lines) \in Nat /\ Len(queue) \in Nat
      /\ uartStart \in 0 .. Len(lines)
  BY TypeParts, Elements DEF BenchTypeOK
<1>1. BeforeBoot /\ UNCHANGED <<boot, rx, pc, uartStart>>
      /\ (phase' = "booting" => phase = "booting")
  BY <1>0, BesideScript, BesideBoard, BesideEffect DEF marks
<1>2. CASE Still
  <2>1. ConfigAhead
    BY <1>1, <1>2 DEF Still, ConfigAhead, NoConfigPending, ConfigQueued, ConfigListed
  <2> QED
    BY <1>1, <1>2, <2>1 DEF Still, EarlyInv, Fresh
<1>3. ASSUME NEW line \in PrintedNow, Reads(line)
      PROVE  Fresh'
  <2>1. /\ Len(lines') = Len(lines) + 1
        /\ \A i \in 1 .. Len(lines) : lines'[i] = lines[i]
        /\ lines'[Len(lines) + 1] = line
        /\ Len(pending') = 1 /\ pending'[1] = line
        /\ queue' = queue /\ line.boot = boot
    BY <1>0, <1>3, ReadEffect, PrintedLine
  <2>2. CASE line.kind = "config"
    <3>1. phase = "booting"
      BY <1>0, <1>3, <2>2, PrintedLine DEF Reads
    <3>2. Fresh
      BY <1>1, <3>1 DEF EarlyInv, ConfigAhead
    <3> QED
      BY <1>0, <1>1, <2>1, <3>2 DEF Fresh
  <2>3. CASE line.kind # "config"
    <3>1. NoConfigPending'
      BY <2>1, <2>3 DEF NoConfigPending
    <3>2. ConfigListed' => ConfigListed
      <4> SUFFICES ASSUME ConfigListed' PROVE ConfigListed
        OBVIOUS
      <4>1. PICK i \in uartStart + 1 .. Len(lines) + 1 : lines'[i].kind = "config"
        BY <1>1, <2>1 DEF ConfigListed
      <4>2. i # Len(lines) + 1
        BY <2>1, <2>3, <4>1
      <4>3. i \in uartStart + 1 .. Len(lines) /\ i \in 1 .. Len(lines)
        BY <1>0, <4>1, <4>2
      <4> QED
        BY <2>1, <4>1, <4>3 DEF ConfigListed
    <3>3. ConfigQueued' => ConfigQueued
      BY <2>1 DEF ConfigQueued
    <3>4. Fresh
      BY <1>1, <3>1, <3>2, <3>3 DEF EarlyInv, ConfigAhead
    <3> QED
      BY <1>0, <1>1, <2>1, <3>4 DEF Fresh
  <2> QED
    BY <2>2, <2>3
<1>4. CASE PutLine
  <2>1. /\ Len(queue') = Len(queue) + 1
        /\ \A k \in 1 .. Len(queue) : queue'[k] = queue[k]
        /\ queue'[Len(queue) + 1] = pending[1]
        /\ Len(pending) = 1 /\ Len(pending') = 0 /\ lines' = lines
    BY <1>0, <1>4, PutEffect
  <2>2. ConfigQueued' => ConfigQueued \/ ~NoConfigPending
    <3> SUFFICES ASSUME ConfigQueued' PROVE ConfigQueued \/ ~NoConfigPending
      OBVIOUS
    <3>1. PICK k \in 1 .. Len(queue) + 1 : queue'[k].kind = "config"
      BY <2>1 DEF ConfigQueued
    <3>2. CASE k = Len(queue) + 1
      BY <2>1, <3>1, <3>2 DEF NoConfigPending
    <3>3. CASE k \in 1 .. Len(queue)
      BY <2>1, <3>1, <3>3 DEF ConfigQueued
    <3> QED
      BY <1>0, <3>2, <3>3
  <2>3. NoConfigPending' /\ (ConfigListed' <=> ConfigListed)
    BY <1>1, <2>1 DEF NoConfigPending, ConfigListed
  <2>4. Fresh
    BY <1>1, <2>2, <2>3 DEF EarlyInv, ConfigAhead
  <2> QED
    BY <1>1, <2>1, <2>4 DEF Fresh
<1> QED
  BY <1>0, <1>2, <1>3, <1>4, BesideCapture

LEMMA EarlyDesk ==
    ASSUME TypeOK, CaptureInv, ScriptInv, EarlyInv, Desk, BeforeBoot', ConfigAhead'
    PROVE  Fresh'
<1>0. CaptureTypeOK /\ BoardTypeOK /\ Len(lines) \in Nat
  BY TypeParts, Elements
<1>1. /\ UNCHANGED <<boardVars, xsdbVars, script>>
      /\ UNCHANGED <<boot, phase, rx>>
  BY DeskEffect DEF boardVars
<1>2. CASE Leaves
  BY <1>2 DEF Leaves, EndRun, BeforeBoot
<1>3. CASE Opens
  <2>1. Len(lines') = 0 /\ Len(pending') = 0 /\ pc' = "cell"
    BY <1>3 DEF Opens, Cleared
  <2>2. phase = "booting"
    BY <1>1, <2>1 DEF ConfigAhead, NoConfigPending
  <2> QED
    BY <1>1, <2>1, <2>2 DEF ScriptInv, Fresh
<1>4. CASE BeginCell
  <2>1. /\ pc = "cell" /\ pc' = "drain" /\ uartStart' = Len(lines)
        /\ UNCHANGED <<lines, pending, queue>>
    BY <1>4 DEF BeginCell, Goto, captureVars
  <2>2. ~ConfigListed'
    BY <1>0, <2>1 DEF ConfigListed
  <2>3. BeforeBoot /\ ConfigAhead
    BY <1>1, <2>1, <2>2 DEF BeforeBoot, ConfigAhead, NoConfigPending
  <2> QED
    BY <1>1, <2>1, <2>3 DEF EarlyInv, Fresh
<1>5. CASE Drains("drain", "program")
  <2>1. /\ pc = "drain" /\ pc' = "program" /\ Len(queue') = 0
        /\ UNCHANGED <<lines, pending, uartStart>>
    BY <1>5 DEF Drains, DrainPending, marks
  <2>2. ~ConfigQueued'
    BY <2>1 DEF ConfigQueued
  <2>3. BeforeBoot /\ ConfigAhead
    BY <1>1, <2>1, <2>2 DEF BeforeBoot, ConfigAhead, NoConfigPending, ConfigListed
  <2> QED
    BY <1>1, <2>1, <2>3 DEF EarlyInv, Fresh
<1>6. CASE RecordRow
  <2>1. pc = "record" /\ pc' = "cell" /\ UNCHANGED <<lines, pending, queue>>
    BY <1>6 DEF RecordRow, Goto, captureVars
  <2>2. Started
    BY <2>1 DEF ScriptInv, AfterProgram, Measuring
  <2> QED
    BY <1>1, <2>1, <2>2 DEF Started, ConfigAhead, NoConfigPending
<1>7. CASE \/ Drains("drain_again", "send") \/ Passes("programming", "config_scan")
           \/ Passes("send", "after_scan") \/ Passes("snapshot", "record")
  BY <1>7 DEF Drains, Passes, BeforeBoot
<1>8. CASE ConfigScan \/ ConfigTake \/ StatusScan \/ StatusTake
  BY <1>8 DEF ConfigScan, ConfigTake, StatusScan, StatusTake, Scan, Take, Goto, BeforeBoot
<1>9. CASE MarkStatus \/ AfterScan \/ AfterPoll \/ AfterDeadline
  BY <1>9 DEF MarkStatus, AfterScan, AfterPoll, AfterDeadline, Goto, BeforeBoot
<1> QED
  BY <1>2, <1>3, <1>4, <1>5, <1>6, <1>7, <1>8, <1>9, DeskSteps

LEMMA EarlyStep ==
    ASSUME TypeOK, CaptureInv, ScriptInv, EarlyInv, Next
    PROVE  EarlyInv'
<1>1. CASE StartRun
  BY <1>1, StartRunEffect DEF EarlyInv, BeforeBoot
<1>2. CASE CallProgram
  <2>1. /\ pc = "program" /\ pc' = "programming"
        /\ UNCHANGED <<lines, pending, queue, uartStart, boot, phase, rx>>
    BY <1>2 DEF CallProgram, captureVars, boardVars, marks
  <2>2. BeforeBoot /\ (ConfigAhead' => ConfigAhead)
    BY <2>1 DEF BeforeBoot, ConfigAhead, NoConfigPending, ConfigQueued, ConfigListed
  <2> QED
    BY <2>1, <2>2 DEF EarlyInv, Fresh
<1>3. CASE SendPacket
  BY <1>3 DEF SendPacket, EarlyInv, BeforeBoot
<1> QED
  BY <1>1, <1>2, <1>3, EarlyDesk, EarlyBeside, NextSteps DEF EarlyInv

-----------------------------------------------------------------------------
(***************************************************************************)
(* While the configuration line is looked for.                             *)
(***************************************************************************)
OldSilent == \A i \in 1 .. Len(lines) : lines[i].boot = boot \/ Counted(lines[i]) = 0

ConfigKept == \E i \in 1 .. Len(lines) : config = lines[i]

LEMMA BootShowsOld ==
    ASSUME TypeOK, CaptureInv, ScriptInv, EarlyInv, ScriptStart, Next, OldConfig'
    PROVE  OldSilent'
<1>0. CaptureTypeOK /\ BoardTypeOK /\ Next
  BY TypeParts
<1>1. /\ pc = "programming" /\ UNCHANGED <<pc, lines, queue, uartStart>>
      /\ BeforeBoot
  BY DEF ScriptStart, StartApplication, ScriptInv, BeforeBoot, captureVars, marks
<1>2. ConfigAhead
  BY <1>1 DEF OldConfig, ConfigAhead, ConfigQueued, ConfigListed
<1>3. Fresh
  BY <1>1, <1>2 DEF EarlyInv
<1>4. committed = 0
  BY <1>0, <1>3 DEF Fresh, BoardTypeOK
<1>5. \A i \in 1 .. Len(lines) : Counted(lines[i]) <= 0 /\ Counted(lines[i]) \in Nat
  BY <1>0, <1>3, <1>4, Elements, LineFields, BoardAssumption DEF Fresh, CaptureInv
<1>6. \A i \in 1 .. Len(lines) : Counted(lines[i]) = 0
  BY <1>5
<1> QED
  BY <1>1, <1>6 DEF OldSilent, Counted

LEMMA SearchBeside ==
    ASSUME TypeOK, CaptureInv, ScriptInv, EarlyInv, SearchInv, Beside
    PROVE  SearchInv'
<1>0. /\ CaptureTypeOK /\ BoardTypeOK /\ Len(lines) \in Nat /\ Len(queue) \in Nat
      /\ uartStart \in 0 .. Len(lines) /\ Next
  BY TypeParts, Elements, NextSteps DEF BenchTypeOK
<1>1. UNCHANGED <<pc, uartStart, config>>
  BY BesideEffect DEF marks, found
<1>2. CASE ScriptStart
  <2>1. pc' # "mark"
    BY <1>1, <1>2 DEF ScriptStart, ScriptInv
  <2> QED
    BY <1>0, <1>2, <2>1, BootShowsOld DEF SearchInv, OldSilent
<1>3. CASE ~ScriptStart
  <2>1. boot' = boot /\ (AfterBoot' => AfterBoot)
    BY <1>0, <1>3, BesideBoard, BesideScript
  <2>2. CASE Still
    BY <1>1, <2>1, <2>2 DEF Still, SearchInv, OldConfig, Counted
  <2>3. ASSUME NEW line \in PrintedNow, Reads(line)
        PROVE  SearchInv'
    <3>1. /\ Len(lines') = Len(lines) + 1
          /\ \A i \in 1 .. Len(lines) : lines'[i] = lines[i]
          /\ lines'[Len(lines) + 1] = line
          /\ queue' = queue /\ line.boot = boot
      BY <1>0, <2>3, ReadEffect, PrintedLine
    <3>2. OldConfig' => OldConfig
      <4> SUFFICES ASSUME OldConfig' PROVE OldConfig
        OBVIOUS
      <4>1. ASSUME NEW i \in uartStart + 1 .. Len(lines) + 1,
                   lines'[i].kind = "config", lines'[i].boot # boot
            PROVE  OldConfig
        <5>1. i # Len(lines) + 1
          BY <3>1, <4>1
        <5>2. i \in uartStart + 1 .. Len(lines) /\ i \in 1 .. Len(lines)
          BY <1>0, <5>1
        <5> QED
          BY <3>1, <4>1, <5>2 DEF OldConfig
      <4> QED
        BY <1>1, <2>1, <3>1, <4>1 DEF OldConfig
    <3>3. OldSilent => OldSilent'
      BY <1>0, <2>1, <3>1 DEF OldSilent, Counted
    <3>4. ConfigKept => ConfigKept'
      <4> SUFFICES ASSUME NEW i \in 1 .. Len(lines), config = lines[i]
                   PROVE  ConfigKept'
        BY DEF ConfigKept
      <4>1. i \in 1 .. Len(lines')
        BY <1>0, <3>1
      <4>2. config' = lines'[i]
        BY <1>1, <3>1
      <4> QED
        BY <4>1, <4>2 DEF ConfigKept
    <3> QED
      BY <1>1, <2>1, <3>2, <3>3, <3>4 DEF SearchInv, OldSilent, ConfigKept
  <2>4. CASE PutLine
    <3>1. /\ Len(queue') = Len(queue) + 1
          /\ \A k \in 1 .. Len(queue) : queue'[k] = queue[k]
          /\ queue'[Len(queue) + 1] = pending[1] /\ lines' = lines
      BY <1>0, <2>4, PutEffect
    <3>2. pending[1].boot = boot
      BY <2>4 DEF PutLine, CaptureInv
    <3>3. OldConfig' => OldConfig
      <4> SUFFICES ASSUME OldConfig' PROVE OldConfig
        OBVIOUS
      <4>1. ASSUME NEW k \in 1 .. Len(queue) + 1,
                   queue'[k].kind = "config", queue'[k].boot # boot
            PROVE  OldConfig
        <5>1. k # Len(queue) + 1
          BY <3>1, <3>2, <4>1
        <5>2. k \in 1 .. Len(queue)
          BY <1>0, <5>1
        <5> QED
          BY <3>1, <4>1, <5>2 DEF OldConfig
      <4> QED
        BY <1>1, <2>1, <3>1, <4>1 DEF OldConfig
    <3> QED
      BY <1>1, <2>1, <3>1, <3>3 DEF SearchInv, Counted
  <2> QED
    BY <1>0, <2>2, <2>3, <2>4, BesideCapture
<1> QED
  BY <1>2, <1>3

LEMMA SearchDesk ==
    ASSUME TypeOK, CaptureInv, ScriptInv, SearchInv, Desk
    PROVE  SearchInv'
<1>0. /\ CaptureTypeOK /\ BoardTypeOK /\ Len(lines) \in Nat /\ Len(queue) \in Nat
      /\ uartStart \in 0 .. Len(lines)
  BY TypeParts, Elements DEF BenchTypeOK
<1>1. /\ UNCHANGED <<boot, script, result>> /\ xsdb = "idle"
  <2>1. ProgramReturns => xsdb = "idle"
    BY DEF ProgramReturns
  <2> QED
    BY <2>1, DeskEffect DEF ScriptInv, boardVars, xsdbVars
<1>s. script' # "after"
  BY <1>1 DEF ScriptInv
<1>2. ASSUME pc' \notin Searching, pc' # "programming"
      PROVE  SearchInv'
  BY <1>s, <1>2 DEF SearchInv, AfterBoot, Searching
<1>3. CASE Passes("programming", "config_scan") /\ result = "ok"
  BY <1>1, <1>3
     DEF Passes, SearchInv, AfterBoot, OldConfig, Searching, Counted, captureVars, marks
<1>4. CASE ConfigScan
  <2>1. /\ pc = "config_scan" /\ UNCHANGED <<lines, queue, uartStart>>
        /\ \/ /\ pc' = "mark"
              /\ \E i \in uartStart + 1 .. Len(lines) :
                    config' = lines[i] /\ lines[i].kind = "config"
           \/ pc' = "config_queue" /\ config' = config
    BY <1>0, <1>4, ConfigScanEffect DEF captureVars, marks
  <2>2. AfterBoot /\ (OldConfig' => OldConfig)
    BY <1>1, <2>1 DEF AfterBoot, Searching, OldConfig
  <2>3. pc' = "mark" => ConfigKept'
    BY <1>0, <2>1 DEF ConfigKept
  <2> QED
    BY <1>1, <2>1, <2>2, <2>3 DEF SearchInv, ConfigKept, Counted
<1>5. CASE ConfigTake
  <2>1. /\ pc = "config_queue" /\ TakeQueued /\ uartStart' = uartStart
        /\ \/ pc' = "mark" /\ config' = queue[1] /\ queue[1].kind = "config"
           \/ pc' = "config_queue" /\ config' = config
    BY <1>0, <1>5, ConfigTakeEffect DEF marks
  <2>2. /\ Len(queue') = Len(queue) - 1 /\ Len(queue) >= 1 /\ lines' = lines
        /\ \A k \in 1 .. Len(queue') : queue'[k] = queue[k + 1]
    BY <1>0, <2>1, TakeEffect
  <2>3. AfterBoot /\ 1 \in 1 .. Len(queue)
    BY <1>0, <2>1, <2>2 DEF AfterBoot, Searching
  <2>4. OldConfig' => OldConfig
    <3>1. ASSUME NEW k \in 1 .. Len(queue'),
                 queue'[k].kind = "config", queue'[k].boot # boot
          PROVE  OldConfig
      <4>1. k + 1 \in 1 .. Len(queue) /\ queue'[k] = queue[k + 1]
        BY <1>0, <2>2
      <4> QED
        BY <3>1, <4>1 DEF OldConfig
    <3> QED
      BY <1>1, <2>1, <2>2, <2>3, <3>1 DEF OldConfig
  <2>5. pc' = "mark" => ConfigKept'
    BY <2>1, <2>2, <2>3 DEF ConfigKept, CaptureInv
  <2> QED
    BY <1>1, <2>2, <2>3, <2>4, <2>5 DEF SearchInv, ConfigKept, Counted
<1>6. CASE Leaves \/ Opens \/ BeginCell \/ RecordRow \/ MarkStatus
  BY <1>2, <1>6 DEF Leaves, EndRun, Opens, BeginCell, RecordRow, MarkStatus, Goto, Searching
<1>7. CASE \/ Drains("drain", "program") \/ Drains("drain_again", "send")
           \/ Passes("send", "after_scan") \/ Passes("snapshot", "record")
  BY <1>2, <1>7 DEF Drains, Passes, Searching
<1>8. CASE StatusScan \/ StatusTake
  BY <1>2, <1>8 DEF StatusScan, StatusTake, Scan, Take, Goto, Searching
<1>9. CASE AfterScan \/ AfterPoll \/ AfterDeadline
  BY <1>2, <1>9 DEF AfterScan, AfterPoll, AfterDeadline, Goto, Searching
<1> QED
  BY <1>3, <1>4, <1>5, <1>6, <1>7, <1>8, <1>9, DeskSteps

LEMMA SearchStep ==
    ASSUME TypeOK, CaptureInv, ScriptInv, EarlyInv, SearchInv, Next
    PROVE  SearchInv'
<1>1. script = "after" => pc = "programming"
  BY DEF ScriptInv
<1>2. CASE StartRun
  BY <1>1, <1>2, StartRunEffect DEF SearchInv, AfterBoot, Searching
<1>3. CASE CallProgram
  BY <1>3 DEF CallProgram, CallXsdb, SearchInv, AfterBoot, Searching
<1>4. CASE SendPacket
  BY <1>1, <1>4 DEF SendPacket, SearchInv, AfterBoot, Searching
<1> QED
  BY <1>2, <1>3, <1>4, SearchDesk, SearchBeside, NextSteps

-----------------------------------------------------------------------------
(***************************************************************************)
(* While the statuses are looked for.                                      *)
(***************************************************************************)
ListReadable ==
    \A i \in statusStart + 1 .. Len(lines) :
        lines[i].boot = boot \/ (config.boot # boot /\ Counted(lines[i]) = 0)

QueueReadable == \A k \in 1 .. Len(queue) : queue[k].boot = boot

LatestReadable ==
    /\ Counted(latest) <= committed
    /\ config.boot = boot => latest.boot = boot

Queueing == Measuring \ {"before_scan", "before_queue", "drain_again"}

LEMMA ReadableParts ==
    ReadableInv <=>
        /\ {before.kind, latest.kind} \subseteq {"none", "status"}
        /\ pc \in Measuring => ListReadable
        /\ pc \in Queueing => QueueReadable
        /\ pc \in {"after_scan", "after_poll", "snapshot", "record"} => sent = Packets
        /\ pc \in {"after_poll", "snapshot", "record"} /\ latest # NoStatus
              => LatestReadable
BY DEF ReadableInv, ListReadable, QueueReadable, LatestReadable, Queueing

LEMMA ReadablePartsNext ==
    ReadableInv' <=>
        /\ {before'.kind, latest'.kind} \subseteq {"none", "status"}
        /\ pc' \in Measuring => ListReadable'
        /\ pc' \in Queueing => QueueReadable'
        /\ pc' \in {"after_scan", "after_poll", "snapshot", "record"} => sent' = Packets
        /\ pc' \in {"after_poll", "snapshot", "record"} /\ latest' # NoStatus
              => LatestReadable'
BY DEF ReadableInv, ListReadable, QueueReadable, LatestReadable, Queueing

LEMMA ReadableBeside ==
    ASSUME TypeOK, CaptureInv, ScriptInv, ReadableInv, Beside
    PROVE  ReadableInv'
<1>0. /\ CaptureTypeOK /\ BoardTypeOK /\ BenchTypeOK
      /\ Len(lines) \in Nat /\ Len(queue) \in Nat
      /\ statusStart \in 0 .. Len(lines)
      /\ {before.kind, latest.kind} \subseteq {"none", "status"}
  BY TypeParts, Elements, ReadableParts DEF BenchTypeOK
<1>1. UNCHANGED <<pc, statusStart, config, before, latest, sent>>
  BY BesideEffect DEF marks, found, outcome
<1>2. CASE pc \notin Measuring
  BY <1>0, <1>1, <1>2, ReadablePartsNext DEF Measuring, Queueing
<1>3. CASE pc \in Measuring
  <2>1. ~ScriptStart
    BY <1>3 DEF ScriptStart, ScriptInv, Measuring
  <2>2. /\ boot' = boot /\ committed' >= committed
        /\ committed \in Nat /\ committed' \in Nat
    BY <1>0, <2>1, BesideBoard, BoardStepType, NextSteps DEF BoardTypeOK
  <2>3. latest # NoStatus /\ LatestReadable => LatestReadable'
    <3> SUFFICES ASSUME latest # NoStatus, LatestReadable PROVE LatestReadable'
      OBVIOUS
    <3>1. Counted(latest) \in Nat
      BY <1>0, LineFields, BoardAssumption DEF BenchTypeOK
    <3>2. Counted(latest)' = Counted(latest)
      BY <1>1 DEF Counted
    <3> QED
      BY <1>1, <2>2, <3>1, <3>2 DEF LatestReadable
  <2>4. ListReadable'
    <3>1. ListReadable
      BY <1>3, ReadableParts
    <3>2. CASE lines' = lines
      BY <1>1, <2>2, <3>1, <3>2 DEF ListReadable, Counted
    <3>3. ASSUME NEW line \in PrintedNow, Reads(line)
          PROVE  ListReadable'
      <4>1. /\ Len(lines') = Len(lines) + 1
            /\ \A i \in 1 .. Len(lines) : lines'[i] = lines[i]
            /\ lines'[Len(lines) + 1].boot = boot
        BY <1>0, <3>3, ReadEffect, PrintedLine
      <4> SUFFICES ASSUME NEW i \in statusStart + 1 .. Len(lines) + 1, i # Len(lines) + 1
                   PROVE  \/ lines'[i].boot = boot
                          \/ config.boot # boot /\ Counted(lines'[i]) = 0
        BY <1>1, <2>2, <4>1 DEF ListReadable, Counted
      <4>2. i \in statusStart + 1 .. Len(lines) /\ i \in 1 .. Len(lines)
        BY <1>0
      <4> QED
        BY <3>1, <4>1, <4>2 DEF ListReadable
    <3> QED
      BY <1>0, <3>2, <3>3, BesideCapture DEF Still, PutLine
  <2>5. QueueReadable => QueueReadable'
    <3>1. CASE queue' = queue
      BY <2>2, <3>1 DEF QueueReadable
    <3>2. CASE PutLine
      <4>1. /\ Len(queue') = Len(queue) + 1
            /\ \A k \in 1 .. Len(queue) : queue'[k] = queue[k]
            /\ queue'[Len(queue) + 1] = pending[1]
        BY <1>0, <3>2, PutEffect
      <4>2. pending[1].boot = boot
        BY <3>2 DEF PutLine, CaptureInv
      <4>3. \A k \in 1 .. Len(queue') : k \in 1 .. Len(queue) \/ k = Len(queue) + 1
        BY <1>0, <4>1
      <4> QED
        BY <2>2, <4>1, <4>2, <4>3 DEF QueueReadable
    <3> QED
      BY <1>0, <3>1, <3>2, BesideCapture DEF Still, Reads
  <2> QED
    BY <1>0, <1>1, <2>3, <2>4, <2>5, ReadableParts, ReadablePartsNext
<1> QED
  BY <1>2, <1>3

\* What the statuses are looked for in, when the configuration line is found.
LEMMA MarkReadable ==
    ASSUME TypeOK, CaptureInv, SearchInv, MarkStatus
    PROVE  ListReadable'
<1>0. /\ CaptureTypeOK /\ BoardTypeOK /\ Len(lines) \in Nat
      /\ \A i \in 1 .. Len(lines) : lines[i] \in Printed /\ lines[i].boot \in Nat
      /\ boot \in Nat
  BY TypeParts, Elements, LineFields, BoardAssumption DEF BoardTypeOK
<1>1. /\ pc = "mark" /\ statusStart' = StatusMark
      /\ UNCHANGED <<lines, config, boot>>
  BY DEF MarkStatus, Goto, captureVars, found, boardVars
<1>2. PICK j \in 1 .. Len(lines) : config = lines[j]
  BY <1>1 DEF SearchInv
<1>3. statusStart' = Len(lines) - 1
  <2>1. lines # <<>>
    BY <1>0, <1>2
  <2> QED
    BY <1>1, <2>1 DEF StatusMark
<1>4. \/ lines[Len(lines)].boot = boot
      \/ config.boot # boot /\ Counted(lines[Len(lines)]) = 0
  <2>0. Len(lines) \in 1 .. Len(lines) /\ j <= Len(lines)
    BY <1>0, <1>2
  <2>1. CASE config.boot = boot
    <3>1. lines[j].boot <= lines[Len(lines)].boot /\ lines[Len(lines)].boot <= boot
      BY <2>0 DEF CaptureInv
    <3> QED
      BY <1>0, <1>2, <2>0, <2>1, <3>1
  <2>2. CASE config.boot # boot
    <3>1. AfterBoot /\ OldConfig
      BY <1>1, <2>2 DEF AfterBoot, Searching, OldConfig
    <3> QED
      BY <2>0, <2>2, <3>1 DEF SearchInv
  <2> QED
    BY <2>1, <2>2
<1>5. \A i \in statusStart' + 1 .. Len(lines) : i = Len(lines)
  BY <1>0, <1>3
<1> QED
  BY <1>1, <1>4, <1>5 DEF ListReadable, Counted

\* What a wait for the counters may return.
LEMMA ReturnReadable ==
    ASSUME TypeOK, CaptureInv, ListReadable, NEW line,
           \/ \E i \in statusStart + 1 .. Len(lines) : line = lines[i]
           \/ QueueReadable /\ \E k \in 1 .. Len(queue) : line = queue[k]
    PROVE  Counted(line) <= committed /\ (config.boot = boot => line.boot = boot)
<1>0. /\ CaptureTypeOK /\ Len(lines) \in Nat /\ statusStart \in 0 .. Len(lines)
      /\ committed \in Nat
  BY TypeParts, Elements DEF BenchTypeOK, BoardTypeOK
<1>1. CASE \E i \in statusStart + 1 .. Len(lines) : line = lines[i]
  <2>1. PICK i \in statusStart + 1 .. Len(lines) : line = lines[i]
    BY <1>1
  <2>2. i \in 1 .. Len(lines)
    BY <1>0
  <2>3. CASE line.boot = boot
    BY <2>1, <2>2, <2>3 DEF CaptureInv
  <2>4. CASE config.boot # boot /\ Counted(line) = 0
    BY <1>0, <2>4
  <2> QED
    BY <2>1, <2>3, <2>4 DEF ListReadable
<1>2. CASE QueueReadable /\ \E k \in 1 .. Len(queue) : line = queue[k]
  <2>1. PICK k \in 1 .. Len(queue) : line = queue[k]
    BY <1>2
  <2>2. PICK i \in 1 .. Len(lines) : queue[k] = lines[i]
    BY DEF CaptureInv
  <2>3. line.boot = boot /\ line = lines[i]
    BY <1>2, <2>1, <2>2 DEF QueueReadable
  <2> QED
    BY <2>2, <2>3 DEF CaptureInv
<1> QED
  BY <1>1, <1>2

LEMMA ReadableDesk ==
    ASSUME TypeOK, CaptureInv, ScriptInv, SearchInv, ReadableInv, Desk
    PROVE  ReadableInv'
<1>0. /\ CaptureTypeOK /\ BoardTypeOK /\ Len(lines) \in Nat /\ Len(queue) \in Nat
      /\ statusStart \in 0 .. Len(lines)
      /\ {before.kind, latest.kind} \subseteq {"none", "status"}
  BY TypeParts, Elements, ReadableParts DEF BenchTypeOK
<1>1. UNCHANGED <<boot, committed>>
  BY DeskEffect DEF boardVars
<1>2. ASSUME pc' \notin Measuring, UNCHANGED <<before, latest>>
      PROVE  ReadableInv'
  BY <1>0, <1>2, ReadablePartsNext DEF Measuring, Queueing
<1>3. CASE Leaves \/ RecordRow
  <2>1. pc' \in {"idle", "cell"} /\ before' = NoStatus /\ latest' = NoStatus
    BY <1>3 DEF Leaves, EndRun, RecordRow, Goto
  <2>2. {before'.kind, latest'.kind} \subseteq {"none", "status"}
    BY <2>1 DEF NoStatus
  <2> QED
    BY <2>1, <2>2, ReadablePartsNext DEF Measuring, Queueing
<1>4. CASE \/ Opens \/ BeginCell \/ Drains("drain", "program")
           \/ Passes("programming", "config_scan")
  BY <1>2, <1>4 DEF Opens, BeginCell, Goto, Drains, Passes, Measuring, found
<1>5. CASE ConfigScan \/ ConfigTake
  <2>1. pc' \in {"mark", "config_queue"} /\ UNCHANGED <<before, latest>>
    BY <1>0, <1>5, TypeParts, ConfigScanEffect, ConfigTakeEffect DEF BenchTypeOK
  <2> QED
    BY <1>2, <2>1 DEF Measuring
<1>6. CASE MarkStatus
  <2>1. pc' = "before_scan" /\ UNCHANGED <<before, latest>>
    BY <1>6 DEF MarkStatus, Goto, found
  <2>2. ListReadable'
    BY <1>6, MarkReadable
  <2> QED
    BY <1>0, <2>1, <2>2, ReadablePartsNext DEF Queueing
<1>7. CASE StatusScan \/ StatusTake
  <2>1. /\ pc \in {"before_scan", "before_queue"} /\ pc' \in {"drain_again", "before_queue"}
        /\ UNCHANGED captureVars \/ TakeQueued
        /\ UNCHANGED <<statusStart, config, latest>>
        /\ before' = before \/ before'.kind = "status"
    BY <1>0, <1>7, StatusScanEffect, StatusTakeEffect DEF marks
  <2>2. lines' = lines
    BY <2>1 DEF captureVars, TakeQueued
  <2>3. ListReadable'
    BY <1>1, <2>1, <2>2, ReadableParts DEF ListReadable, Measuring, Counted
  <2>4. {before'.kind, latest'.kind} \subseteq {"none", "status"}
    BY <1>0, <2>1
  <2> QED
    BY <2>1, <2>3, <2>4, ReadablePartsNext DEF Queueing
<1>8. CASE Drains("drain_again", "send")
  <2>1. /\ pc = "drain_again" /\ pc' = "send" /\ Len(queue') = 0
        /\ UNCHANGED <<lines, statusStart, config, before, latest>>
    BY <1>8 DEF Drains, DrainPending, marks, found
  <2>2. ListReadable' /\ QueueReadable'
    BY <1>1, <2>1, ReadableParts DEF ListReadable, Measuring, Counted, QueueReadable
  <2> QED
    BY <1>0, <2>1, <2>2, ReadablePartsNext
<1>9. CASE \/ Passes("send", "after_scan") /\ sent = Packets
           \/ Passes("snapshot", "record")
  <2>1. /\ pc \in Queueing /\ pc \in Measuring
        /\ UNCHANGED <<lines, queue, statusStart, config, before, latest, sent>>
        /\ pc' \in {"after_scan", "record"}
        /\ pc' = "after_scan" => sent = Packets
        /\ pc' = "record" => pc = "snapshot"
    BY <1>9 DEF Passes, marks, found, captureVars, outcome, Queueing, Measuring
  <2>2. ListReadable' /\ QueueReadable'
    BY <1>1, <2>1, ReadableParts DEF ListReadable, Counted, QueueReadable
  <2>3. LatestReadable => LatestReadable'
    BY <1>1, <2>1 DEF LatestReadable, Counted
  <2> QED
    BY <1>0, <2>1, <2>2, <2>3, ReadableParts, ReadablePartsNext
<1>10. CASE AfterScan \/ AfterPoll \/ AfterDeadline
  <2>1. /\ pc \in {"after_scan", "after_poll"} /\ pc' \in {"after_poll", "snapshot"}
        /\ UNCHANGED captureVars \/ TakeQueued
        /\ UNCHANGED <<statusStart, config, before, sent>>
        /\ \/ latest' = latest /\ pc = "after_poll"
           \/ latest' = NoStatus
           \/ \E i \in statusStart + 1 .. Len(lines) :
                 latest' = lines[i] /\ lines[i].kind = "status"
           \/ TakeQueued /\ latest' = queue[1] /\ queue[1].kind = "status"
    BY <1>0, <1>10, LatestEffect DEF marks, outcome
  <2>2. sent = Packets /\ ListReadable /\ QueueReadable
    BY <2>1, ReadableParts DEF Measuring, Queueing
  <2>3. lines' = lines
    BY <2>1 DEF captureVars, TakeQueued
  <2>4. ListReadable'
    BY <1>1, <2>1, <2>2, <2>3 DEF ListReadable, Counted
  <2>5. QueueReadable'
    <3>1. CASE TakeQueued
      <4>1. /\ Len(queue') = Len(queue) - 1
            /\ \A k \in 1 .. Len(queue') : queue'[k] = queue[k + 1]
        BY <1>0, <3>1, TakeEffect
      <4>2. \A k \in 1 .. Len(queue') : k + 1 \in 1 .. Len(queue)
        BY <1>0, <4>1
      <4> QED
        BY <1>1, <2>2, <4>1, <4>2 DEF QueueReadable
    <3> QED
      BY <1>1, <2>1, <2>2, <3>1 DEF QueueReadable, captureVars
  <2>6. {before'.kind, latest'.kind} \subseteq {"none", "status"}
    BY <1>0, <2>1 DEF NoStatus
  <2>7. latest' # NoStatus => LatestReadable'
    <3> SUFFICES ASSUME latest' # NoStatus PROVE LatestReadable'
      OBVIOUS
    <3>1. CASE latest' = latest /\ pc = "after_poll"
      <4>1. LatestReadable
        BY <3>1, ReadableParts
      <4> QED
        BY <1>1, <2>1, <3>1, <4>1 DEF LatestReadable, Counted
    <3>2. CASE \/ \E i \in statusStart + 1 .. Len(lines) : latest' = lines[i]
               \/ TakeQueued /\ latest' = queue[1]
      <4>1. TakeQueued => 1 \in 1 .. Len(queue)
        BY <1>0, TakeEffect
      <4>2. Counted(latest') <= committed /\ (config.boot = boot => latest'.boot = boot)
        BY <2>2, <3>2, <4>1, ReturnReadable
      <4> QED
        BY <1>1, <2>1, <4>2 DEF LatestReadable, Counted
    <3> QED
      BY <2>1, <3>1, <3>2
  <2> QED
    BY <2>1, <2>2, <2>4, <2>5, <2>6, <2>7, ReadablePartsNext
<1> QED
  BY <1>3, <1>4, <1>5, <1>6, <1>7, <1>8, <1>9, <1>10, DeskSteps

LEMMA ReadableStep ==
    ASSUME TypeOK, CaptureInv, ScriptInv, SearchInv, ReadableInv, Next
    PROVE  ReadableInv'
<1>0. /\ {before.kind, latest.kind} \subseteq {"none", "status"}
  BY ReadableParts
<1>1. CASE StartRun
  BY <1>0, <1>1, StartRunEffect, ReadablePartsNext DEF found, Measuring, Queueing
<1>2. CASE CallProgram
  BY <1>0, <1>2, ReadablePartsNext DEF CallProgram, found, Measuring, Queueing
<1>3. CASE SendPacket
  <2>1. /\ pc = "send" /\ pc' = "send" /\ boot' = boot
        /\ UNCHANGED <<lines, queue, statusStart, config, before, latest>>
    BY <1>3 DEF SendPacket, Deliver, boardVars, captureVars, marks, found
  <2>2. ListReadable' /\ QueueReadable'
    BY <2>1, ReadableParts
       DEF ListReadable, QueueReadable, Counted, Measuring, Queueing
  <2> QED
    BY <1>0, <2>1, <2>2, ReadablePartsNext
<1> QED
  BY <1>1, <1>2, <1>3, ReadableDesk, ReadableBeside, NextSteps

-----------------------------------------------------------------------------
(***************************************************************************)
(* The row.                                                                *)
(***************************************************************************)
\* A difference is no larger than the later of the two statuses.
LEMMA DeltaCounted ==
    ASSUME TypeOK, CaptureInv, {before.kind, latest.kind} \subseteq {"none", "status"},
           Delta("committed") # 0
    PROVE  latest # NoStatus /\ Delta("committed") <= Counted(latest)
           /\ Delta("committed") \in Int /\ Counted(latest) \in Nat
<1>1. Complete(before) /\ Complete(latest)
  BY DEF Delta
<1>2. before \in Printed /\ latest \in Printed /\ before # NoStatus /\ latest # NoStatus
  BY <1>1 DEF Complete, TypeOK
<1>3. before.kind = "status" /\ latest.kind = "status"
  BY <1>2, LineFields
<1>4. before.complete /\ latest.complete
  BY <1>1, Zenon DEF Complete
<1>5. before.committed \in 0 .. Packets /\ latest.committed \in 0 .. Packets
  BY <1>2, <1>3, <1>4, LineFields, Zenon
<1>6. Counted(latest) = latest.committed
  BY <1>3, <1>4, Zenon DEF Counted
<1>7. Delta("committed") = latest.committed - before.committed
  BY <1>1, Zenon DEF Delta
<1> QED
  BY <1>2, <1>5, <1>6, <1>7, BoardAssumption

LEMMA StableMeansCommitted ==
    ASSUME TypeOK, CaptureInv, ReadableInv, pc = "record", Classify = "stable"
    PROVE  100 * committed >= 99 * Packets
<1>0. Packets \in Nat \ {0} /\ committed \in Nat
  BY BoardAssumption DEF TypeOK, BoardTypeOK
<1>1. sent = Packets
  BY ReadableParts
<1>2. 100 * Delta("committed") >= 99 * Packets
  BY <1>1 DEF Classify
<1>3. Delta("committed") # 0
  BY <1>0, <1>2
<1>4. /\ latest # NoStatus /\ Delta("committed") <= Counted(latest)
      /\ Delta("committed") \in Int /\ Counted(latest) \in Nat
  BY <1>3, DeltaCounted, ReadableParts
<1>5. Counted(latest) <= committed
  BY <1>4, ReadableParts DEF LatestReadable
<1> QED
  BY <1>0, <1>2, <1>4, <1>5

LEMMA FewAreLeft ==
    ASSUME NEW n \in Nat, NEW few \in Nat, NEW more \in Nat, NEW rest \in Nat,
           NEW total \in 0 .. n, 100 * few >= 99 * n, more >= few, more + rest <= total
    PROVE  100 * more >= 99 * n /\ 100 * rest <= n
<1>1. 100 * more >= 99 * n
  OBVIOUS
<1>2. 100 * more + 100 * rest <= 100 * n
  OBVIOUS
<1> QED
  BY <1>1, <1>2

LEMMA FewErrors ==
    ASSUME BoardTypeOK, 100 * committed >= 99 * Packets
    PROVE  100 * errors <= Packets
<1>1. /\ Packets \in Nat /\ committed \in Nat /\ errors \in Nat /\ rx \in 0 .. Packets
      /\ committed + errors <= rx /\ committed >= committed
  BY BoardAssumption DEF BoardTypeOK
<1> QED
  BY <1>1, FewAreLeft

LEMMA RowRecorded ==
    ASSUME TypeOK, CaptureInv, ReadableInv, RecordRow
    PROVE  RowInv'
<1>1. /\ pc = "record" /\ pc' = "cell" /\ UNCHANGED <<boot, committed, errors>>
      /\ row' = [classification |-> Classify, config |-> config, status |-> latest]
  BY DEF RecordRow, Goto, boardVars
<1>2. /\ row'.classification = Classify /\ row'.config = config /\ row'.status = latest
  BY <1>1
<1>3. Classify = "stable" => 100 * committed >= 99 * Packets /\ 100 * errors <= Packets
  BY <1>1, StableMeansCommitted, FewErrors DEF TypeOK
<1>4. config.boot = boot /\ latest # NoStatus => latest.boot = boot
  BY <1>1, ReadableParts DEF LatestReadable
<1> QED
  BY <1>1, <1>2, <1>3, <1>4 DEF RowInv, StableRowIsHonest, RowOfItsBoot, JustRecorded

LEMMA RowDesk ==
    ASSUME TypeOK, CaptureInv, ReadableInv, RowInv, Desk
    PROVE  RowInv'
<1>1. CASE pc' \notin {"open", "cell"}
  BY <1>1 DEF RowInv, StableRowIsHonest, RowOfItsBoot, JustRecorded
<1>2. CASE Opens
  <2>1. row' = NoRow /\ pc' = "cell"
    BY <1>2 DEF Opens, outcome, RowInv
  <2> QED
    BY <2>1 DEF RowInv, StableRowIsHonest, RowOfItsBoot, JustRecorded
<1>3. CASE Leaves \/ BeginCell \/ MarkStatus \/ AfterScan \/ AfterPoll \/ AfterDeadline
  BY <1>1, <1>3
     DEF Leaves, EndRun, BeginCell, MarkStatus, AfterScan, AfterPoll, AfterDeadline, Goto
<1>4. CASE \/ Drains("drain", "program") \/ Drains("drain_again", "send")
           \/ Passes("programming", "config_scan") \/ Passes("send", "after_scan")
           \/ Passes("snapshot", "record")
  BY <1>1, <1>4 DEF Drains, Passes
<1>5. CASE ConfigScan \/ ConfigTake \/ StatusScan \/ StatusTake
  BY <1>1, <1>5 DEF ConfigScan, ConfigTake, StatusScan, StatusTake, Scan, Take, Goto
<1> QED
  BY <1>2, <1>3, <1>4, <1>5, RowRecorded, DeskSteps

LEMMA RowStep ==
    ASSUME TypeOK, CaptureInv, ScriptInv, ReadableInv, RowInv, Next
    PROVE  RowInv'
<1>0. BoardTypeOK /\ BoardTypeOK' /\ Packets \in Nat
  BY BoardStepType, BoardAssumption DEF TypeOK
<1>1. CASE StartRun
  BY <1>1, StartRunEffect DEF RowInv, StableRowIsHonest, RowOfItsBoot, JustRecorded
<1>2. CASE CallProgram
  BY <1>2 DEF CallProgram, RowInv, StableRowIsHonest, RowOfItsBoot, JustRecorded
<1>3. CASE SendPacket
  BY <1>3 DEF SendPacket, RowInv, StableRowIsHonest, RowOfItsBoot, JustRecorded
<1>4. CASE Beside
  <2>1. UNCHANGED <<pc, row, cell>>
    BY <1>4, BesideEffect DEF outcome
  <2>2. CASE pc = "cell" /\ row # NoRow
    <3>1. ~ScriptStart
      BY <2>2 DEF ScriptStart, ScriptInv
    <3>2. boot' = boot /\ committed' >= committed
      BY <1>0, <1>4, <3>1, BesideBoard
    <3>3. 100 * committed >= 99 * Packets =>
             100 * committed' >= 99 * Packets /\ 100 * errors' <= Packets
      <4> SUFFICES ASSUME 100 * committed >= 99 * Packets
                   PROVE  100 * committed' >= 99 * Packets /\ 100 * errors' <= Packets
        OBVIOUS
      <4>0. /\ committed \in Nat /\ committed' \in Nat /\ errors' \in Nat
            /\ rx' \in 0 .. Packets /\ committed' + errors' <= rx'
        BY <1>0 DEF BoardTypeOK
      <4> QED
        BY <1>0, <3>2, <4>0, FewAreLeft
    <3> QED
      BY <2>1, <2>2, <3>2, <3>3
         DEF RowInv, StableRowIsHonest, RowOfItsBoot, JustRecorded
  <2>3. CASE ~(pc = "cell" /\ row # NoRow)
    BY <2>1, <2>3 DEF RowInv, StableRowIsHonest, RowOfItsBoot, JustRecorded
  <2> QED
    BY <2>2, <2>3
<1> QED
  BY <1>1, <1>2, <1>3, <1>4, RowDesk, NextSteps

-----------------------------------------------------------------------------
(***************************************************************************)
(* The invariant.                                                          *)
(***************************************************************************)
LEMMA BenchmarkInit ==
    ASSUME Init
    PROVE  BenchmarkInv
<1>0. /\ lines = <<>> /\ pending = <<>> /\ queue = <<>>
      /\ Len(lines) = 0 /\ Len(pending) = 0 /\ Len(queue) = 0
      /\ reader = "none" /\ glitches = 0
      /\ pc = "idle" /\ starts = 0 /\ cell = 0 /\ script = "none"
      /\ uartStart = 0 /\ statusStart = 0
      /\ config = NoStatus /\ before = NoStatus /\ latest = NoStatus
      /\ sent = 0 /\ row = NoRow /\ xsdb = "idle" /\ phase = "running"
  BY DEF Init, NoCapture, XsdbInit, BoardInit
<1>1. BoardTypeOK
  <2>1. /\ boot = 0 /\ phase = "running" /\ rx \in {0, Packets}
        /\ committed = rx /\ errors = 0 /\ printed = MaxStatus - 1
    BY DEF Init, BoardInit
  <2>2. Packets \in Nat \ {0} /\ MaxBoots \in Nat /\ MaxStatus \in Nat \ {0}
    BY BoardAssumption
  <2> QED
    BY <2>1, <2>2 DEF BoardTypeOK
<1>2. XsdbTypeOK /\ XsdbInv
  BY XsdbAssumption
     DEF Init, XsdbInit, XsdbTypeOK, XsdbInv, XsdbTalksToOwnServer, Stages, Nobody
<1>3. CaptureInv /\ CaptureTypeOK
  BY <1>0, CaptureAssumption DEF CaptureInv, CaptureTypeOK
<1>4. BenchTypeOK /\ PlaceInv
  BY <1>0, BoardAssumption, BenchmarkAssumption DEF BenchTypeOK, PlaceInv, Places
<1>5. ScriptInv
  BY <1>0 DEF ScriptInv, AfterProgram, Searching, Measuring
<1>6. EarlyInv /\ SearchInv
  BY <1>0 DEF EarlyInv, BeforeBoot, SearchInv, AfterBoot, Searching
<1>7. ReadableInv
  BY <1>0, ReadableParts DEF Measuring, Queueing, NoStatus
<1>8. RowInv
  BY <1>0 DEF RowInv, StableRowIsHonest, RowOfItsBoot, JustRecorded
<1> QED
  BY <1>1, <1>2, <1>3, <1>4, <1>5, <1>6, <1>7, <1>8, TypeParts DEF BenchmarkInv

LEMMA BenchmarkStep ==
    ASSUME BenchmarkInv, [Next]_vars
    PROVE  BenchmarkInv'
<1>1. CASE Next
  <2>1. TypeOK' /\ XsdbInv' /\ CaptureInv' /\ PlaceInv'
    BY <1>1, TypeStep DEF BenchmarkInv
  <2>2. ScriptInv' /\ EarlyInv' /\ SearchInv'
    BY <1>1, ScriptInvStep, EarlyStep, SearchStep DEF BenchmarkInv
  <2>3. ReadableInv' /\ RowInv'
    BY <1>1, ReadableStep, RowStep DEF BenchmarkInv
  <2> QED
    BY <2>1, <2>2, <2>3 DEF BenchmarkInv
<1>2. CASE UNCHANGED vars
  <2>1. /\ UNCHANGED <<pc, starts, script, uartStart, statusStart, config, before, latest,
                       cell, sent, row>>
        /\ UNCHANGED <<lines, pending, queue, reader, glitches>>
        /\ UNCHANGED <<boot, phase, rx, committed, errors, printed>>
        /\ UNCHANGED <<call, xsdb, result, servers, holder>>
    BY <1>2
       DEF vars, benchVars, marks, found, outcome, captureVars, boardVars, xsdbVars
  <2>2. TypeOK' /\ XsdbInv'
    BY <2>1
       DEF BenchmarkInv, TypeOK, BoardTypeOK, XsdbTypeOK, XsdbInv, XsdbTalksToOwnServer
  <2>3. CaptureInv' /\ PlaceInv'
    BY <2>1 DEF BenchmarkInv, CaptureInv, Counted, PlaceInv
  <2>4. ScriptInv'
    BY <2>1 DEF BenchmarkInv, ScriptInv, AfterProgram, Started, NoConfigPending
  <2>5. EarlyInv'
    BY <2>1 DEF BenchmarkInv, EarlyInv, BeforeBoot, ConfigAhead, NoConfigPending,
       ConfigQueued, ConfigListed, Fresh
  <2>6. SearchInv'
    BY <2>1 DEF BenchmarkInv, SearchInv, AfterBoot, OldConfig, Counted
  <2>7. ReadableInv'
    BY <2>1 DEF BenchmarkInv, ReadableInv, Counted
  <2>8. RowInv'
    BY <2>1 DEF BenchmarkInv, RowInv, StableRowIsHonest, RowOfItsBoot, JustRecorded
  <2> QED
    BY <2>2, <2>3, <2>4, <2>5, <2>6, <2>7, <2>8 DEF BenchmarkInv
<1> QED
  BY <1>1, <1>2

(***************************************************************************)
(* The measurement keeps the boots apart: for any number of cells, packets *)
(* and status lines, ports and broken lines, its state satisfies the       *)
(* invariant of wait_for, latest_status and the launcher given above.      *)
(***************************************************************************)
THEOREM BenchmarkCorrect == Spec => []BenchmarkInv
<1>1. Init => BenchmarkInv
  BY BenchmarkInit
<1>2. BenchmarkInv /\ [Next]_vars => BenchmarkInv'
  BY BenchmarkStep
<1> QED
  BY <1>1, <1>2, PTL DEF Spec

(***************************************************************************)
(* Every variable of e131_benchmark.py, of the capture, of the board and   *)
(* of run_xsdb_checked.py keeps its type: no search reads beyond the list, *)
(* and the queue never holds more than the list.                           *)
(***************************************************************************)
THEOREM BenchmarkTypeCorrect == Spec => []TypeOK
<1>1. BenchmarkInv => TypeOK
  BY DEF BenchmarkInv
<1> QED
  BY <1>1, BenchmarkCorrect, PTL

(***************************************************************************)
(* A row that classify calls stable is of a boot that has committed all    *)
(* but one in a hundred of the packets of the cell.                        *)
(***************************************************************************)
THEOREM StableRowsAreHonest == Spec => []StableRowIsHonest
<1>1. BenchmarkInv => StableRowIsHonest
  BY DEF BenchmarkInv, RowInv
<1> QED
  BY <1>1, BenchmarkCorrect, PTL

(***************************************************************************)
(* A row whose configuration line wait_for found in the boot of the cell   *)
(* ends with a status of that boot.                                        *)
(***************************************************************************)
THEOREM RowsAreOfTheirBoot == Spec => []RowOfItsBoot
<1>1. BenchmarkInv => RowOfItsBoot
  BY DEF BenchmarkInv, RowInv
<1> QED
  BY <1>1, BenchmarkCorrect, PTL

(***************************************************************************)
(* The script of run_xsdb_checked.py runs against the hw_server that the   *)
(* same call has started, whatever earlier calls have left behind.         *)
(***************************************************************************)
THEOREM OwnServerOnly == Spec => []XsdbTalksToOwnServer
<1>1. BenchmarkInv => XsdbTalksToOwnServer
  BY DEF BenchmarkInv, XsdbInv
<1> QED
  BY <1>1, BenchmarkCorrect, PTL

=============================================================================

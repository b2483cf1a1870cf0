--------------------------- MODULE SerialCapture ---------------------------
(***************************************************************************)
(* The UART capture of the measuring tools: SerialCapture of               *)
(* ps/tools/e131_benchmark.py and the port choice of make_helpers.py.  A   *)
(* reader thread keeps every line it reads in two places, a list that is   *)
(* never shortened and a queue that the waits consume; the two writes are  *)
(* two steps, and the waits of the main thread may run between them.       *)
(*                                                                         *)
(* A line is a record: the boot that printed it and, for a status line,    *)
(* the counters a measurement looks at.  Lines no pattern matches are left *)
(* out.                                                                    *)
(***************************************************************************)
EXTENDS Integers, Sequences, FiniteSets, SequencesExt

CONSTANTS
    MaxGlitches, \* bound on garbled lines and readers that die
    Ports,      \* the serial ports of the host
    BoardPort,  \* the one the board is on
    Score       \* what score_port gives each of them

ASSUME CaptureAssumption ==
    /\ MaxGlitches \in Nat
    /\ BoardPort \in Ports
    /\ Score \in [Ports -> Nat]

VARIABLES
    lines,      \* self.lines
    pending,    \* the line appended to lines and not yet put into the queue
    queue,      \* self._queue
    reader,     \* the thread: "none", "running" or "dead" (an exception ended it)
    glitches    \* garbled lines and dead readers so far

captureVars == <<lines, pending, queue, reader, glitches>>

NoCapture ==
    /\ lines = <<>> /\ pending = <<>> /\ queue = <<>>
    /\ reader = "none" /\ glitches = 0

-----------------------------------------------------------------------------
(***************************************************************************)
(* Ports.  A lone port is taken whatever its score, among several only     *)
(* those that look like a board are tried, best first.                     *)
(***************************************************************************)
Likely(ports) ==
    IF Cardinality(ports) = 1 THEN ports ELSE {p \in ports : Score[p] > 0}

CandidatePorts(ports) ==
    SetToSortSeq(Likely(ports), LAMBDA p, q : Score[p] > Score[q])

\* The ports opening can end with: the first candidate that opens.
OpenedPort(ports, openable) ==
    LET candidates == CandidatePorts(ports)
    IN  {candidates[i] : i \in {j \in DOMAIN candidates :
            /\ candidates[j] \in openable
            /\ \A k \in 1 .. j - 1 : candidates[k] \notin openable}}

\* start(): a new list, a new queue and a new thread.  A capture of another
\* port than the board's reads nothing.
StartCapture(port) ==
    /\ lines' = <<>> /\ pending' = <<>> /\ queue' = <<>>
    /\ reader' = IF port = BoardPort THEN "running" ELSE "dead"
    /\ UNCHANGED glitches

\* stop(): the thread ends within its read timeout and the port is closed.
StopCapture ==
    /\ reader' = "none"
    /\ lines' = <<>> /\ pending' = <<>> /\ queue' = <<>>
    /\ UNCHANGED glitches

-----------------------------------------------------------------------------
(***************************************************************************)
(* The loop of _reader for one line.  The thread is back in readline       *)
(* before the next line is complete.  What is sent while nobody reads is   *)
(* lost, and a garbled line matches nothing: it is lost as well.           *)
(***************************************************************************)
ReadLine(line) ==
    /\ reader = "running"
    /\ pending = <<>>
    /\ lines' = Append(lines, line)
    /\ pending' = <<line>>
    /\ UNCHANGED <<queue, reader, glitches>>

Glitch ==
    /\ reader = "running"
    /\ pending = <<>>
    /\ glitches < MaxGlitches
    /\ glitches' = glitches + 1
    /\ UNCHANGED <<lines, pending, queue>>

GarbleLine == Glitch /\ UNCHANGED reader

NobodyReads == reader # "running" /\ UNCHANGED captureVars

Receive(line) == ReadLine(line) \/ GarbleLine \/ NobodyReads

PutLine ==
    /\ pending # <<>>
    /\ queue' = queue \o pending
    /\ pending' = <<>>
    /\ UNCHANGED <<lines, reader, glitches>>

\* readline raises, the adapter was unplugged: nobody tells the main thread.
ReaderDies == Glitch /\ reader' = "dead"

DrainPending ==
    /\ queue' = <<>>
    /\ UNCHANGED <<lines, pending, reader, glitches>>

-----------------------------------------------------------------------------
From(start) == SubSeq(lines, start + 1, Len(lines))

\* wait_for, first part: the lines from start on, oldest first.
Found(Matches(_), start) == {i \in DOMAIN From(start) : Matches(From(start)[i])}

FirstFound(Matches(_), start) ==
    From(start)[CHOOSE i \in Found(Matches, start) :
                    \A j \in Found(Matches, start) : i <= j]

\* Second part: whatever the queue holds, the lines from before start too.
TakeQueued ==
    /\ queue # <<>>
    /\ queue' = Tail(queue)
    /\ UNCHANGED <<lines, pending, reader, glitches>>

\* What the searches return for {}.
NoStatus == [kind |-> "none"]

\* latest_status(start): the last status line from start on.
LatestStatus(start) ==
    LET statuses == {i \in DOMAIN From(start) : From(start)[i].kind = "status"}
    IN  IF statuses = {} THEN NoStatus
        ELSE From(start)[CHOOSE i \in statuses : \A j \in statuses : i >= j]

=============================================================================

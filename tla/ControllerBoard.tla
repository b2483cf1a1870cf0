-------------------------- MODULE ControllerBoard --------------------------
(***************************************************************************)
(* The board as the measuring tools see it: the lines the firmware prints  *)
(* (ps/app/main.c, ethernet_receiver_print_status), the counters in them   *)
(* and what ps/scripts/run_controller.tcl does to it over JTAG.            *)
(*                                                                         *)
(* A packet carries a whole frame.  It is counted when the network driver  *)
(* delivers it and handled later, when it leaves the ring: committed as a  *)
(* frame, or counted as one of the errors a measurement looks at.  Left    *)
(* out: a blackout, which counts as a committed frame too                  *)
(* (e131_receiver.c:161).  It takes 5 seconds without a frame: longer than *)
(* the wait for the last status, and in the middle of a cell so long that  *)
(* the cell misses its target.                                             *)
(***************************************************************************)
EXTENDS SerialCapture

CONSTANTS
    Packets,    \* packets a measurement sends
    MaxBoots,   \* bound on the boots
    MaxStatus   \* bound on the status lines of a boot

ASSUME BoardAssumption ==
    /\ Packets \in Nat \ {0}
    /\ MaxBoots \in Nat
    /\ MaxStatus \in Nat \ {0}

VARIABLES
    boot,       \* number of the boot
    phase,      \* "held", "booting", "configured", "running" or "fatal"
    rx,         \* rx_packets
    committed,  \* frames_committed
    errors,     \* the hard_errors of classify, added up
    printed     \* status lines printed by this boot

boardVars == <<boot, phase, rx, committed, errors, printed>>
counters == <<rx, committed, errors>>

ConfigLine(b) == [kind |-> "config", boot |-> b]

StatusLine(b) ==
    [kind |-> "status", boot |-> b, rx |-> rx, committed |-> committed,
     errors |-> errors, complete |-> TRUE]

\* A line broken off by a reset, behind the counter rx_packets: the keys
\* after it are missing.  Broken off earlier it counts as lost.
CutLine(b) == [kind |-> "status", boot |-> b, rx |-> rx, complete |-> FALSE]

BoardTypeOK ==
    /\ boot \in 0 .. MaxBoots
    /\ phase \in {"held", "booting", "configured", "running", "fatal"}
    /\ rx \in 0 .. Packets
    /\ committed \in Nat /\ errors \in Nat
    /\ committed + errors <= rx
    /\ printed \in 0 .. MaxStatus

\* The board has been running: idle, or since an earlier measurement.
BoardInit ==
    /\ boot = 0
    /\ phase = "running"
    /\ rx \in {0, Packets}
    /\ committed = rx /\ errors = 0
    /\ printed = MaxStatus - 1

-----------------------------------------------------------------------------
\* main(): the checks up to the strand configuration, which is printed.
PrintConfig ==
    /\ phase = "booting"
    /\ phase' = "configured"
    /\ Receive(ConfigLine(boot))
    /\ UNCHANGED <<boot, counters, printed>>

\* The network comes up and the first status is printed at once.
EnterMainLoop ==
    /\ phase = "configured"
    /\ phase' = "running"
    /\ printed' = 1
    /\ Receive(StatusLine(boot))
    /\ UNCHANGED <<boot, counters>>

\* fatal(): a message no pattern matches, and nothing ever after.
Fatal ==
    /\ phase \in {"booting", "configured"}
    /\ phase' = "fatal"
    /\ UNCHANGED <<boot, counters, printed, captureVars>>

\* Once a second.
PrintStatus ==
    /\ phase = "running"
    /\ printed < MaxStatus
    /\ printed' = printed + 1
    /\ Receive(StatusLine(boot))
    /\ UNCHANGED <<boot, phase, counters>>

HandlePacket ==
    /\ phase = "running"
    /\ committed + errors < rx
    /\ \/ committed' = committed + 1 /\ errors' = errors
       \/ errors' = errors + 1 /\ committed' = committed
    /\ UNCHANGED <<boot, phase, rx, printed, captureVars>>

\* A packet from the network, counted if the program is up.
Deliver ==
    /\ phase = "running"
    /\ rx < Packets
    /\ rx' = rx + 1
    /\ UNCHANGED <<boot, phase, committed, errors, printed>>

Boot == PrintConfig \/ EnterMainLoop \/ Fatal

BoardStep == Boot \/ PrintStatus \/ HandlePacket

-----------------------------------------------------------------------------
(***************************************************************************)
(* run_controller.tcl: the processor is reset and stopped, a line may be   *)
(* broken off; the first stage boot loader runs for 8 seconds, the PL is   *)
(* programmed; the application is started; 5 seconds later the registers   *)
(* are read.  The pauses are long: the reader thread is done with every    *)
(* line printed before them, and the application is past its configuration *)
(* line or has failed.                                                     *)
(***************************************************************************)
ResetProcessor ==
    /\ phase' = "held"
    /\ \/ phase = "running" /\ Receive(CutLine(boot))
       \/ UNCHANGED captureVars
    /\ UNCHANGED <<boot, counters, printed>>

StartApplication ==
    /\ phase = "held"
    /\ boot < MaxBoots
    /\ pending = <<>>
    /\ boot' = boot + 1
    /\ phase' = "booting"
    /\ rx' = 0 /\ committed' = 0 /\ errors' = 0
    /\ printed' = 0
    /\ UNCHANGED captureVars

ApplicationHasStarted ==
    /\ phase \in {"configured", "running", "fatal"}
    /\ \A line \in ToSet(pending) : line.kind # "config"

=============================================================================

------------------------------ MODULE XsdbRun ------------------------------
(***************************************************************************)
(* One call of ps/scripts/run_xsdb_checked.py after the other: stale       *)
(* debugger processes are killed, a hw_server is started, its TCP port is  *)
(* awaited, the script runs in xsdb, and the processes are terminated, all *)
(* as on Windows: elsewhere nothing is killed first and nothing awaited.   *)
(*                                                                         *)
(* A hw_server is named after the call that started it, 0 for one that     *)
(* something else started.  Only one can hold the port.                    *)
(***************************************************************************)
EXTENDS Integers

CONSTANTS
    MaxCalls   \* bound on the number of calls

ASSUME XsdbAssumption == MaxCalls \in Nat

VARIABLES
    call,      \* number of the current or last call
    xsdb,      \* where it is
    result,    \* how the last one ended: "none", "ok", "error"
    servers,   \* the hw_servers alive
    holder     \* the one that holds the port, Nobody when it is free

xsdbVars == <<call, xsdb, result, servers, holder>>

Nobody == -1

Stages == {"idle", "start", "port", "script", "exit"}

XsdbTypeOK ==
    /\ call \in 0 .. MaxCalls
    /\ xsdb \in Stages
    /\ result \in {"none", "ok", "error"}
    /\ servers \subseteq 0 .. MaxCalls
    /\ holder \in servers \cup {Nobody}

\* Another tool may have left its server behind.
XsdbInit ==
    /\ call = 0 /\ xsdb = "idle" /\ result = "none"
    /\ servers \in {{}, {0}}
    /\ holder = IF servers = {} THEN Nobody ELSE 0

CallXsdb ==
    /\ xsdb = "idle"
    /\ call < MaxCalls
    /\ call' = call + 1
    /\ xsdb' = "start"
    /\ result' = "none"
    /\ UNCHANGED <<servers, holder>>

\* Mutated: a stale server is left alone.
LeftAlone == servers

\* The servers left after those alive are killed by image name.
LeftAfterCleaning == {}

HolderAmong(alive) == IF holder \in alive THEN holder ELSE Nobody

\* kill_stale_jtag_processes, then a hw_server of its own.
StartServer ==
    /\ xsdb = "start"
    /\ servers' = LeftAfterCleaning \cup {call}
    /\ holder' = HolderAmong(LeftAfterCleaning)
    /\ xsdb' = "port"
    /\ UNCHANGED <<call, result>>

\* A hw_server binds the port, however late.
ServerBinds(s) ==
    /\ s \in servers
    /\ holder = Nobody
    /\ holder' = s
    /\ UNCHANGED <<call, xsdb, result, servers>>

\* wait_for_port asks whether anybody answers, not who.
PortAnswers ==
    /\ xsdb = "port"
    /\ holder # Nobody
    /\ xsdb' = "script"
    /\ UNCHANGED <<call, result, servers, holder>>

\* The early return leaves before the try block: its server stays.
PortTimesOut ==
    /\ xsdb = "port"
    /\ holder = Nobody
    /\ xsdb' = "idle"
    /\ result' = "error"
    /\ UNCHANGED <<call, servers, holder>>

\* The script ended, or an error line was seen in its output.
ScriptEnds(outcome) ==
    /\ xsdb = "script"
    /\ xsdb' = "exit"
    /\ result' = outcome
    /\ UNCHANGED <<call, servers, holder>>

\* The finally block; taskkill is awaited.
TerminateProcesses ==
    /\ xsdb = "exit"
    /\ xsdb' = "idle"
    /\ servers' = servers \ {call}
    /\ holder' = HolderAmong(servers')
    /\ UNCHANGED <<call, result>>

ServerStep == \E s \in servers : ServerBinds(s)

LauncherStep ==
    \/ StartServer \/ PortAnswers \/ PortTimesOut
    \/ TerminateProcesses

(***************************************************************************)
(* The script runs against the hw_server of its own call: it connects to a *)
(* fixed port, where the server of another session (other options, another *)
(* cable, left behind by a call that failed) would answer as well.         *)
(***************************************************************************)
XsdbTalksToOwnServer == xsdb = "script" => holder = call

=============================================================================

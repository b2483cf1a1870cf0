--------------------------- MODULE ProfileReport ---------------------------
(***************************************************************************)
(* The profile of lwIP settings, ps/tools/e131_ingress_profile.py, and the *)
(* report made with it, ps/tools/e131_profile_report.py, on top of the     *)
(* builds: the application is built once for each candidate, with its      *)
(* settings in the environment of make, and measured; the report then      *)
(* builds the default and measures the ceiling with the benchmark.         *)
(*                                                                         *)
(* A measured cell programs the board with the newest application there is *)
(* (run_controller.tcl); what happens inside is E131Benchmark.             *)
(***************************************************************************)
EXTENDS BuildFlow

CONSTANTS
    Candidates,    \* sequence of the candidates' settings
    ProfileCells,  \* cells measured for each, without the guard cell
    CeilingCells,  \* rates of the ceiling sweep
    Contracts,     \* what the developer writes into pl_control.rdl
    MaxEdits,      \* bound on the developer's edits
    MaxMakes,      \* bound on the developer's makes
    MaxTools       \* bound on the profiles and reports

ASSUME ProfileAssumption ==
    /\ Candidates \in Seq(STRING)
    /\ Contracts \subseteq Parameters
    /\ ProfileCells \in Nat \ {0} /\ CeilingCells \in Nat \ {0}
    /\ MaxEdits \in Nat /\ MaxMakes \in Nat /\ MaxTools \in Nat

VARIABLES
    tool,       \* where the tools are, "none" when none runs
    reporting,  \* the profile was called by the report
    next,       \* index of the candidate being built or measured
    guardDone,  \* guard_done
    cellsLeft,  \* cells still to measure for this build
    row,        \* the last row written
    edits, makes, tools

toolVars == <<tool, reporting, next, guardDone, cellsLeft, row>>
boundVars == <<edits, makes, tools>>
vars == <<buildVars, toolVars, boundVars>>

NoRow == [claimed |-> "none"]

Init ==
    /\ BuildInit
    /\ tool = "none" /\ reporting = FALSE /\ next = 0
    /\ guardDone = FALSE /\ cellsLeft = 0 /\ row = NoRow
    /\ edits = 0 /\ makes = 0 /\ tools = 0

-----------------------------------------------------------------------------
Develop ==
    /\ tool = "none"
    /\ edits < MaxEdits
    /\ edits' = edits + 1
    /\ \/ EditHardware
       \/ EditApplication
       \/ \E c \in Contracts : ChangeContract(c)
    /\ UNCHANGED <<toolVars, makes, tools>>

DeveloperMakes ==
    /\ tool = "none"
    /\ makes < MaxMakes
    /\ makes' = makes + 1
    /\ \E target \in DOMAIN Steps : StartMake(target, Default)
    /\ UNCHANGED <<toolVars, edits, tools>>

Make == MakeStep /\ UNCHANGED <<toolVars, boundVars>>

-----------------------------------------------------------------------------
StartTool(first, called) ==
    /\ tool = "none" /\ Idle
    /\ tools < MaxTools
    /\ tools' = tools + 1
    /\ tool' = first
    /\ reporting' = called
    /\ next' = 1 /\ guardDone' = FALSE /\ cellsLeft' = 0
    /\ row' = NoRow
    /\ UNCHANGED <<buildVars, edits, makes>>

StartProfile == StartTool("build", FALSE)

\* Host tests and the compile check come first in a report.
StartReport == StartTool("tests", TRUE)

\* The process is gone, with its variables; the results stay as files.
EndTool ==
    /\ tool' = "none"
    /\ reporting' = FALSE /\ next' = 0 /\ guardDone' = FALSE /\ cellsLeft' = 0
    /\ row' = NoRow
    /\ UNCHANGED <<buildVars, boundVars>>

\* An exception: a command failed, a wait timed out, no port, no artifacts.
Abort ==
    /\ tool \notin {"none", "building", "default building"}
    /\ EndTool

TestsPass ==
    /\ tool = "tests"
    /\ tool' = "build"
    /\ UNCHANGED <<buildVars, boundVars, reporting, next, guardDone, cellsLeft, row>>

\* Mutated: the stamp of the build before is left.
FreshWithStamp == fresh

FreshWithoutStamp == fresh \ {"stamp"}

\* The stamp is unlinked and make ps called.
MakePs(settings) ==
    /\ Idle
    /\ fresh' = FreshWithoutStamp
    /\ job' = Steps["ps"]
    /\ goal' = "ps"
    /\ result' = "running"
    /\ env' = settings
    /\ UNCHANGED <<rdl, files, temporary, hw, app, builtVars>>

\* run_build: the settings of the candidate are in the environment.
RunBuild ==
    /\ tool = "build"
    /\ next <= Len(Candidates)
    /\ MakePs(Candidates[next])
    /\ tool' = "building"
    /\ UNCHANGED <<boundVars, reporting, next, guardDone, cellsLeft, row>>

BuildSucceeded ==
    /\ tool = "building" /\ Idle /\ result = "ok"
    /\ tool' = "measure"
    /\ cellsLeft' = ProfileCells + (IF guardDone THEN 0 ELSE 1)
    /\ guardDone' = TRUE
    /\ UNCHANGED <<buildVars, boundVars, reporting, next, row>>

\* The candidate gets a row that says so, and the next one is tried.
BuildFailed ==
    /\ tool = "building" /\ Idle /\ result = "failed"
    /\ tool' = "build"
    /\ next' = next + 1
    /\ row' = [claimed |-> Candidates[next], class |-> "unsupported"]
    /\ UNCHANGED <<buildVars, boundVars, reporting, guardDone, cellsLeft>>

Measured(claimed) ==
    [claimed |-> claimed, class |-> "measured", elf |-> elf, bit |-> bit]

\* run_cell: strict_classify looks only at what was measured.
RunCell ==
    /\ tool = "measure"
    /\ cellsLeft > 0
    /\ row' = Measured(Candidates[next])
    /\ cellsLeft' = cellsLeft - 1
    /\ UNCHANGED <<buildVars, boundVars, tool, reporting, next, guardDone>>

NextCandidate ==
    /\ tool = "measure"
    /\ cellsLeft = 0
    /\ tool' = "build"
    /\ next' = next + 1
    /\ UNCHANGED <<buildVars, boundVars, reporting, guardDone, cellsLeft, row>>

ProfileDone ==
    /\ tool = "build"
    /\ next > Len(Candidates)
    /\ \/ ~reporting /\ EndTool
       \/ /\ reporting /\ tool' = "default"
          /\ UNCHANGED <<buildVars, boundVars, reporting, next, guardDone, cellsLeft, row>>

-----------------------------------------------------------------------------
BuildDefault ==
    /\ tool = "default"
    /\ MakePs(Default)
    /\ tool' = "default building"
    /\ UNCHANGED <<boundVars, reporting, next, guardDone, cellsLeft, row>>

DefaultBuilt ==
    /\ tool = "default building" /\ Idle
    /\ \/ result = "failed" /\ EndTool
       \/ /\ result = "ok" /\ tool' = "ceiling" /\ cellsLeft' = CeilingCells
          /\ UNCHANGED <<buildVars, boundVars, reporting, next, guardDone, row>>

\* e131_benchmark.py --skip-build: what is there is measured.
CeilingCell ==
    /\ tool = "ceiling"
    /\ cellsLeft > 0
    /\ row' = Measured(Default)
    /\ cellsLeft' = cellsLeft - 1
    /\ UNCHANGED <<buildVars, boundVars, tool, reporting, next, guardDone>>

\* newest_dir and newest_benchmark_dir find what the tools have just written.
WriteReport ==
    /\ tool = "ceiling"
    /\ cellsLeft = 0
    /\ EndTool

Tool ==
    \/ StartProfile \/ StartReport \/ TestsPass
    \/ RunBuild \/ BuildSucceeded \/ BuildFailed
    \/ RunCell \/ NextCandidate \/ ProfileDone
    \/ BuildDefault \/ DefaultBuilt \/ CeilingCell \/ WriteReport
    \/ Abort

Next == Develop \/ DeveloperMakes \/ Make \/ Tool

Spec == Init /\ [][Next]_vars

-----------------------------------------------------------------------------
Versions == 1 .. MaxEdits + 1

Stored == Contracts \cup {Committed, Missing}
            \cup {ContentOf(c, "pl_control.h") : c \in Contracts \cup {Committed}}

Jobs == {"regs", "check", "hw", "ps", "boot", "none"}

TypeOK ==
    /\ rdl \in Contracts \cup {Committed}
    /\ files \in [Generated -> Stored] /\ temporary \in {Empty} \cup [Generated -> Stored]
    /\ fresh \subseteq Targets
    /\ hw \in Versions /\ app \in Versions
    /\ Len(job) <= 7 /\ goal \in Jobs
    /\ result \in {"none", "running", "ok", "failed"}
    /\ (result = "running") = (job # <<>>)
    /\ xsa # None => xsa \in [contract : Stored, map : Stored, hw : Versions]
    /\ "bitstream" \in fresh => bit # None
    /\ "xsa" \in fresh => xsa # None
    /\ "stamp" \in fresh => elf # None
    /\ next \in 0 .. Len(Candidates) + 1
    /\ cellsLeft \in 0 .. ProfileCells + CeilingCells + 1

(***************************************************************************)
(* A row measures the settings it names: the application that ran was      *)
(* built with the settings of the candidate, or with the defaults in the   *)
(* ceiling sweep, on the hardware of that build and from the sources as    *)
(* they are; though settings are no file make could compare, the candidate *)
(* before may have failed after its application was linked, and the        *)
(* newest application is used whoever built it.                            *)
(***************************************************************************)
CellMeasuresItsSettings ==
    tool # "none" /\ row # NoRow /\ row.class = "measured" =>
        /\ row.elf.lwip = row.claimed
        /\ row.elf.platform = row.bit
        /\ row.elf.app = app /\ row.elf.contract = rdl

=============================================================================

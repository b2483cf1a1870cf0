----------------------------- MODULE BuildFlow -----------------------------
(***************************************************************************)
(* The Makefile: regs, check, hw, ps and boot, with the recipes they run,  *)
(* Vivado's build.tcl, ps/scripts/create_app_vitis.py and                  *)
(* ps/scripts/package_boot.py.  One make runs at a time; any step of it    *)
(* may fail or be interrupted, and leaves behind what was done before.     *)
(*                                                                         *)
(* A make is the list of the steps before it.  A target already newer than *)
(* its prerequisites is skipped; Vitis builds into a new workspace each    *)
(* time, and of all workspaces the newest ELF files are used.              *)
(***************************************************************************)
EXTENDS GeneratedFiles

VARIABLES
    hw,       \* version of the hand-written hardware sources
    app,      \* version of the C sources
    job,      \* the steps left of the make that is running
    goal,     \* its target
    result,   \* "none" before, "ok" or "failed" after
    env,      \* lwIP settings in its environment
    bit,      \* the bitstream
    xsa,      \* the exported hardware
    fsbl,     \* the newest first stage boot loader
    elf,      \* the newest application
    image     \* BOOT.BIN

makeVars == <<job, goal, result, env>>
builtVars == <<bit, xsa, fsbl, elf, image>>
buildVars == <<fileVars, hw, app, makeVars, builtVars>>

None == [version |-> 0]

\* No lwIP setting in the environment: those of pl_config.py are used.
Default == "default"

Steps ==
    [ regs  |-> <<"generate", "pl_control.h", "pl_config.h", "pl_config.py",
                  "pl_config.tcl", "unlink", "rtl">>,
      check |-> <<"regs-check", "ssot-check", "tests">>,
      hw    |-> <<"regs-check", "xsa", "bitstream">>,
      ps    |-> <<"regs-check", "xsa", "bitstream", "stamp">>,
      boot  |-> <<"regs-check", "xsa", "bitstream", "stamp", "image">> ]

Idle == job = <<>>

BuildInit ==
    /\ rdl = Committed /\ files = Contents(Committed)
    /\ temporary = Empty
    /\ fresh = {}
    /\ hw = 1 /\ app = 1
    /\ job = <<>> /\ goal = "none" /\ result = "none" /\ env = Default
    /\ bit = None /\ xsa = None /\ fsbl = None /\ elf = None /\ image = None

StartMake(target, settings) ==
    /\ Idle
    /\ job' = Steps[target]
    /\ goal' = target
    /\ result' = "running"
    /\ env' = settings
    /\ UNCHANGED <<fileVars, hw, app, builtVars>>

\* The step at the head is done.
Done(step) ==
    /\ ~Idle /\ Head(job) = step
    /\ job' = Tail(job)
    /\ result' = IF Tail(job) = <<>> THEN "ok" ELSE result
    /\ UNCHANGED <<goal, env>>

\* A step becomes a list of smaller ones.
Becomes(step, steps) ==
    /\ ~Idle /\ Head(job) = step
    /\ job' = steps \o Tail(job)
    /\ UNCHANGED <<goal, env, result>>

\* A step fails by itself or is interrupted; a check may find a difference.
StepFails ==
    /\ ~Idle
    /\ job' = <<>>
    /\ result' = "failed"
    /\ temporary' = Empty
    /\ UNCHANGED <<goal, env, rdl, files, fresh, hw, app, builtVars>>

-----------------------------------------------------------------------------
GenerateStep ==
    /\ Done("generate")
    /\ GenerateInto
    /\ UNCHANGED <<rdl, files, fresh, hw, app, builtVars>>

CopyStep ==
    /\ \E i \in DOMAIN CopyOrder : Done(CopyOrder[i]) /\ CopyGenerated(CopyOrder[i])
    /\ UNCHANGED <<hw, app, builtVars>>

UnlinkStep ==
    /\ Done("unlink")
    /\ UnlinkRtl
    /\ UNCHANGED <<hw, app, builtVars>>

RegsCheck ==
    /\ Done("regs-check")
    /\ RegsCheckPasses
    /\ UNCHANGED <<fileVars, hw, app, builtVars>>

\* The scan for copied literals finds none, or the step fails.
SsotCheck ==
    /\ Done("ssot-check")
    /\ SsotFindings = {}
    /\ UNCHANGED <<fileVars, hw, app, builtVars>>

\* Host tests and RTL simulation only read.
RunTests == Done("tests") /\ UNCHANGED <<fileVars, hw, app, builtVars>>

-----------------------------------------------------------------------------
UpToDate ==
    /\ \E target \in Targets : target \in fresh /\ Done(target)
    /\ UNCHANGED <<fileVars, hw, app, builtVars>>

Written(target) == fresh' = FreshAfter({target}) \cup {target}

(***************************************************************************)
(* The recipe both hardware targets have.  The project is created anew,    *)
(* which deletes the old bitstream; the XSA is written last.               *)
(***************************************************************************)
CreateProject ==
    /\ \E target \in {"xsa", "bitstream"} :
        target \notin fresh /\ Becomes(target, <<"write bitstream", "export">>)
    /\ bit' = None
    /\ fresh' = fresh \ {"bitstream"}
    /\ UNCHANGED <<rdl, files, temporary, hw, app, xsa, fsbl, elf, image>>

Hardware == [contract |-> files["rtl"], map |-> files["pl_config.tcl"], hw |-> hw]

WriteBitstream ==
    /\ Done("write bitstream")
    /\ bit' = Hardware
    /\ Written("bitstream")
    /\ UNCHANGED <<rdl, files, temporary, hw, app, xsa, fsbl, elf, image>>

ExportXsa ==
    /\ Done("export")
    /\ xsa' = bit
    /\ Written("xsa")
    /\ UNCHANGED <<rdl, files, temporary, hw, app, bit, fsbl, elf, image>>

-----------------------------------------------------------------------------
(***************************************************************************)
(* create_app_vitis.py: the platform with its boot loader, then the        *)
(* application, then the stamp.                                            *)
(***************************************************************************)
\* Mutated: the stamp is touched first.
VitisStepsStampFirst == <<"touch", "platform", "application">>

VitisSteps == <<"platform", "application", "touch">>

RunVitis ==
    /\ "stamp" \notin fresh
    /\ Becomes("stamp", VitisSteps)
    /\ xsa # None
    /\ UNCHANGED <<fileVars, hw, app, builtVars>>

BuildPlatform ==
    /\ Done("platform")
    /\ fsbl' = [platform |-> xsa]
    /\ UNCHANGED <<fileVars, hw, app, bit, xsa, elf, image>>

BuildApplication ==
    /\ Done("application")
    /\ elf' = [ platform |-> xsa, app |-> app, registers |-> files["pl_control.h"],
                contract |-> files["pl_config.h"], defaults |-> files["pl_config.py"],
                lwip |-> env ]
    /\ UNCHANGED <<fileVars, hw, app, bit, xsa, fsbl, image>>

TouchStamp ==
    /\ Done("touch")
    /\ Written("stamp")
    /\ UNCHANGED <<rdl, files, temporary, hw, app, builtVars>>

\* package_boot.py: the newest of each; it needs all three.
PackageBoot ==
    /\ "image" \notin fresh
    /\ Done("image")
    /\ bit # None /\ fsbl # None /\ elf # None
    /\ image' = [bit |-> bit, fsbl |-> fsbl, elf |-> elf]
    /\ Written("image")
    /\ UNCHANGED <<rdl, files, temporary, hw, app, bit, xsa, fsbl, elf>>

MakeStep ==
    \/ GenerateStep \/ CopyStep \/ UnlinkStep
    \/ RegsCheck \/ SsotCheck \/ RunTests
    \/ UpToDate
    \/ CreateProject \/ WriteBitstream \/ ExportXsa
    \/ RunVitis \/ BuildPlatform \/ BuildApplication \/ TouchStamp
    \/ PackageBoot
    \/ StepFails

-----------------------------------------------------------------------------
(***************************************************************************)
(* The developer, between two commands: make takes a file edited while its *)
(* recipe runs for built, which nobody can repair here.                    *)
(***************************************************************************)
Edited == goal' = "none" /\ result' = "none" /\ UNCHANGED <<job, env>>

EditHardware ==
    /\ Idle
    /\ hw' = hw + 1
    /\ fresh' = FreshAfter({"hw"})
    /\ Edited
    /\ UNCHANGED <<rdl, files, temporary, app, builtVars>>

EditApplication ==
    /\ Idle
    /\ app' = app + 1
    /\ fresh' = FreshAfter({"app"})
    /\ Edited
    /\ UNCHANGED <<rdl, files, temporary, hw, builtVars>>

ChangeContract(c) ==
    /\ Idle
    /\ EditContract(c) \/ Checkout(c)
    /\ Edited
    /\ UNCHANGED <<hw, app, builtVars>>

-----------------------------------------------------------------------------
(***************************************************************************)
(* After a successful make boot the three parts of BOOT.BIN belong to each *)
(* other and to the sources: one hardware build, its boot loader, and an   *)
(* application compiled for it from the present contract.  This although   *)
(* the Makefile names neither pl_config.h, pl_config.py nor pl_config.tcl  *)
(* as a prerequisite, the newest files of all workspaces are taken one by  *)
(* one, and builds before may have failed halfway.                         *)
(***************************************************************************)
BootImageFitsTogether ==
    goal = "boot" /\ result = "ok" =>
        /\ image.bit = [contract |-> rdl, map |-> rdl, hw |-> hw]
        /\ image.fsbl.platform = image.bit
        /\ image.elf.platform = image.bit
        /\ image.elf.app = app
        /\ image.elf.registers = ContentOf(rdl, "pl_control.h")
        /\ image.elf.contract = rdl /\ image.elf.defaults = rdl

(***************************************************************************)
(* Whatever make regs left when it failed or was interrupted between two   *)
(* copies, nothing is built from a mixture: the hardware and the           *)
(* application each come from the files of one contract.                   *)
(***************************************************************************)
BuiltFromOneContract ==
    /\ bit # None => bit.contract = bit.map
    /\ elf # None =>
        /\ elf.contract = elf.defaults
        /\ elf.registers = ContentOf(elf.contract, "pl_control.h")
        /\ elf.platform.contract = elf.contract

(***************************************************************************)
(* The contract of every hardware that was built fits the widths and the   *)
(* apertures derived from it, at the limits of the aperture and of the     *)
(* powers of two as well.                                                  *)
(***************************************************************************)
BuiltContractFits == bit # None => Fits(bit.contract)

=============================================================================

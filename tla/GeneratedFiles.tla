--------------------------- MODULE GeneratedFiles ---------------------------
(***************************************************************************)
(* The files generated from the contract, and the two scripts about them:  *)
(* hw/regs/generate_regs.py, which writes or checks them, and              *)
(* hw/regs/ssot_check.py.  The files are kept in the repository next to    *)
(* the contract; their content is the contract they were generated from.   *)
(*                                                                         *)
(* Modification times are kept as the set of build targets newer than all  *)
(* their direct prerequisites: writing a file takes the targets that       *)
(* depend on it out of the set.                                            *)
(***************************************************************************)
EXTENDS RegisterContract, Sequences

VARIABLES
    rdl,        \* pl_control.rdl
    files,      \* the generated files, by kind
    temporary,  \* what generate() has put into the temporary directory
    fresh       \* the targets newer than their prerequisites

fileVars == <<rdl, files, temporary, fresh>>

Missing == [outputs |-> 0]
Empty == [file |-> "none"]

(***************************************************************************)
(* Kinds of generated files: pl_control.h, the three configurations, and   *)
(* the RTL (register file and contract package).                           *)
(***************************************************************************)
Configs == {"pl_config.h", "pl_config.py", "pl_config.tcl"}
Generated == Configs \cup {"pl_control.h", "rtl"}

\* pl_control.h holds the registers only: the other parameters are not in it.
ContentOf(c, file) ==
    IF file = "pl_control.h" THEN [c EXCEPT !.other = 0] ELSE c

Contents(c) == [file \in Generated |-> ContentOf(c, file)]

\* Mutated: the bitstream and the XSA do not depend on the generated RTL.
PrerequisitesWithoutRtl ==
    [ xsa |-> {"hw"}, bitstream |-> {"hw"},
      stamp |-> {"xsa", "bitstream", "app", "pl_control.h"}, image |-> {"stamp"} ]

(***************************************************************************)
(* Prerequisites of the Makefile.  "hw" is the hand-written RTL, the       *)
(* constraints and the Vivado scripts, "app" the C sources in ps/app; of   *)
(* the generated headers only pl_control.h lies where the wildcard looks.  *)
(***************************************************************************)
Prerequisites ==
    [ xsa |-> {"rtl", "hw"}, bitstream |-> {"rtl", "hw"},
      stamp |-> {"xsa", "bitstream", "app", "pl_control.h"}, image |-> {"stamp"} ]

Targets == DOMAIN Prerequisites

FreshAfter(written) == {t \in fresh : Prerequisites[t] \cap written = {}}

-----------------------------------------------------------------------------
\* The order of copy_generated.
CopyOrder ==
    <<"pl_control.h", "pl_config.h", "pl_config.py", "pl_config.tcl", "rtl">>

\* The directory is deleted at the end, whatever happened.
\* generate(): it reads the contract, and raises when it is not accepted.
GenerateInto == Accepted(rdl) /\ temporary' = Contents(rdl)

CopyGenerated(file) ==
    /\ files' = [files EXCEPT ![file] = temporary[file]]
    /\ fresh' = FreshAfter({file})
    /\ temporary' = IF file = "rtl" THEN Empty ELSE temporary
    /\ UNCHANGED rdl

\* The old RTL files are deleted before the new ones are copied.
UnlinkRtl ==
    /\ files' = [files EXCEPT !["rtl"] = Missing]
    /\ fresh' = FreshAfter({"rtl"})
    /\ UNCHANGED <<rdl, temporary>>

\* Mutated: the RTL directory is not compared.
DifferencesOfHeaders == {f \in Configs \cup {"pl_control.h"} : files[f] # ContentOf(rdl, f)}

\* check_generated
Differences == {f \in Generated : files[f] # ContentOf(rdl, f)}

RegsCheckPasses == Accepted(rdl) /\ Differences = {}

\* load_generated_contract: the three configurations and the contract.
SsotFindings ==
    {f \in Configs : \E g \in Configs : files[f] # files[g]}
        \cup {f \in Configs : files[f] # rdl}

-----------------------------------------------------------------------------
\* The developer edits the contract, or checks out a commit: git writes the
\* files whose content differs, and a commit holds all files of a contract.
EditContract(c) ==
    /\ c # rdl
    /\ rdl' = c
    /\ UNCHANGED <<files, temporary, fresh>>

Checkout(c) ==
    /\ Accepted(c)
    /\ rdl' = c
    /\ files' = Contents(c)
    /\ fresh' = FreshAfter({f \in Generated : files[f] # ContentOf(c, f)})
    /\ UNCHANGED temporary

=============================================================================

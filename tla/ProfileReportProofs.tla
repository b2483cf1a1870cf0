------------------------ MODULE ProfileReportProofs ------------------------
(***************************************************************************)
(* That an image and a measured cell belong together, after any number of  *)
(* edits, failed makes and profiles, and that what generate_regs.py        *)
(* accepts fits, for every contract.                                       *)
(***************************************************************************)
EXTENDS ProfileReport, SequenceTheorems, TLAPS

(***************************************************************************)
(* The inductive invariant.  What is fresh was made from what is there,    *)
(* except that pl_config.tcl is no prerequisite of the hardware.           *)
(***************************************************************************)
HardwareOfRtl == [contract |-> files["rtl"], map |-> files["rtl"], hw |-> hw]

ApplicationFits == elf # None /\ elf.platform = xsa /\ elf.app = app

FreshInv ==
    /\ "bitstream" \in fresh => bit = HardwareOfRtl
    /\ "xsa" \in fresh => xsa = HardwareOfRtl
    /\ "stamp" \in fresh => fsbl.platform = xsa /\ ApplicationFits
    /\ {"bitstream", "stamp", "image"} \subseteq fresh =>
          image = [bit |-> bit, fsbl |-> fsbl, elf |-> elf]

(***************************************************************************)
(* How far a make is, and what is known by then.                           *)
(***************************************************************************)
Checked == Accepted(rdl) /\ files = Contents(rdl)
HardwareBuilt == Checked /\ {"xsa", "bitstream"} \subseteq fresh
SoftwareBuilt == HardwareBuilt /\ "stamp" \in fresh
Packaged == SoftwareBuilt /\ "image" \in fresh

HardwareGoals == {"hw", "ps", "boot"}
SoftwareGoals == {"ps", "boot"}

\* What is left after the hardware, and after the software.
AfterHardware ==
    [hw |-> <<>>, ps |-> <<"stamp">>, boot |-> <<"stamp", "image">>][goal]

AfterSoftware == [ps |-> <<>>, boot |-> <<"image">>][goal]

MakesFiles ==
    \E i \in 1 .. Len(Steps[goal]) + 1 :
        /\ job = SubSeq(Steps[goal], i, Len(Steps[goal]))
        /\ goal = "regs" /\ i \in 2 .. 7 => temporary = Contents(rdl)

MakesHardware ==
    \/ job = <<"regs-check", "xsa", "bitstream">> \o AfterHardware
    \/ /\ Checked
       /\ \/ job = <<"xsa", "bitstream">> \o AfterHardware
          \/ job = <<"write bitstream", "export", "bitstream">> \o AfterHardware
          \/ /\ "bitstream" \in fresh
             /\ job = <<"export", "bitstream">> \o AfterHardware
          \/ /\ "xsa" \in fresh
             /\ \/ job = <<"bitstream">> \o AfterHardware
                \/ job = <<"write bitstream", "export">> \o AfterHardware
    \/ /\ HardwareBuilt
       /\ job = <<"export">> \o AfterHardware \/ job = AfterHardware

MakesSoftware ==
    \/ /\ HardwareBuilt /\ "stamp" \notin fresh
       /\ \/ job = <<"platform", "application", "touch">> \o AfterSoftware
          \/ /\ fsbl.platform = xsa
             /\ \/ job = <<"application", "touch">> \o AfterSoftware
                \/ /\ ApplicationFits /\ elf.lwip = env
                   /\ job = <<"touch">> \o AfterSoftware
    \/ SoftwareBuilt /\ job = AfterSoftware
    \/ goal = "boot" /\ Packaged /\ job = <<>>

MakeInv ==
    /\ (result = "running") = ~Idle
    /\ result \in {"running", "ok"} =>
          \/ goal \in {"regs", "check"} /\ MakesFiles
          \/ goal \in HardwareGoals /\ MakesHardware
          \/ goal \in SoftwareGoals /\ MakesSoftware

BuildInv ==
    FreshInv /\ MakeInv /\ BuiltFromOneContract /\ BuiltContractFits

(***************************************************************************)
(* Only the make of the tool runs beside it, and what it measures is the   *)
(* application of that make.                                               *)
(***************************************************************************)
BuildStages == {"building", "default building"}
MeasureStages == {"measure", "ceiling"}
OtherStages == {"none", "tests", "build", "default"}

ToolInv ==
    /\ tool \in BuildStages \cup MeasureStages \cup OtherStages
    /\ tool \notin BuildStages \cup {"none"} => Idle
    /\ tool \in {"building", "measure"} =>
          next <= Len(Candidates) /\ env = Candidates[next]
    /\ tool \in {"default building", "ceiling"} => env = Default
    /\ tool \in BuildStages \cup MeasureStages =>
          /\ goal = "ps"
          /\ "stamp" \in fresh => elf.lwip = env
    /\ tool \in MeasureStages => result = "ok"
    /\ tool # "none" => next >= 1

\* Every edit makes one version.
EditInv == edits \in 0 .. MaxEdits /\ hw <= edits + 1 /\ app <= edits + 1

ProfileInv ==
    TypeOK /\ BuildInv /\ ToolInv /\ EditInv /\ CellMeasuresItsSettings

-----------------------------------------------------------------------------
LEMMA CeilLog2Enough ==
    ASSUME NEW value \in Nat, value <= 2 ^ 30
    PROVE  CeilLog2(value) \in 0 .. 31 /\ value <= 2 ^ CeilLog2(value)
<1> DEFINE Step(g) ==
        [width \in 0 .. 31 |-> IF 2 ^ width >= value THEN width ELSE g[width + 1]]
           grow == CHOOSE g : g = Step(g)
           Enough(w) == {k \in w .. 31 : 2 ^ k >= value}
           Least(w) == CHOOSE k \in Enough(w) : \A j \in Enough(w) : k <= j
           least == [w \in 0 .. 31 |-> Least(w)]
           Ok(w) == grow[w] \in 0 .. 31 /\ 2 ^ grow[w] >= value
<1>1. CeilLog2(value) = grow[0]
  BY DEF CeilLog2
<1>2. least = Step(least)
  <2>1. ASSUME NEW w \in 0 .. 31, 2 ^ w >= value PROVE least[w] = w
    <3>1. w \in Enough(w) /\ \A j \in Enough(w) : w <= j
      BY <2>1
    <3>2. \A k \in Enough(w) : (\A j \in Enough(w) : k <= j) => k = w
      BY <3>1
    <3> QED
      BY <3>1, <3>2
  <2>2. ASSUME NEW w \in 0 .. 31, ~(2 ^ w >= value) PROVE least[w] = least[w + 1]
    <3>1. w # 31
      <4>1. 2 ^ 30 < 2 ^ 31 /\ 2 ^ 30 \in Int /\ 2 ^ 31 \in Int
        BY SMT
      <4>2. value <= 2 ^ 31
        BY <4>1, SMT
      <4> QED
        BY <2>2, <4>2
    <3>2. Enough(w) = Enough(w + 1) /\ w + 1 \in 0 .. 31
      BY <2>2, <3>1
    <3> HIDE DEF Enough
    <3>3. /\ least[w] = CHOOSE k \in Enough(w) : \A j \in Enough(w) : k <= j
          /\ least[w + 1] =
                CHOOSE k \in Enough(w + 1) : \A j \in Enough(w + 1) : k <= j
      BY <3>2
    <3> QED
      BY <3>2, <3>3
  <2>3. \A w \in 0 .. 31 : Step(least)[w] = least[w]
    <3> HIDE DEF least
    <3> QED
      BY <2>1, <2>2
  <2>4. DOMAIN least = 0 .. 31 /\ DOMAIN Step(least) = 0 .. 31
    OBVIOUS
  <2>5. least = [w \in 0 .. 31 |-> least[w]]
    <3> HIDE DEF Least
    <3> QED
      OBVIOUS
  <2>6. Step(least) = [w \in 0 .. 31 |-> Step(least)[w]]
    <3> HIDE DEF least
    <3> QED
      OBVIOUS
  <2> HIDE DEF Step, least
  <2> QED
    BY <2>3, <2>5, <2>6
<1>3. grow = Step(grow)
  <2> HIDE DEF Step, least
  <2> QED
    BY <1>2
<1>4. \A w \in 0 .. 31 : grow[w] = IF 2 ^ w >= value THEN w ELSE grow[w + 1]
  <2> HIDE DEF grow
  <2> QED
    BY <1>3
<1> HIDE DEF grow
<1>5. Ok(30)
  <2>1. grow[30] = 30
    BY <1>4
  <2> QED
    BY <2>1
<1>6. ASSUME NEW w \in 0 .. 29, Ok(w + 1) PROVE Ok(w)
  <2>0. w \in 0 .. 31
    OBVIOUS
  <2>1. CASE 2 ^ w >= value
    <3>1. grow[w] = w
      BY <1>4, <2>0, <2>1
    <3> QED
      BY <2>0, <2>1, <3>1
  <2>2. CASE ~(2 ^ w >= value)
    <3>1. grow[w] = grow[w + 1]
      BY <1>4, <2>0, <2>2
    <3> QED
      BY <1>6, <3>1
  <2> QED
    BY <2>1, <2>2
<1> HIDE DEF Ok
<1>7. \A w \in 0 .. 28 : Ok(w + 2) => Ok(w)
  <2> TAKE w \in 0 .. 28
  <2>1. Ok(w + 1 + 1) => Ok(w + 1)
    BY <1>6
  <2> QED
    BY <1>6, <2>1
<1>8. \A w \in 0 .. 26 : Ok(w + 4) => Ok(w)
  <2> TAKE w \in 0 .. 26
  <2>1. Ok(w + 2 + 2) => Ok(w + 2)
    BY <1>7
  <2> QED
    BY <1>7, <2>1
<1>9. \A w \in 0 .. 22 : Ok(w + 8) => Ok(w)
  <2> TAKE w \in 0 .. 22
  <2>1. Ok(w + 4 + 4) => Ok(w + 4)
    BY <1>8
  <2> QED
    BY <1>8, <2>1
<1>10. Ok(22 + 8) => Ok(22)
  BY <1>9
<1>11. Ok(14 + 8) => Ok(14)
  BY <1>9
<1>12. Ok(6 + 8) => Ok(6)
  BY <1>9
<1>13. Ok(2 + 4) => Ok(2)
  BY <1>8
<1>14. Ok(0 + 2) => Ok(0)
  BY <1>7
<1>15. Ok(0)
  BY <1>5, <1>10, <1>11, <1>12, <1>13, <1>14
<1> QED
  BY <1>1, <1>15 DEF Ok

(***************************************************************************)
(* A contract that is accepted fits what is derived from it.               *)
(***************************************************************************)
LEMMA AcceptedFits ==
    ASSUME NEW c \in Parameters, Accepted(c)
    PROVE  Fits(c)
<1>1. /\ c.outputs \in 0 .. 2 ^ 30 - 1 /\ c.pixels \in 0 .. 2 ^ 30 - 1
      /\ c.controlRange \in 0 .. 2 ^ 30 /\ c.ramRange \in 0 .. 2 ^ 30
      /\ c.banks \in Nat
  BY DEF Parameters
<1>2. \A k \in 0 .. 31 : 2 ^ k \in Int
  BY Z3
<1>3. \A value \in Nat : value <= 2 ^ 30 =>
          2 ^ CeilLog2(value) \in Int /\ value <= 2 ^ CeilLog2(value)
  BY <1>2, CeilLog2Enough
<1>4. 4 * (c.banks * (c.outputs * c.pixels)) <= 2 ^ CeilLog2(c.ramRange)
  <2>1. \A a, b \in Nat : (4 * a) * b = 4 * (a * b)
    OBVIOUS
  <2>2. c.outputs * c.pixels \in Nat
    BY <1>1
  <2>3. c.ramRange >= 4 * c.banks * (c.outputs * c.pixels)
    BY DEF Accepted, Required, Config
  <2>4. c.ramRange <= 2 ^ CeilLog2(c.ramRange) /\ 2 ^ CeilLog2(c.ramRange) \in Int
    BY <1>1, <1>2, <1>3
  <2>5. c.banks * (c.outputs * c.pixels) \in Nat
    BY <1>1, <2>2
  <2> QED
    BY <1>1, <2>1, <2>2, <2>3, <2>4, <2>5
<1>5. ControlSize(c) <= 2 ^ CeilLog2(c.controlRange)
  <2>1. ControlSize(c) \in Nat /\ ControlSize(c) <= c.controlRange
    BY <1>1 DEF Accepted, Required, ControlSize, MaskWordCount, OutputInvertMaskOffset
  <2> QED
    BY <1>1, <1>2, <1>3, <2>1
<1>6. c.outputs < 2 ^ ActiveOutputWidth(c)
  BY <1>1, <1>2, <1>3 DEF ActiveOutputWidth
<1>7. c.outputs - 1 < 2 ^ CeilLog2(c.outputs) /\ c.pixels < 2 ^ CeilLog2(c.pixels + 1)
  BY <1>1, <1>2, <1>3
<1>8. c.outputs <= 32 * MaskWordCount(c)
  BY <1>1 DEF MaskWordCount
<1> QED
  BY <1>4, <1>5, <1>6, <1>7, <1>8 DEF Fits, Config

-----------------------------------------------------------------------------
LEMMA Front ==
    ASSUME NEW S, NEW a \in S, NEW s \in Seq(S)
    PROVE  /\ <<a>> \o s \in Seq(S)
           /\ <<a>> \o s # <<>>
           /\ Head(<<a>> \o s) = a
           /\ Tail(<<a>> \o s) = s
<1> DEFINE all == <<a>> \o s
<1>1. <<a>> \in Seq(S) /\ Len(<<a>>) = 1 /\ <<a>>[1] = a
  OBVIOUS
<1>2. /\ all \in Seq(S)
      /\ Len(all) = 1 + Len(s)
      /\ \A i \in 1 .. 1 + Len(s) : all[i] = IF i <= 1 THEN <<a>>[i] ELSE s[i - 1]
  BY <1>1, ConcatProperties
<1>3. Len(s) \in Nat
  OBVIOUS
<1> HIDE DEF all
<1>4. all # <<>> /\ all[1] = a
  BY <1>1, <1>2, <1>3
<1>5. Head(all) = a
  BY <1>2, <1>4
<1>6. Tail(all) = s
  <2>1. /\ Tail(all) \in Seq(S)
        /\ Len(Tail(all)) = Len(all) - 1
        /\ \A i \in 1 .. Len(Tail(all)) : Tail(all)[i] = all[i + 1]
    BY <1>2, <1>4, HeadTailProperties
  <2>2. \A i \in 1 .. Len(s) : all[i + 1] = s[i]
    BY <1>2, <1>3
  <2> QED
    BY <1>2, <1>3, <2>1, <2>2, SeqEqual
<1> QED
  BY <1>2, <1>4, <1>5, <1>6 DEF all

LEMMA OneStep ==
    ASSUME NEW S, NEW a \in S
    PROVE  <<a>> \in Seq(S) /\ <<>> \in Seq(S) /\ <<a>> = <<a>> \o <<>>
<1>1. <<a>> \in Seq(S) /\ <<>> \in Seq(S)
  OBVIOUS
<1> QED
  BY <1>1, ConcatEmptySeq

LEMMA TwoSteps ==
    ASSUME NEW S, NEW a \in S, NEW b \in S
    PROVE  <<a, b>> \in Seq(S) /\ <<a, b>> = <<a>> \o <<b>>
<1>1. /\ <<a>> \in Seq(S) /\ <<b>> \in Seq(S) /\ <<a, b>> \in Seq(S)
      /\ Len(<<a>>) = 1 /\ Len(<<b>>) = 1 /\ Len(<<a, b>>) = 2
      /\ <<a, b>>[1] = a /\ <<a, b>>[2] = b /\ <<a>>[1] = a /\ <<b>>[1] = b
  OBVIOUS
<1> DEFINE one == <<a>>
           two == <<b>>
           both == <<a, b>>
<1> HIDE DEF one, two, both
<1>2. /\ one \in Seq(S) /\ two \in Seq(S) /\ both \in Seq(S)
      /\ Len(one) = 1 /\ Len(two) = 1 /\ Len(both) = 2
      /\ both[1] = a /\ both[2] = b /\ one[1] = a /\ two[1] = b
  BY <1>1 DEF one, two, both
<1>3. /\ one \o two \in Seq(S) /\ Len(one \o two) = Len(one) + Len(two)
      /\ \A i \in 1 .. Len(one) + Len(two) : (one \o two)[i] =
            IF i <= Len(one) THEN one[i] ELSE two[i - Len(one)]
  BY <1>2, ConcatProperties
<1>4. both = one \o two
  BY <1>2, <1>3, SeqEqual
<1> QED
  BY <1>4 DEF one, two, both

LEMMA Split2 ==
    ASSUME NEW S, NEW a \in S, NEW b \in S, NEW s \in Seq(S)
    PROVE  <<a, b>> \o s = <<a>> \o (<<b>> \o s)
<1>1. <<a>> \in Seq(S) /\ <<b>> \in Seq(S) /\ <<a, b>> = <<a>> \o <<b>>
  BY OneStep, TwoSteps
<1> QED
  BY <1>1, ConcatAssociative

LEMMA SuffixOf ==
    ASSUME NEW S, NEW s \in Seq(S), NEW i \in 1 .. Len(s)
    PROVE  /\ SubSeq(s, i, Len(s)) # <<>>
           /\ Head(SubSeq(s, i, Len(s))) = s[i]
           /\ Tail(SubSeq(s, i, Len(s))) = SubSeq(s, i + 1, Len(s))
<1>1. Len(s) \in i .. Len(s) /\ Len(s) \in Nat
  OBVIOUS
<1>2. /\ Head(SubSeq(s, i, Len(s))) = s[i]
      /\ Tail(SubSeq(s, i, Len(s))) = SubSeq(s, i + 1, Len(s))
  BY <1>1, HeadTailOfSubSeq
<1>3. SubSeq(s, i, Len(s)) = <<s[i]>> \o SubSeq(s, i + 1, Len(s))
  BY <1>1, SubSeqRecursiveFirst
<1>4. s[i] \in S /\ SubSeq(s, i + 1, Len(s)) \in Seq(S)
  <2>1. \A j \in i + 1 .. Len(s) : s[j] \in S
    OBVIOUS
  <2> QED
    BY <1>1, <2>1, SubSeqProperties
<1> QED
  BY <1>2, <1>3, <1>4, Front

-----------------------------------------------------------------------------
(***************************************************************************)
(* Where a make is.                                                        *)
(***************************************************************************)
StepNames ==
    { "generate", "pl_control.h", "pl_config.h", "pl_config.py", "pl_config.tcl",
      "unlink", "rtl", "regs-check", "ssot-check", "tests", "xsa", "bitstream",
      "stamp", "image", "write bitstream", "export", "platform", "application",
      "touch" }

LEMMA Names ==
    /\ "regs-check" \in StepNames /\ "xsa" \in StepNames
    /\ "bitstream" \in StepNames /\ "stamp" \in StepNames
    /\ "image" \in StepNames /\ "write bitstream" \in StepNames
    /\ "export" \in StepNames /\ "platform" \in StepNames
    /\ "application" \in StepNames /\ "touch" \in StepNames
  BY DEF StepNames

LEMMA StepsTyped ==
    /\ Steps["regs"] \in Seq(StepNames) /\ Len(Steps["regs"]) = 7
    /\ Steps["check"] \in Seq(StepNames) /\ Len(Steps["check"]) = 3
<1>1. /\ Steps["regs"] = <<"generate", "pl_control.h", "pl_config.h", "pl_config.py",
                           "pl_config.tcl", "unlink", "rtl">>
      /\ Steps["check"] = <<"regs-check", "ssot-check", "tests">>
  BY DEF Steps
<1> QED
  BY <1>1 DEF StepNames

\* What is left begins with a step, and the rest is behind it.
Starts(left, step, rest) == left # <<>> /\ Head(left) = step /\ Tail(left) = rest

LEMMA Push ==
    \A a \in Seq(StepNames) : \A x, y, z \in StepNames :
        /\ <<x>> \o a \in Seq(StepNames)
        /\ Starts(<<x>> \o a, x, a)
        /\ <<x, y>> \o a \in Seq(StepNames)
        /\ Starts(<<x, y>> \o a, x, <<y>> \o a)
        /\ Starts(<<x, y, z>> \o a, x, <<y, z>> \o a)
<1> TAKE a \in Seq(StepNames)
<1> TAKE x, y, z \in StepNames
<1>1. \A b \in Seq(StepNames), w \in StepNames :
          <<w>> \o b \in Seq(StepNames) /\ Starts(<<w>> \o b, w, b)
  BY Front DEF Starts
<1>2. <<x, y>> \o a = <<x>> \o (<<y>> \o a)
  BY Split2
<1>3. <<x, y, z>> \o a = <<x>> \o (<<y, z>> \o a)
  <2>1. <<x, y, z>> = <<x>> \o <<y, z>>
    OBVIOUS
  <2>2. <<x>> \in Seq(StepNames) /\ <<y, z>> \in Seq(StepNames)
    OBVIOUS
  <2> QED
    BY <2>1, <2>2, ConcatAssociative
<1>4. <<y, z>> \o a = <<y>> \o (<<z>> \o a)
  BY Split2
<1>5. /\ <<y>> \o a \in Seq(StepNames) /\ <<y, z>> \o a \in Seq(StepNames)
      /\ <<x>> \o a \in Seq(StepNames) /\ Starts(<<x>> \o a, x, a)
  BY <1>1, <1>4
<1> QED
  BY <1>1, <1>2, <1>3, <1>5

LEMMA Shapes ==
    ASSUME NEW a \in Seq(StepNames)
    PROVE  /\ Starts(<<"regs-check", "xsa", "bitstream">> \o a,
                     "regs-check", <<"xsa", "bitstream">> \o a)
           /\ Starts(<<"xsa", "bitstream">> \o a, "xsa", <<"bitstream">> \o a)
           /\ Starts(<<"write bitstream", "export", "bitstream">> \o a,
                     "write bitstream", <<"export", "bitstream">> \o a)
           /\ Starts(<<"export", "bitstream">> \o a, "export", <<"bitstream">> \o a)
           /\ Starts(<<"bitstream">> \o a, "bitstream", a)
           /\ Starts(<<"write bitstream", "export">> \o a,
                     "write bitstream", <<"export">> \o a)
           /\ Starts(<<"export">> \o a, "export", a)
           /\ Starts(<<"stamp">> \o a, "stamp", a)
           /\ Starts(<<"platform", "application", "touch">> \o a,
                     "platform", <<"application", "touch">> \o a)
           /\ Starts(<<"application", "touch">> \o a, "application", <<"touch">> \o a)
           /\ Starts(<<"touch">> \o a, "touch", a)
  BY Names, Push, Zenon

LEMMA WhatFollows ==
    /\ goal \in HardwareGoals => AfterHardware \in Seq(StepNames)
    /\ goal = "hw" => AfterHardware = <<>>
    /\ goal \in SoftwareGoals =>
          /\ AfterSoftware \in Seq(StepNames)
          /\ AfterHardware = <<"stamp">> \o AfterSoftware
    /\ goal = "ps" => AfterSoftware = <<>>
    /\ goal = "boot" => AfterSoftware = <<"image">>
<1>1. CASE goal = "hw"
  <2>1. AfterHardware = <<>>
    BY <1>1 DEF AfterHardware
  <2> QED
    BY <1>1, <2>1 DEF HardwareGoals, SoftwareGoals
<1>2. CASE goal = "ps"
  <2>1. AfterHardware = <<"stamp">> /\ AfterSoftware = <<>>
    BY <1>2 DEF AfterHardware, AfterSoftware
  <2>2. /\ <<"stamp">> \in Seq(StepNames) /\ <<>> \in Seq(StepNames)
        /\ <<"stamp">> = <<"stamp">> \o <<>>
    BY Names, OneStep
  <2> QED
    BY <1>2, <2>1, <2>2 DEF HardwareGoals, SoftwareGoals
<1>3. CASE goal = "boot"
  <2>1. AfterHardware = <<"stamp", "image">> /\ AfterSoftware = <<"image">>
    BY <1>3 DEF AfterHardware, AfterSoftware
  <2>2. /\ <<"image">> \in Seq(StepNames) /\ <<>> \in Seq(StepNames)
        /\ <<"image">> = <<"image">> \o <<>>
    BY Names, OneStep
  <2>3. <<"stamp", "image">> = <<"stamp">> \o <<"image">>
    BY <2>2, Names, TwoSteps, Zenon
  <2>4. <<"stamp", "image">> \in Seq(StepNames)
    BY <2>2, Names, TwoSteps, Zenon
  <2> QED
    BY <1>3, <2>1, <2>2, <2>3, <2>4 DEF HardwareGoals, SoftwareGoals
<1> QED
  BY <1>1, <1>2, <1>3 DEF HardwareGoals, SoftwareGoals

Before(step, rest) == Starts(job, step, rest)

FilesStage(i) ==
    LET steps == Steps[goal]
    IN  /\ goal \in {"regs", "check"}
        /\ i \in 1 .. Len(steps)
        /\ Before(steps[i], SubSeq(steps, i + 1, Len(steps)))
        /\ goal = "regs" /\ i \in 2 .. 7 => temporary = Contents(rdl)

HardwareStage ==
    /\ goal \in HardwareGoals
    /\ \/ Before("regs-check", <<"xsa", "bitstream">> \o AfterHardware)
       \/ /\ Checked
          /\ \/ Before("xsa", <<"bitstream">> \o AfterHardware)
             \/ Before("write bitstream", <<"export", "bitstream">> \o AfterHardware)
             \/ /\ "bitstream" \in fresh
                /\ Before("export", <<"bitstream">> \o AfterHardware)
             \/ /\ "xsa" \in fresh
                /\ \/ Before("bitstream", AfterHardware)
                   \/ Before("write bitstream", <<"export">> \o AfterHardware)
       \/ HardwareBuilt /\ Before("export", AfterHardware)

SoftwareStage ==
    /\ goal \in SoftwareGoals
    /\ HardwareBuilt
    /\ \/ Before("stamp", AfterSoftware)
       \/ /\ "stamp" \notin fresh
          /\ \/ Before("platform", <<"application", "touch">> \o AfterSoftware)
             \/ /\ fsbl.platform = xsa
                /\ \/ Before("application", <<"touch">> \o AfterSoftware)
                   \/ /\ ApplicationFits /\ elf.lwip = env
                      /\ Before("touch", AfterSoftware)
       \/ SoftwareBuilt /\ goal = "boot" /\ Before("image", <<>>)

LEMMA StageOfMake ==
    ASSUME MakeInv, ~Idle
    PROVE  /\ result = "running"
           /\ (\E i \in 1 .. 7 : FilesStage(i)) \/ HardwareStage \/ SoftwareStage
<1>1. /\ result = "running"
      /\ \/ goal \in {"regs", "check"} /\ MakesFiles
         \/ goal \in HardwareGoals /\ MakesHardware
         \/ goal \in SoftwareGoals /\ MakesSoftware
  BY DEF MakeInv
<1>2. ASSUME goal \in {"regs", "check"}, MakesFiles
      PROVE  \E i \in 1 .. 7 : FilesStage(i)
  <2> DEFINE steps == Steps[goal]
  <2>1. steps \in Seq(StepNames) /\ Len(steps) \in {3, 7}
    BY <1>2, StepsTyped
  <2>2. PICK i \in 1 .. Len(steps) + 1 :
            /\ i \in 1 .. Len(steps) + 1
            /\ job = SubSeq(steps, i, Len(steps))
            /\ goal = "regs" /\ i \in 2 .. 7 => temporary = Contents(rdl)
    BY <1>2 DEF MakesFiles
  <2> HIDE DEF steps
  <2>3. i # Len(steps) + 1
    <3>1. Len(steps) < Len(steps) + 1 /\ Len(steps) \in Int /\ Len(steps) + 1 \in Int
      BY <2>1
    <3>2. SubSeq(steps, Len(steps) + 1, Len(steps)) = <<>>
      BY <3>1, SubSeqEmpty
    <3> QED
      BY <2>2, <3>2 DEF Idle
  <2>4. i \in 1 .. Len(steps) /\ i \in 1 .. 7
    <3>1. Len(steps) = 3 \/ Len(steps) = 7
      BY <2>1
    <3> QED
      BY <2>2, <2>3, <3>1
  <2>5. Before(steps[i], SubSeq(steps, i + 1, Len(steps)))
    BY <2>1, <2>2, <2>4, SuffixOf DEF Before, Starts
  <2> QED
    BY <1>2, <2>2, <2>4, <2>5 DEF FilesStage, steps
<1>3. ASSUME goal \in SoftwareGoals, HardwareBuilt, job = AfterHardware
      PROVE  SoftwareStage
  <2>1. Before("stamp", AfterSoftware)
    BY <1>3, WhatFollows, Shapes DEF Before
  <2> QED
    BY <1>3, <2>1 DEF SoftwareStage
<1>4. ASSUME goal \in HardwareGoals, MakesHardware
      PROVE  HardwareStage \/ SoftwareStage
  <2>1. AfterHardware \in Seq(StepNames)
    BY <1>4, WhatFollows
  <2>2. CASE HardwareBuilt /\ job = AfterHardware
    <3>1. goal # "hw"
      BY <2>2, WhatFollows DEF Idle
    <3> QED
      BY <1>3, <1>4, <2>2, <3>1 DEF HardwareGoals, SoftwareGoals
  <2>3. CASE ~(HardwareBuilt /\ job = AfterHardware)
    <3> HIDE DEF HardwareBuilt, Checked
    <3> QED
      BY <1>4, <2>1, <2>3, Shapes, Zenon DEF MakesHardware, HardwareStage, Before
  <2> QED
    BY <2>2, <2>3
<1>5. ASSUME goal \in SoftwareGoals, MakesSoftware
      PROVE  SoftwareStage
  <2>1. AfterSoftware \in Seq(StepNames)
    BY <1>5, WhatFollows
  <2>2. CASE SoftwareBuilt /\ job = AfterSoftware
    <3>1. goal # "ps"
      BY <2>2, WhatFollows DEF Idle
    <3>2. goal = "boot" /\ job = <<"image">>
      BY <1>5, <2>2, <3>1, WhatFollows DEF SoftwareGoals
    <3>3. Before("image", <<>>)
      BY <3>2 DEF Before, Starts
    <3> QED
      BY <1>5, <2>2, <3>2, <3>3 DEF SoftwareStage, SoftwareBuilt
  <2>3. CASE ~(SoftwareBuilt /\ job = AfterSoftware)
    <3>1. ~(goal = "boot" /\ Packaged /\ job = <<>>)
      BY DEF Idle
    <3> QED
      BY <1>5, <2>1, <2>3, <3>1, Shapes, Zenon DEF MakesSoftware, SoftwareStage, Before
  <2> QED
    BY <2>2, <2>3
<1> QED
  BY <1>1, <1>2, <1>4, <1>5

LEMMA FilesSteps ==
    /\ \A i \in 1 .. 7 :
          /\ Steps["regs"][i] \in {"generate", "unlink"} \cup Generated
          /\ (Steps["regs"][i] = "generate") <=> (i = 1)
          /\ (Steps["regs"][i] = "unlink") <=> (i = 6)
          /\ (Steps["regs"][i] = "rtl") <=> (i = 7)
    /\ \A i \in 1 .. 3 : Steps["check"][i] \in {"regs-check", "ssot-check", "tests"}
<1>1. /\ Steps["regs"] = <<"generate", "pl_control.h", "pl_config.h", "pl_config.py",
                           "pl_config.tcl", "unlink", "rtl">>
      /\ Steps["check"] = <<"regs-check", "ssot-check", "tests">>
  BY DEF Steps
<1>2. ASSUME NEW i \in 1 .. 7
      PROVE  /\ Steps["regs"][i] \in {"generate", "unlink"} \cup Generated
             /\ (Steps["regs"][i] = "generate") <=> (i = 1)
             /\ (Steps["regs"][i] = "unlink") <=> (i = 6)
             /\ (Steps["regs"][i] = "rtl") <=> (i = 7)
  <2>1. i = 1 \/ i = 2 \/ i = 3 \/ i = 4 \/ i = 5 \/ i = 6 \/ i = 7
    OBVIOUS
  <2> QED
    BY <1>1, <2>1 DEF Generated, Configs
<1>3. ASSUME NEW i \in 1 .. 3
      PROVE  Steps["check"][i] \in {"regs-check", "ssot-check", "tests"}
  <2>1. i = 1 \/ i = 2 \/ i = 3
    OBVIOUS
  <2> QED
    BY <1>1, <2>1
<1> QED
  BY <1>2, <1>3

LEMMA StageOfFiles ==
    ASSUME NEW i \in 1 .. 7, FilesStage(i)
    PROVE  /\ goal = "regs" =>
                /\ Len(Steps[goal]) = 7
                /\ Head(job) \in {"generate", "unlink"} \cup Generated
                /\ (Head(job) = "generate") <=> (i = 1)
                /\ (Head(job) = "unlink") <=> (i = 6)
                /\ (Head(job) = "rtl") <=> (i = 7)
           /\ goal # "regs" =>
                goal = "check" /\ Head(job) \in {"regs-check", "ssot-check", "tests"}
<1>1. CASE goal = "regs"
  <2>1. Head(job) = Steps["regs"][i] /\ Len(Steps[goal]) = 7
    BY <1>1, StepsTyped DEF FilesStage, Before, Starts
  <2> QED
    BY <1>1, <2>1, FilesSteps
<1>2. CASE goal = "check"
  <2>1. i \in 1 .. 3
    BY <1>2, StepsTyped DEF FilesStage
  <2> QED
    BY <1>2, <2>1, FilesSteps DEF FilesStage, Before, Starts
<1> QED
  BY <1>1, <1>2 DEF FilesStage

LEMMA FilesStep ==
    ASSUME NEW i \in 1 .. 7, FilesStage(i),
           job' = Tail(job), goal' = goal, (result' = "running") = ~Idle',
           goal = "regs" /\ i + 1 \in 2 .. 7 => temporary' = Contents(rdl)'
    PROVE  MakeInv'
<1>1. /\ goal \in {"regs", "check"} /\ i + 1 \in 1 .. Len(Steps[goal]) + 1
      /\ job' = SubSeq(Steps[goal], i + 1, Len(Steps[goal]))
  BY StepsTyped DEF FilesStage, Before, Starts
<1>2. MakesFiles'
  BY <1>1 DEF MakesFiles
<1> QED
  BY <1>1, <1>2 DEF MakeInv

\* A hardware or software step leaves what the next one begins with.
LEMMA SameGoal ==
    ASSUME goal' = goal
    PROVE  AfterHardware' = AfterHardware /\ AfterSoftware' = AfterSoftware
  BY DEF AfterHardware, AfterSoftware

LEMMA JobIsShort == MakeInv => Len(job) <= 7
<1> SUFFICES ASSUME MakeInv PROVE Len(job) <= 7
  OBVIOUS
<1>1. CASE Idle
  BY <1>1 DEF Idle
<1>2. CASE ~Idle
  <2> DEFINE Short(a) == a \in Seq(StepNames) /\ Len(a) <= 2
  <2>1. ASSUME NEW a \in Seq(StepNames), Len(a) <= 2
        PROVE  /\ Len(<<"regs-check", "xsa", "bitstream">> \o a) <= 7
               /\ Len(<<"write bitstream", "export", "bitstream">> \o a) <= 7
               /\ Len(<<"platform", "application", "touch">> \o a) <= 7
               /\ Len(<<"xsa", "bitstream">> \o a) <= 7
               /\ Len(<<"export", "bitstream">> \o a) <= 7
               /\ Len(<<"write bitstream", "export">> \o a) <= 7
               /\ Len(<<"application", "touch">> \o a) <= 7
               /\ Len(<<"bitstream">> \o a) <= 7
               /\ Len(<<"export">> \o a) <= 7
               /\ Len(<<"touch">> \o a) <= 7
    <3>1. Len(a) \in Nat
      OBVIOUS
    <3>2. ASSUME NEW b \in Seq(StepNames), Len(b) <= 3
          PROVE  Len(b \o a) <= 7
      BY <2>1, <3>1, <3>2, ConcatProperties
    <3>3. ASSUME NEW x \in StepNames, NEW y \in StepNames, NEW z \in StepNames
          PROVE  /\ <<x>> \in Seq(StepNames) /\ Len(<<x>>) <= 3
                 /\ <<x, y>> \in Seq(StepNames) /\ Len(<<x, y>>) <= 3
                 /\ <<x, y, z>> \in Seq(StepNames) /\ Len(<<x, y, z>>) <= 3
      OBVIOUS
    <3>4. \A x, y, z \in StepNames :
              /\ Len(<<x>> \o a) <= 7 /\ Len(<<x, y>> \o a) <= 7
              /\ Len(<<x, y, z>> \o a) <= 7
      BY <3>2, <3>3
    <3> QED
      BY <3>4, Names, Zenon
  <2>2. goal \in HardwareGoals =>
            /\ AfterHardware \in Seq(StepNames) /\ Len(AfterHardware) <= 2
            /\ Len(AfterHardware) <= 7
    <3>1. CASE goal = "hw"
      BY <3>1, WhatFollows
    <3>2. CASE goal = "ps"
      <4>1. AfterHardware = <<"stamp">>
        BY <3>2 DEF AfterHardware
      <4> QED
        BY <3>2, <4>1, WhatFollows DEF HardwareGoals
    <3>3. CASE goal = "boot"
      <4>1. AfterHardware = <<"stamp", "image">>
        BY <3>3 DEF AfterHardware
      <4> QED
        BY <3>3, <4>1, WhatFollows DEF HardwareGoals
    <3> QED
      BY <3>1, <3>2, <3>3 DEF HardwareGoals
  <2>3. goal \in SoftwareGoals =>
            /\ AfterSoftware \in Seq(StepNames) /\ Len(AfterSoftware) <= 2
            /\ Len(AfterSoftware) <= 7
    BY WhatFollows DEF SoftwareGoals
  <2>4. goal \in {"regs", "check"} /\ MakesFiles => Len(job) <= 7
    <3> SUFFICES ASSUME goal \in {"regs", "check"}, MakesFiles PROVE Len(job) <= 7
      OBVIOUS
    <3> DEFINE steps == Steps[goal]
    <3>1. steps \in Seq(StepNames) /\ Len(steps) \in {3, 7}
      BY StepsTyped
    <3>2. PICK i \in 1 .. Len(steps) + 1 : job = SubSeq(steps, i, Len(steps))
      BY DEF MakesFiles
    <3> HIDE DEF steps
    <3>3. i \in Int /\ Len(steps) \in Int /\ \A j \in i .. Len(steps) : steps[j] \in StepNames
      BY <3>1, <3>2
    <3>4. Len(job) = IF i <= Len(steps) THEN Len(steps) - i + 1 ELSE 0
      BY <3>2, <3>3, SubSeqProperties
    <3>5. Len(steps) = 3 \/ Len(steps) = 7
      BY <3>1
    <3> QED
      BY <3>2, <3>4, <3>5
  <2>5. result = "running"
    BY <1>2, StageOfMake
  <2>6. goal \in HardwareGoals /\ MakesHardware => Len(job) <= 7
    BY <2>1, <2>2, Zenon DEF MakesHardware
  <2>7. goal \in SoftwareGoals /\ MakesSoftware => Len(job) <= 7
    BY <1>2, <2>1, <2>3, Zenon DEF MakesSoftware, Idle
  <2> QED
    BY <2>4, <2>5, <2>6, <2>7 DEF MakeInv
<1> QED
  BY <1>1, <1>2

LEMMA FreshFacts ==
    ASSUME fresh \subseteq Targets, NEW w
    PROVE  /\ FreshAfter(w) \subseteq fresh
           /\ "rtl" \in w \/ "hw" \in w =>
                "xsa" \notin FreshAfter(w) /\ "bitstream" \notin FreshAfter(w)
           /\ "xsa" \in w \/ "bitstream" \in w \/ "app" \in w =>
                "stamp" \notin FreshAfter(w)
           /\ "stamp" \in w => "image" \notin FreshAfter(w)
           /\ "rtl" \notin w /\ "hw" \notin w =>
                fresh \cap {"xsa", "bitstream"} \subseteq FreshAfter(w)
<1>1. /\ Prerequisites["xsa"] = {"rtl", "hw"}
      /\ Prerequisites["bitstream"] = {"rtl", "hw"}
      /\ Prerequisites["stamp"] = {"xsa", "bitstream", "app", "pl_control.h"}
      /\ Prerequisites["image"] = {"stamp"}
  BY DEF Prerequisites
<1> QED
  BY <1>1 DEF FreshAfter

LEMMA FreshAfterImage ==
    ASSUME fresh \subseteq Targets
    PROVE  FreshAfter({"image"}) = fresh
<1>1. ASSUME NEW t \in Targets PROVE "image" \notin Prerequisites[t]
  BY DEF Targets, Prerequisites
<1> QED
  BY <1>1 DEF FreshAfter

-----------------------------------------------------------------------------
(***************************************************************************)
(* What a step of a make keeps.                                            *)
(***************************************************************************)
Records == [contract : Stored, map : Stored, hw : Versions]

Kept ==
    /\ fresh' \subseteq Targets
    /\ xsa' # None => xsa' \in Records
    /\ FreshInv' /\ BuiltFromOneContract' /\ BuiltContractFits'
    /\ "stamp" \in fresh' => ("stamp" \in fresh /\ elf' = elf) \/ elf'.lwip = env

LEMMA NothingBuilt ==
    ASSUME TypeOK, BuildInv,
           bit' = bit, xsa' = xsa, fsbl' = fsbl, elf' = elf, image' = image,
           fresh' \subseteq fresh,
           "xsa" \in fresh' \/ "bitstream" \in fresh' =>
                files'["rtl"] = files["rtl"] /\ hw' = hw,
           "stamp" \in fresh' => app' = app
    PROVE  Kept
<1>1. FreshInv /\ BuiltFromOneContract /\ BuiltContractFits
  BY DEF BuildInv
<1>2. fresh' \subseteq Targets /\ (xsa' # None => xsa' \in Records)
  BY DEF TypeOK, Records
<1>3. "xsa" \in fresh' \/ "bitstream" \in fresh' => HardwareOfRtl' = HardwareOfRtl
  BY DEF HardwareOfRtl
<1>4. "stamp" \in fresh' => (ApplicationFits' <=> ApplicationFits)
  BY DEF ApplicationFits
<1>5. FreshInv'
  BY <1>1, <1>3, <1>4 DEF FreshInv
<1>6. BuiltFromOneContract' /\ BuiltContractFits'
  BY <1>1 DEF BuiltFromOneContract, BuiltContractFits
<1> QED
  BY <1>2, <1>5, <1>6 DEF Kept

LEMMA HardwareTyped ==
    ASSUME TypeOK
    PROVE  HardwareOfRtl \in Records /\ HardwareOfRtl # None
<1>1. files["rtl"] \in Stored /\ hw \in Versions
  BY DEF TypeOK, Generated
<1>2. DOMAIN HardwareOfRtl = {"contract", "map", "hw"} /\ DOMAIN None = {"version"}
  BY DEF HardwareOfRtl, None
<1>3. HardwareOfRtl # None
  BY <1>2
<1> QED
  BY <1>1, <1>3 DEF HardwareOfRtl, Records

LEMMA CheckedHardware ==
    ASSUME Checked
    PROVE  /\ files["rtl"] = rdl /\ files["pl_config.tcl"] = rdl
           /\ files["pl_config.h"] = rdl /\ files["pl_config.py"] = rdl
           /\ files["pl_control.h"] = ContentOf(rdl, "pl_control.h")
           /\ Hardware = HardwareOfRtl
           /\ HardwareOfRtl = [contract |-> rdl, map |-> rdl, hw |-> hw]
<1>1. /\ files["rtl"] = rdl /\ files["pl_config.tcl"] = rdl
      /\ files["pl_config.h"] = rdl /\ files["pl_config.py"] = rdl
      /\ files["pl_control.h"] = ContentOf(rdl, "pl_control.h")
  BY DEF Checked, Contents, ContentOf, Generated, Configs
<1> QED
  BY <1>1 DEF Hardware, HardwareOfRtl

\* A step that is done, whatever it did.
LEMMA DoneOrNot ==
    ASSUME MakeInv, NEW step, Done(step)
    PROVE  /\ ~Idle /\ Head(job) = step /\ job' = Tail(job)
           /\ goal' = goal /\ env' = env
           /\ result = "running" /\ result' \in {"running", "ok"}
           /\ (result' = "running") = ~Idle'
<1>1. ~Idle /\ result = "running"
  BY StageOfMake DEF Done
<1>2. result' = IF job' = <<>> THEN "ok" ELSE "running"
  BY <1>1 DEF Done
<1> QED
  BY <1>1, <1>2 DEF Done, Idle

-----------------------------------------------------------------------------
(***************************************************************************)
(* The steps that only write or compare the generated files.               *)
(***************************************************************************)
FileTypes ==
    /\ files \in [Generated -> Stored]
    /\ temporary \in {Empty} \cup [Generated -> Stored]

BuildStep ==
    FileTypes' /\ result' \in {"running", "ok", "failed"} /\ MakeInv' /\ Kept

LEMMA ContentsTyped ==
    ASSUME NEW c \in Contracts \cup {Committed}
    PROVE  Contents(c) \in [Generated -> Stored]
<1>1. c \in Stored /\ ContentOf(c, "pl_control.h") \in Stored
  BY DEF Stored
<1>2. \A f \in Generated : ContentOf(c, f) \in Stored
  BY <1>1 DEF ContentOf
<1> QED
  BY <1>2 DEF Contents

LEMMA GenerateKeeps == TypeOK /\ BuildInv /\ GenerateStep => BuildStep
<1> SUFFICES ASSUME TypeOK, BuildInv, GenerateStep PROVE BuildStep
  OBVIOUS
<1>1. MakeInv /\ Done("generate") /\ temporary' = Contents(rdl)
  BY DEF BuildInv, GenerateStep, GenerateInto
<1>2. /\ rdl' = rdl /\ files' = files /\ fresh' = fresh /\ hw' = hw /\ app' = app
      /\ bit' = bit /\ xsa' = xsa /\ fsbl' = fsbl /\ elf' = elf /\ image' = image
  BY DEF GenerateStep, GenerateInto, builtVars
<1>3. Kept
  BY <1>2, NothingBuilt
<1>4. /\ ~Idle /\ Head(job) = "generate" /\ job' = Tail(job) /\ goal' = goal
      /\ result' \in {"running", "ok"} /\ (result' = "running") = ~Idle'
  BY <1>1, DoneOrNot
<1>5. PICK i \in 1 .. 7 : FilesStage(i)
  BY <1>1, <1>4, StageOfMake DEF HardwareStage, SoftwareStage, Before, Starts
<1>6. MakeInv'
  <2>1. Contents(rdl)' = Contents(rdl)
    BY <1>2 DEF Contents, ContentOf
  <2> QED
    BY <1>1, <1>4, <1>5, <2>1, FilesStep
<1>7. FileTypes'
  BY <1>1, <1>2, ContentsTyped DEF TypeOK, FileTypes
<1> QED
  BY <1>3, <1>4, <1>6, <1>7 DEF BuildStep

LEMMA CopyKeeps == TypeOK /\ BuildInv /\ CopyStep => BuildStep
<1> SUFFICES ASSUME TypeOK, BuildInv, CopyStep PROVE BuildStep
  OBVIOUS
<1>1. PICK file \in Generated : Done(file) /\ CopyGenerated(file)
  <2>1. PICK i \in DOMAIN CopyOrder : Done(CopyOrder[i]) /\ CopyGenerated(CopyOrder[i])
    BY DEF CopyStep
  <2>2. CopyOrder[i] \in Generated
    BY DEF CopyOrder, Generated, Configs
  <2> QED
    BY <2>1, <2>2
<1>2. /\ hw' = hw /\ app' = app /\ rdl' = rdl
      /\ bit' = bit /\ xsa' = xsa /\ fsbl' = fsbl /\ elf' = elf /\ image' = image
      /\ files' = [files EXCEPT ![file] = temporary[file]]
      /\ fresh' = FreshAfter({file})
      /\ temporary' = IF file = "rtl" THEN Empty ELSE temporary
  BY <1>1 DEF CopyStep, CopyGenerated, builtVars
<1>3. MakeInv
  BY DEF BuildInv
<1>4. /\ ~Idle /\ Head(job) = file /\ job' = Tail(job) /\ goal' = goal
      /\ result' \in {"running", "ok"} /\ (result' = "running") = ~Idle'
  BY <1>1, <1>3, DoneOrNot
<1>5. file \notin {"regs-check", "ssot-check", "tests", "xsa", "bitstream",
      "stamp", "image", "write bitstream", "export", "platform", "application",
      "touch", "generate", "unlink"}
  BY DEF Generated, Configs
<1>6. PICK i \in 1 .. 7 : FilesStage(i)
  BY <1>3, <1>4, <1>5, StageOfMake DEF HardwareStage, SoftwareStage, Before, Starts
<1>7. goal = "regs" /\ i # 1 /\ ((file = "rtl") <=> (i = 7))
  BY <1>4, <1>5, <1>6, StageOfFiles
<1>8. temporary = Contents(rdl)
  BY <1>6, <1>7 DEF FilesStage
<1>9. MakeInv'
  <2>1. Contents(rdl)' = Contents(rdl)
    BY <1>2 DEF Contents, ContentOf
  <2> QED
    BY <1>2, <1>4, <1>6, <1>7, <1>8, <2>1, FilesStep
<1>10. FileTypes'
  <2>1. rdl \in Contracts \cup {Committed} /\ files \in [Generated -> Stored]
    BY DEF TypeOK
  <2>2. temporary \in [Generated -> Stored]
    BY <1>8, <2>1, ContentsTyped
  <2> QED
    BY <1>2, <2>1, <2>2 DEF FileTypes
<1>11. Kept
  <2>1. /\ fresh' \subseteq fresh
        /\ file = "rtl" => "xsa" \notin fresh' /\ "bitstream" \notin fresh'
    BY <1>2, FreshFacts DEF TypeOK
  <2>2. file # "rtl" => files'["rtl"] = files["rtl"]
    BY <1>2 DEF TypeOK, Generated
  <2> QED
    BY <1>2, <2>1, <2>2, NothingBuilt
<1> QED
  BY <1>4, <1>9, <1>10, <1>11 DEF BuildStep

LEMMA UnlinkKeeps == TypeOK /\ BuildInv /\ UnlinkStep => BuildStep
<1> SUFFICES ASSUME TypeOK, BuildInv, UnlinkStep PROVE BuildStep
  OBVIOUS
<1>1. /\ hw' = hw /\ app' = app /\ rdl' = rdl /\ temporary' = temporary
      /\ bit' = bit /\ xsa' = xsa /\ fsbl' = fsbl /\ elf' = elf /\ image' = image
      /\ files' = [files EXCEPT !["rtl"] = Missing]
      /\ fresh' = FreshAfter({"rtl"})
  BY DEF UnlinkStep, UnlinkRtl, builtVars
<1>2. MakeInv
  BY DEF BuildInv
<1>3. /\ ~Idle /\ Head(job) = "unlink" /\ job' = Tail(job) /\ goal' = goal
      /\ result' \in {"running", "ok"} /\ (result' = "running") = ~Idle'
  BY <1>2, DoneOrNot DEF UnlinkStep
<1>4. PICK i \in 1 .. 7 : FilesStage(i)
  BY <1>2, <1>3, StageOfMake DEF HardwareStage, SoftwareStage, Before, Starts
<1>5. goal = "regs" /\ i = 6
  BY <1>3, <1>4, StageOfFiles
<1>6. temporary = Contents(rdl)
  BY <1>4, <1>5 DEF FilesStage
<1>7. MakeInv'
  <2>1. Contents(rdl)' = Contents(rdl)
    BY <1>1 DEF Contents, ContentOf
  <2> QED
    BY <1>1, <1>3, <1>4, <1>5, <1>6, <2>1, FilesStep
<1>8. FileTypes'
  <2>1. Missing \in Stored
    BY DEF Stored
  <2> QED
    BY <1>1, <2>1 DEF FileTypes, TypeOK
<1>9. Kept
  <2>1. fresh' \subseteq fresh /\ "xsa" \notin fresh' /\ "bitstream" \notin fresh'
    BY <1>1, FreshFacts DEF TypeOK
  <2> QED
    BY <1>1, <2>1, NothingBuilt
<1> QED
  BY <1>3, <1>7, <1>8, <1>9 DEF BuildStep

\* Steps that leave files, sources and everything built alone.
Quiet ==
    /\ rdl' = rdl /\ files' = files /\ temporary' = temporary /\ fresh' = fresh
    /\ hw' = hw /\ app' = app
    /\ bit' = bit /\ xsa' = xsa /\ fsbl' = fsbl /\ elf' = elf /\ image' = image

LEMMA QuietKeeps ==
    ASSUME TypeOK, BuildInv, Quiet
    PROVE  /\ FileTypes' /\ Kept
           /\ Checked' = Checked /\ HardwareBuilt' = HardwareBuilt
           /\ SoftwareBuilt' = SoftwareBuilt /\ Packaged' = Packaged
<1>1. Kept
  BY NothingBuilt DEF Quiet
<1>2. FileTypes'
  BY DEF Quiet, TypeOK, FileTypes
<1>3. Accepted(rdl)' = Accepted(rdl) /\ Contents(rdl)' = Contents(rdl)
  BY DEF Quiet
<1>4. Checked' = Checked
  BY <1>3, Zenon DEF Quiet, Checked
<1>5. HardwareBuilt' = HardwareBuilt
  BY <1>4, Zenon DEF Quiet, HardwareBuilt
<1>6. SoftwareBuilt' = SoftwareBuilt
  BY <1>5, Zenon DEF Quiet, SoftwareBuilt
<1>7. Packaged' = Packaged
  BY <1>6, Zenon DEF Quiet, Packaged
<1> QED
  BY <1>1, <1>2, <1>4, <1>5, <1>6, <1>7

LEMMA HardwareMoves ==
    ASSUME goal \in HardwareGoals, goal' = goal, (result' = "running") = ~Idle',
           MakesHardware'
    PROVE  MakeInv'
  BY DEF MakeInv

LEMMA SoftwareMoves ==
    ASSUME goal \in SoftwareGoals, goal' = goal, (result' = "running") = ~Idle',
           MakesSoftware'
    PROVE  MakeInv'
  BY DEF MakeInv

LEMMA RegsCheckKeeps == TypeOK /\ BuildInv /\ RegsCheck => BuildStep
<1> SUFFICES ASSUME TypeOK, BuildInv, RegsCheck PROVE BuildStep
  OBVIOUS
<1>1. Quiet
  BY DEF RegsCheck, Quiet, fileVars, builtVars
<1>2. FileTypes' /\ Kept /\ Checked' = Checked
  BY <1>1, QuietKeeps
<1>3. MakeInv
  BY DEF BuildInv
<1>4. /\ ~Idle /\ Head(job) = "regs-check" /\ job' = Tail(job) /\ goal' = goal
      /\ result' \in {"running", "ok"} /\ (result' = "running") = ~Idle'
  BY <1>3, DoneOrNot DEF RegsCheck
<1>5. Checked
  <2>1. \A f \in Generated : files[f] = ContentOf(rdl, f)
    BY DEF RegsCheck, RegsCheckPasses, Differences
  <2>2. files = Contents(rdl)
    BY <2>1 DEF TypeOK, Contents
  <2> QED
    BY <2>2 DEF RegsCheck, RegsCheckPasses, Checked
<1>6. \/ \E i \in 1 .. 7 : FilesStage(i)
      \/ /\ goal \in HardwareGoals
         /\ Tail(job) = <<"xsa", "bitstream">> \o AfterHardware
  BY <1>3, <1>4, StageOfMake DEF HardwareStage, SoftwareStage, Before, Starts
<1>7. ASSUME NEW i \in 1 .. 7, FilesStage(i) PROVE MakeInv'
  <2>1. goal # "regs"
    BY <1>4, <1>7, StageOfFiles DEF Generated, Configs
  <2> QED
    BY <1>4, <1>7, <2>1, FilesStep
<1>8. ASSUME goal \in HardwareGoals,
             Tail(job) = <<"xsa", "bitstream">> \o AfterHardware
      PROVE  MakeInv'
  <2>1. MakesHardware'
    <3>1. Checked'
      BY <1>2, <1>5
    <3>2. job' = <<"xsa", "bitstream">> \o AfterHardware'
      BY <1>4, <1>8, SameGoal
    <3> QED
      BY <3>1, <3>2, Zenon DEF MakesHardware
  <2> QED
    BY <1>4, <1>8, <2>1, HardwareMoves
<1> QED
  BY <1>2, <1>4, <1>6, <1>7, <1>8 DEF BuildStep

LEMMA SsotOrTestsKeep == TypeOK /\ BuildInv /\ (SsotCheck \/ RunTests) => BuildStep
<1> SUFFICES ASSUME TypeOK, BuildInv, SsotCheck \/ RunTests PROVE BuildStep
  OBVIOUS
<1>1. Quiet
  BY DEF SsotCheck, RunTests, Quiet, fileVars, builtVars
<1>2. FileTypes' /\ Kept
  BY <1>1, QuietKeeps
<1>3. MakeInv
  BY DEF BuildInv
<1>4. PICK step \in {"ssot-check", "tests"} : Done(step)
  BY DEF SsotCheck, RunTests
<1>5. /\ ~Idle /\ Head(job) = step /\ job' = Tail(job) /\ goal' = goal
      /\ result' \in {"running", "ok"} /\ (result' = "running") = ~Idle'
  BY <1>3, <1>4, DoneOrNot
<1>6. PICK i \in 1 .. 7 : FilesStage(i)
  BY <1>3, <1>5, StageOfMake DEF HardwareStage, SoftwareStage, Before, Starts
<1>7. goal # "regs"
  BY <1>5, <1>6, StageOfFiles DEF Generated, Configs
<1>8. MakeInv'
  BY <1>5, <1>6, <1>7, FilesStep
<1> QED
  BY <1>2, <1>5, <1>8 DEF BuildStep

-----------------------------------------------------------------------------
(***************************************************************************)
(* The hardware.                                                           *)
(***************************************************************************)
\* None of these steps is one of make regs or make check.
LEMMA NotOfFiles ==
    ASSUME MakeInv, ~Idle,
           Head(job) \in {"xsa", "bitstream", "stamp", "image", "write bitstream",
                         "export", "platform", "application", "touch"}
    PROVE  HardwareStage \/ SoftwareStage
  BY StageOfMake, StageOfFiles DEF Generated, Configs

LEMMA UpToDateKeeps == TypeOK /\ BuildInv /\ UpToDate => BuildStep
<1> SUFFICES ASSUME TypeOK, BuildInv, UpToDate PROVE BuildStep
  OBVIOUS
<1>1. Quiet
  BY DEF UpToDate, Quiet, fileVars, builtVars
<1>2. /\ FileTypes' /\ Kept /\ Checked' = Checked /\ HardwareBuilt' = HardwareBuilt
      /\ SoftwareBuilt' = SoftwareBuilt /\ Packaged' = Packaged
  BY <1>1, QuietKeeps
<1>3. MakeInv
  BY DEF BuildInv
<1>4. PICK target \in {"xsa", "bitstream", "stamp", "image"} :
          target \in fresh /\ Done(target)
  BY DEF UpToDate, Targets, Prerequisites
<1>5. /\ ~Idle /\ Head(job) = target /\ job' = Tail(job) /\ goal' = goal
      /\ result' \in {"running", "ok"} /\ (result' = "running") = ~Idle'
  BY <1>3, <1>4, DoneOrNot
<1>6. HardwareStage \/ SoftwareStage
  BY <1>3, <1>5, NotOfFiles
<1>7. ASSUME target = "xsa" PROVE MakeInv'
  <2>1. goal \in HardwareGoals /\ Checked /\ job' = <<"bitstream">> \o AfterHardware
    BY <1>5, <1>6, <1>7 DEF HardwareStage, SoftwareStage, Before, Starts
  <2>2. Checked' /\ "xsa" \in fresh' /\ job' = <<"bitstream">> \o AfterHardware'
    BY <1>1, <1>2, <1>4, <1>5, <1>7, <2>1, SameGoal DEF Quiet
  <2>3. MakesHardware'
    BY <2>2, Zenon DEF MakesHardware
  <2> QED
    BY <1>5, <2>1, <2>3, HardwareMoves
<1>8. ASSUME target = "bitstream" PROVE MakeInv'
  <2>1. /\ goal \in HardwareGoals /\ Checked /\ "xsa" \in fresh
        /\ job' = AfterHardware
    BY <1>5, <1>6, <1>8 DEF HardwareStage, SoftwareStage, Before, Starts
  <2>2. HardwareBuilt' /\ job' = AfterHardware'
    BY <1>2, <1>4, <1>5, <1>8, <2>1, SameGoal DEF HardwareBuilt
  <2>3. MakesHardware'
    BY <2>2, Zenon DEF MakesHardware
  <2> QED
    BY <1>5, <2>1, <2>3, HardwareMoves
<1>9. ASSUME target = "stamp" PROVE MakeInv'
  <2>1. goal \in SoftwareGoals /\ HardwareBuilt /\ job' = AfterSoftware
    BY <1>5, <1>6, <1>9 DEF HardwareStage, SoftwareStage, Before, Starts
  <2>2. SoftwareBuilt' /\ job' = AfterSoftware'
    BY <1>2, <1>4, <1>5, <1>9, <2>1, SameGoal DEF SoftwareBuilt
  <2>3. MakesSoftware'
    BY <2>2, Zenon DEF MakesSoftware
  <2> QED
    BY <1>5, <2>1, <2>3, SoftwareMoves
<1>10. ASSUME target = "image" PROVE MakeInv'
  <2>1. goal = "boot" /\ SoftwareBuilt /\ job' = <<>>
    BY <1>5, <1>6, <1>10 DEF HardwareStage, SoftwareStage, Before, Starts
  <2>2. goal' = "boot" /\ Packaged' /\ job' = <<>>
    BY <1>2, <1>4, <1>5, <1>10, <2>1 DEF Packaged
  <2>3. MakesSoftware'
    BY <2>2, Zenon DEF MakesSoftware
  <2> QED
    BY <1>5, <2>1, <2>3, SoftwareMoves DEF SoftwareGoals
<1>11. MakeInv'
  BY <1>7, <1>8, <1>9, <1>10
<1> QED
  BY <1>2, <1>5, <1>11 DEF BuildStep

LEMMA Joined ==
    ASSUME NEW a \in Seq(StepNames)
    PROVE  <<"write bitstream", "export">> \o (<<"bitstream">> \o a)
             = <<"write bitstream", "export", "bitstream">> \o a
<1>1. ASSUME NEW x \in StepNames, NEW y \in StepNames, NEW z \in StepNames
      PROVE  <<x, y>> \o (<<z>> \o a) = <<x, y, z>> \o a
  <2>1. <<x, y, z>> = <<x, y>> \o <<z>>
    OBVIOUS
  <2>2. <<x, y>> \in Seq(StepNames) /\ <<z>> \in Seq(StepNames)
    OBVIOUS
  <2> QED
    BY <2>1, <2>2, ConcatAssociative
<1>2. PICK x, y, z \in StepNames :
          x = "write bitstream" /\ y = "export" /\ z = "bitstream"
  BY Names
<1>3. <<x, y>> \o (<<z>> \o a) = <<x, y, z>> \o a
  BY <1>1
<1>4. <<x, y>> = <<"write bitstream", "export">> /\ <<z>> = <<"bitstream">>
      /\ <<x, y, z>> = <<"write bitstream", "export", "bitstream">>
  BY <1>2
<1> QED
  BY <1>3, <1>4

LEMMA CreateProjectKeeps == TypeOK /\ BuildInv /\ CreateProject => BuildStep
<1> SUFFICES ASSUME TypeOK, BuildInv, CreateProject PROVE BuildStep
  OBVIOUS
<1>1. /\ rdl' = rdl /\ files' = files /\ temporary' = temporary
      /\ hw' = hw /\ app' = app /\ goal' = goal /\ env' = env /\ result' = result
      /\ xsa' = xsa /\ fsbl' = fsbl /\ elf' = elf /\ image' = image
      /\ bit' = None /\ fresh' = fresh \ {"bitstream"}
  BY DEF CreateProject, Becomes
<1>2. PICK target \in {"xsa", "bitstream"} :
          /\ ~Idle /\ Head(job) = target
          /\ job' = <<"write bitstream", "export">> \o Tail(job)
  BY DEF CreateProject, Becomes
<1>3. /\ MakeInv /\ FreshInv /\ BuiltFromOneContract /\ BuiltContractFits
      /\ result = "running"
  BY <1>2, StageOfMake DEF BuildInv
<1>4. FileTypes'
  BY <1>1 DEF TypeOK, FileTypes
<1>5. Kept
  <2>1. HardwareOfRtl' = HardwareOfRtl /\ (ApplicationFits' <=> ApplicationFits)
    BY <1>1 DEF HardwareOfRtl, ApplicationFits
  <2>2. FreshInv'
    BY <1>1, <1>3, <2>1 DEF FreshInv
  <2>3. BuiltFromOneContract' /\ BuiltContractFits'
    BY <1>1, <1>3 DEF BuiltFromOneContract, BuiltContractFits
  <2> QED
    BY <1>1, <2>2, <2>3 DEF Kept, TypeOK, Records
<1>6. HardwareStage \/ SoftwareStage
  BY <1>2, <1>3, NotOfFiles
<1>7. goal \in HardwareGoals /\ AfterHardware \in Seq(StepNames) /\ Checked
  BY <1>2, <1>6, WhatFollows DEF HardwareStage, SoftwareStage, Before, Starts
<1>8. Checked'
  BY <1>1, <1>7 DEF Checked, Contents, ContentOf
<1>9. ASSUME target = "xsa"
      PROVE  MakeInv'
  <2>1. job' = <<"write bitstream", "export">> \o (<<"bitstream">> \o AfterHardware)
    BY <1>2, <1>6, <1>9 DEF HardwareStage, SoftwareStage, Before, Starts
  <2>2. job' = <<"write bitstream", "export", "bitstream">> \o AfterHardware'
    BY <1>1, <1>7, <2>1, Joined, SameGoal
  <2>3. ~Idle'
    BY <1>1, <1>7, <2>2, SameGoal, Shapes DEF Idle, Starts
  <2>4. MakesHardware'
    BY <1>8, <2>2, Zenon DEF MakesHardware
  <2> QED
    BY <1>1, <1>3, <1>7, <2>3, <2>4, HardwareMoves
<1>10. ASSUME target = "bitstream"
       PROVE  MakeInv'
  <2>1. /\ job' = <<"write bitstream", "export">> \o AfterHardware
        /\ "xsa" \in fresh
    BY <1>2, <1>6, <1>10 DEF HardwareStage, SoftwareStage, Before, Starts
  <2>2. /\ job' = <<"write bitstream", "export">> \o AfterHardware'
        /\ "xsa" \in fresh'
    BY <1>1, <2>1, SameGoal
  <2>3. ~Idle'
    BY <1>1, <1>7, <2>2, SameGoal, Shapes DEF Idle, Starts
  <2>4. MakesHardware'
    BY <1>8, <2>2, Zenon DEF MakesHardware
  <2> QED
    BY <1>1, <1>3, <1>7, <2>3, <2>4, HardwareMoves
<1> QED
  BY <1>1, <1>2, <1>3, <1>4, <1>5, <1>9, <1>10 DEF BuildStep

LEMMA WriteBitstreamKeeps == TypeOK /\ BuildInv /\ WriteBitstream => BuildStep
<1> SUFFICES ASSUME TypeOK, BuildInv, WriteBitstream PROVE BuildStep
  OBVIOUS
<1>1. /\ rdl' = rdl /\ files' = files /\ temporary' = temporary
      /\ hw' = hw /\ app' = app
      /\ xsa' = xsa /\ fsbl' = fsbl /\ elf' = elf /\ image' = image
      /\ bit' = Hardware /\ fresh' = FreshAfter({"bitstream"}) \cup {"bitstream"}
  BY DEF WriteBitstream, Written
<1>2. /\ MakeInv /\ FreshInv /\ BuiltFromOneContract /\ BuiltContractFits
  BY DEF BuildInv
<1>3. /\ ~Idle /\ Head(job) = "write bitstream" /\ job' = Tail(job) /\ goal' = goal
      /\ result' \in {"running", "ok"} /\ (result' = "running") = ~Idle'
  BY <1>2, DoneOrNot DEF WriteBitstream
<1>4. HardwareStage \/ SoftwareStage
  BY <1>2, <1>3, NotOfFiles
<1>5. /\ goal \in HardwareGoals /\ Checked
      /\ \/ job' = <<"export", "bitstream">> \o AfterHardware
         \/ "xsa" \in fresh /\ job' = <<"export">> \o AfterHardware
  BY <1>3, <1>4 DEF HardwareStage, SoftwareStage, Before, Starts
<1>6. Checked' /\ AfterHardware' = AfterHardware
  BY <1>1, <1>3, <1>5, SameGoal DEF Checked, Contents, ContentOf
<1>7. /\ fresh' \subseteq Targets /\ "stamp" \notin fresh' /\ "bitstream" \in fresh'
      /\ "xsa" \in fresh' <=> "xsa" \in fresh
  BY <1>1, FreshFacts DEF TypeOK, Targets, Prerequisites
<1>8. bit' = HardwareOfRtl /\ HardwareOfRtl' = HardwareOfRtl
  BY <1>1, <1>5, CheckedHardware DEF HardwareOfRtl
<1>9. MakeInv'
  <2>1. \/ "bitstream" \in fresh' /\ job' = <<"export", "bitstream">> \o AfterHardware'
        \/ HardwareBuilt' /\ job' = <<"export">> \o AfterHardware'
    BY <1>5, <1>6, <1>7 DEF HardwareBuilt
  <2>2. MakesHardware'
    BY <1>6, <2>1, Zenon DEF MakesHardware
  <2> QED
    BY <1>3, <1>5, <2>2, HardwareMoves
<1>10. Kept
  <2>1. FreshInv'
    BY <1>1, <1>2, <1>7, <1>8 DEF FreshInv
  <2>2. bit'.contract = rdl /\ bit'.map = rdl /\ Accepted(rdl) /\ rdl \in Parameters
    BY <1>5, <1>8, CheckedHardware, DerivedAsCommitted, ProfileAssumption
       DEF TypeOK, Checked
  <2>3. BuiltFromOneContract'
    BY <1>1, <1>2, <2>2 DEF BuiltFromOneContract
  <2>4. BuiltContractFits'
    BY <2>2, AcceptedFits DEF BuiltContractFits
  <2> QED
    BY <1>1, <1>7, <2>1, <2>3, <2>4 DEF Kept, TypeOK, Records
<1>11. FileTypes'
  BY <1>1 DEF TypeOK, FileTypes
<1> QED
  BY <1>3, <1>9, <1>10, <1>11 DEF BuildStep

LEMMA ExportXsaKeeps == TypeOK /\ BuildInv /\ ExportXsa => BuildStep
<1> SUFFICES ASSUME TypeOK, BuildInv, ExportXsa PROVE BuildStep
  OBVIOUS
<1>1. /\ rdl' = rdl /\ files' = files /\ temporary' = temporary
      /\ hw' = hw /\ app' = app
      /\ bit' = bit /\ fsbl' = fsbl /\ elf' = elf /\ image' = image
      /\ xsa' = bit /\ fresh' = FreshAfter({"xsa"}) \cup {"xsa"}
  BY DEF ExportXsa, Written
<1>2. /\ MakeInv /\ FreshInv /\ BuiltFromOneContract /\ BuiltContractFits
  BY DEF BuildInv
<1>3. /\ ~Idle /\ Head(job) = "export" /\ job' = Tail(job) /\ goal' = goal
      /\ result' \in {"running", "ok"} /\ (result' = "running") = ~Idle'
  BY <1>2, DoneOrNot DEF ExportXsa
<1>4. HardwareStage \/ SoftwareStage
  BY <1>2, <1>3, NotOfFiles
<1>5. /\ goal \in HardwareGoals /\ Checked /\ "bitstream" \in fresh
      /\ \/ job' = <<"bitstream">> \o AfterHardware
         \/ job' = AfterHardware
  BY <1>3, <1>4 DEF HardwareStage, SoftwareStage, Before, Starts, HardwareBuilt
<1>6. Checked' /\ AfterHardware' = AfterHardware
  BY <1>1, <1>3, <1>5, SameGoal DEF Checked, Contents, ContentOf
<1>7. /\ fresh' \subseteq Targets /\ "stamp" \notin fresh'
      /\ "bitstream" \in fresh' /\ "xsa" \in fresh'
  BY <1>1, <1>5, FreshFacts DEF TypeOK, Targets, Prerequisites
<1>8. bit = HardwareOfRtl /\ HardwareOfRtl' = HardwareOfRtl
  BY <1>1, <1>2, <1>5 DEF HardwareOfRtl, FreshInv
<1>9. MakeInv'
  <2>1. \/ Checked' /\ "xsa" \in fresh' /\ job' = <<"bitstream">> \o AfterHardware'
        \/ HardwareBuilt' /\ job' = AfterHardware'
    BY <1>5, <1>6, <1>7 DEF HardwareBuilt
  <2>2. MakesHardware'
    BY <1>6, <2>1, Zenon DEF MakesHardware
  <2> QED
    BY <1>3, <1>5, <2>2, HardwareMoves
<1>10. Kept
  <2>1. FreshInv'
    BY <1>1, <1>2, <1>7, <1>8 DEF FreshInv
  <2>2. BuiltFromOneContract' /\ BuiltContractFits'
    BY <1>1, <1>2 DEF BuiltFromOneContract, BuiltContractFits
  <2>3. xsa' \in Records
    BY <1>1, <1>8, HardwareTyped
  <2> QED
    BY <1>7, <2>1, <2>2, <2>3 DEF Kept
<1>11. FileTypes'
  BY <1>1 DEF TypeOK, FileTypes
<1> QED
  BY <1>3, <1>9, <1>10, <1>11 DEF BuildStep

-----------------------------------------------------------------------------
(***************************************************************************)
(* The software and the boot image.                                        *)
(***************************************************************************)
LEMMA RunVitisKeeps == TypeOK /\ BuildInv /\ RunVitis => BuildStep
<1> SUFFICES ASSUME TypeOK, BuildInv, RunVitis PROVE BuildStep
  OBVIOUS
<1>1. Quiet /\ goal' = goal /\ env' = env /\ result' = result
  BY DEF RunVitis, Becomes, Quiet, fileVars, builtVars
<1>2. FileTypes' /\ Kept /\ HardwareBuilt' = HardwareBuilt
  BY <1>1, QuietKeeps
<1>3. /\ ~Idle /\ Head(job) = "stamp" /\ job' = VitisSteps \o Tail(job)
      /\ "stamp" \notin fresh /\ MakeInv
  BY DEF RunVitis, Becomes, BuildInv
<1>4. result = "running" /\ (HardwareStage \/ SoftwareStage)
  BY <1>3, NotOfFiles, StageOfMake
<1>5. goal \in SoftwareGoals /\ HardwareBuilt /\ Tail(job) = AfterSoftware
  BY <1>3, <1>4 DEF HardwareStage, SoftwareStage, Before, Starts
<1>6. /\ job' = <<"platform", "application", "touch">> \o AfterSoftware'
      /\ HardwareBuilt' /\ "stamp" \notin fresh'
  BY <1>1, <1>2, <1>3, <1>5, SameGoal DEF VitisSteps, Quiet
<1>7. ~Idle'
  BY <1>1, <1>5, <1>6, SameGoal, WhatFollows, Shapes DEF Idle, Starts
<1>8. MakesSoftware'
  BY <1>6, Zenon DEF MakesSoftware
<1>9. MakeInv'
  BY <1>1, <1>4, <1>5, <1>7, <1>8, SoftwareMoves
<1> QED
  BY <1>1, <1>2, <1>4, <1>9 DEF BuildStep

LEMMA BuildPlatformKeeps == TypeOK /\ BuildInv /\ BuildPlatform => BuildStep
<1> SUFFICES ASSUME TypeOK, BuildInv, BuildPlatform PROVE BuildStep
  OBVIOUS
<1>1. /\ rdl' = rdl /\ files' = files /\ temporary' = temporary /\ fresh' = fresh
      /\ hw' = hw /\ app' = app
      /\ bit' = bit /\ xsa' = xsa /\ elf' = elf /\ image' = image
      /\ fsbl' = [platform |-> xsa]
  BY DEF BuildPlatform, fileVars
<1>2. /\ MakeInv /\ FreshInv /\ BuiltFromOneContract /\ BuiltContractFits
  BY DEF BuildInv
<1>3. /\ ~Idle /\ Head(job) = "platform" /\ job' = Tail(job) /\ goal' = goal
      /\ result' \in {"running", "ok"} /\ (result' = "running") = ~Idle'
  BY <1>2, DoneOrNot DEF BuildPlatform
<1>4. HardwareStage \/ SoftwareStage
  BY <1>2, <1>3, NotOfFiles
<1>5. /\ goal \in SoftwareGoals /\ HardwareBuilt /\ "stamp" \notin fresh
      /\ job' = <<"application", "touch">> \o AfterSoftware
  BY <1>3, <1>4 DEF HardwareStage, SoftwareStage, Before, Starts
<1>6. HardwareBuilt'
  BY <1>1, <1>5 DEF HardwareBuilt, Checked, Contents, ContentOf
<1>7. MakeInv'
  <2>1. /\ "stamp" \notin fresh' /\ fsbl'.platform = xsa'
        /\ job' = <<"application", "touch">> \o AfterSoftware'
    BY <1>1, <1>3, <1>5, SameGoal
  <2>2. MakesSoftware'
    BY <1>6, <2>1, Zenon DEF MakesSoftware
  <2> QED
    BY <1>3, <1>5, <2>2, SoftwareMoves
<1>8. Kept
  <2>1. HardwareOfRtl' = HardwareOfRtl
    BY <1>1 DEF HardwareOfRtl
  <2>2. FreshInv'
    BY <1>1, <1>2, <1>5, <2>1 DEF FreshInv
  <2>3. BuiltFromOneContract' /\ BuiltContractFits'
    BY <1>1, <1>2 DEF BuiltFromOneContract, BuiltContractFits
  <2> QED
    BY <1>1, <1>5, <2>2, <2>3 DEF Kept, TypeOK, Records
<1>9. FileTypes'
  BY <1>1 DEF TypeOK, FileTypes
<1> QED
  BY <1>3, <1>7, <1>8, <1>9 DEF BuildStep

LEMMA BuildApplicationKeeps == TypeOK /\ BuildInv /\ BuildApplication => BuildStep
<1> SUFFICES ASSUME TypeOK, BuildInv, BuildApplication PROVE BuildStep
  OBVIOUS
<1>1. /\ rdl' = rdl /\ files' = files /\ temporary' = temporary /\ fresh' = fresh
      /\ hw' = hw /\ app' = app
      /\ bit' = bit /\ xsa' = xsa /\ fsbl' = fsbl /\ image' = image
      /\ elf' = [ platform |-> xsa, app |-> app, registers |-> files["pl_control.h"],
                  contract |-> files["pl_config.h"], defaults |-> files["pl_config.py"],
                  lwip |-> env ]
  BY DEF BuildApplication, fileVars
<1>2. /\ MakeInv /\ FreshInv /\ BuiltFromOneContract /\ BuiltContractFits
  BY DEF BuildInv
<1>3. /\ ~Idle /\ Head(job) = "application" /\ job' = Tail(job) /\ goal' = goal
      /\ env' = env
      /\ result' \in {"running", "ok"} /\ (result' = "running") = ~Idle'
  BY <1>2, DoneOrNot DEF BuildApplication
<1>4. HardwareStage \/ SoftwareStage
  BY <1>2, <1>3, NotOfFiles
<1>5. /\ goal \in SoftwareGoals /\ HardwareBuilt /\ "stamp" \notin fresh
      /\ fsbl.platform = xsa
      /\ job' = <<"touch">> \o AfterSoftware
  BY <1>3, <1>4 DEF HardwareStage, SoftwareStage, Before, Starts
<1>6. HardwareBuilt'
  BY <1>1, <1>5 DEF HardwareBuilt, Checked, Contents, ContentOf
<1>7. ApplicationFits' /\ elf'.lwip = env'
  <2>1. DOMAIN elf' # DOMAIN None
    <3>1. "app" \in DOMAIN elf' /\ "app" \notin DOMAIN None
      BY <1>1 DEF None
    <3> QED
      BY <3>1
  <2>2. elf' # None' /\ elf'.platform = xsa' /\ elf'.app = app' /\ elf'.lwip = env'
    BY <1>1, <1>3, <2>1 DEF None
  <2> QED
    BY <2>2 DEF ApplicationFits
<1>8. MakeInv'
  <2>1. /\ "stamp" \notin fresh' /\ fsbl'.platform = xsa'
        /\ job' = <<"touch">> \o AfterSoftware'
    BY <1>1, <1>3, <1>5, SameGoal
  <2>2. MakesSoftware'
    BY <1>6, <1>7, <2>1, Zenon DEF MakesSoftware
  <2> QED
    BY <1>3, <1>5, <2>2, SoftwareMoves
<1>9. Kept
  <2>1. HardwareOfRtl' = HardwareOfRtl
    BY <1>1 DEF HardwareOfRtl
  <2>2. FreshInv'
    BY <1>1, <1>2, <1>5, <2>1 DEF FreshInv
  <2>3. BuiltContractFits'
    BY <1>1, <1>2 DEF BuiltContractFits
  <2>4. xsa.contract = rdl
    BY <1>2, <1>5, CheckedHardware DEF HardwareBuilt, FreshInv
  <2>5. /\ elf'.contract = rdl /\ elf'.defaults = rdl
        /\ elf'.registers = ContentOf(rdl, "pl_control.h")
        /\ elf'.platform.contract = rdl
    BY <1>1, <1>5, <2>4, CheckedHardware DEF HardwareBuilt
  <2>6. BuiltFromOneContract'
    BY <1>1, <1>2, <2>5 DEF BuiltFromOneContract, ContentOf
  <2> QED
    BY <1>1, <1>5, <2>2, <2>3, <2>6 DEF Kept, TypeOK, Records
<1>10. FileTypes'
  BY <1>1 DEF TypeOK, FileTypes
<1> QED
  BY <1>3, <1>8, <1>9, <1>10 DEF BuildStep

LEMMA TouchStampKeeps == TypeOK /\ BuildInv /\ TouchStamp => BuildStep
<1> SUFFICES ASSUME TypeOK, BuildInv, TouchStamp PROVE BuildStep
  OBVIOUS
<1>1. /\ rdl' = rdl /\ files' = files /\ temporary' = temporary
      /\ hw' = hw /\ app' = app
      /\ bit' = bit /\ xsa' = xsa /\ fsbl' = fsbl /\ elf' = elf /\ image' = image
      /\ fresh' = FreshAfter({"stamp"}) \cup {"stamp"}
  BY DEF TouchStamp, Written, builtVars
<1>2. /\ MakeInv /\ FreshInv /\ BuiltFromOneContract /\ BuiltContractFits
  BY DEF BuildInv
<1>3. /\ ~Idle /\ Head(job) = "touch" /\ job' = Tail(job) /\ goal' = goal
      /\ result' \in {"running", "ok"} /\ (result' = "running") = ~Idle'
  BY <1>2, DoneOrNot DEF TouchStamp
<1>4. HardwareStage \/ SoftwareStage
  BY <1>2, <1>3, NotOfFiles
<1>5. /\ goal \in SoftwareGoals /\ HardwareBuilt
      /\ fsbl.platform = xsa /\ ApplicationFits /\ elf.lwip = env
      /\ job' = AfterSoftware
  BY <1>3, <1>4 DEF HardwareStage, SoftwareStage, Before, Starts
<1>6. /\ fresh' \subseteq Targets /\ {"xsa", "bitstream", "stamp"} \subseteq fresh'
      /\ "image" \notin fresh'
      /\ "xsa" \in fresh /\ "bitstream" \in fresh
  BY <1>1, <1>5, FreshFacts DEF TypeOK, Targets, Prerequisites, HardwareBuilt
<1>7. Checked'
  BY <1>1, <1>5 DEF HardwareBuilt, Checked, Contents, ContentOf
<1>8. MakeInv'
  <2>1. SoftwareBuilt' /\ job' = AfterSoftware'
    BY <1>3, <1>5, <1>6, <1>7, SameGoal DEF SoftwareBuilt, HardwareBuilt
  <2>2. MakesSoftware'
    BY <2>1, Zenon DEF MakesSoftware
  <2> QED
    BY <1>3, <1>5, <2>2, SoftwareMoves
<1>9. Kept
  <2>1. HardwareOfRtl' = HardwareOfRtl /\ (ApplicationFits' <=> ApplicationFits)
    BY <1>1 DEF HardwareOfRtl, ApplicationFits
  <2>2. FreshInv'
    BY <1>1, <1>2, <1>5, <1>6, <2>1 DEF FreshInv
  <2>3. BuiltFromOneContract' /\ BuiltContractFits'
    BY <1>1, <1>2 DEF BuiltFromOneContract, BuiltContractFits
  <2> QED
    BY <1>1, <1>5, <1>6, <2>2, <2>3 DEF Kept, TypeOK, Records
<1>10. FileTypes'
  BY <1>1 DEF TypeOK, FileTypes
<1> QED
  BY <1>3, <1>8, <1>9, <1>10 DEF BuildStep

LEMMA PackageBootKeeps == TypeOK /\ BuildInv /\ PackageBoot => BuildStep
<1> SUFFICES ASSUME TypeOK, BuildInv, PackageBoot PROVE BuildStep
  OBVIOUS
<1>1. /\ rdl' = rdl /\ files' = files /\ temporary' = temporary
      /\ hw' = hw /\ app' = app
      /\ bit' = bit /\ xsa' = xsa /\ fsbl' = fsbl /\ elf' = elf
      /\ image' = [bit |-> bit, fsbl |-> fsbl, elf |-> elf]
      /\ fresh' = FreshAfter({"image"}) \cup {"image"}
  BY DEF PackageBoot, Written
<1>2. /\ MakeInv /\ FreshInv /\ BuiltFromOneContract /\ BuiltContractFits
  BY DEF BuildInv
<1>3. /\ ~Idle /\ Head(job) = "image" /\ job' = Tail(job) /\ goal' = goal
      /\ result' \in {"running", "ok"} /\ (result' = "running") = ~Idle'
  BY <1>2, DoneOrNot DEF PackageBoot
<1>4. HardwareStage \/ SoftwareStage
  BY <1>2, <1>3, NotOfFiles
<1>5. goal = "boot" /\ SoftwareBuilt /\ job' = <<>>
  BY <1>3, <1>4 DEF HardwareStage, SoftwareStage, Before, Starts
<1>6. fresh' = fresh \cup {"image"} /\ fresh' \subseteq Targets
  BY <1>1, FreshAfterImage DEF TypeOK, Targets, Prerequisites
<1>7. Packaged'
  BY <1>1, <1>5, <1>6
     DEF Packaged, SoftwareBuilt, HardwareBuilt, Checked, Contents, ContentOf
<1>8. MakeInv'
  <2>1. goal' = "boot" /\ job' = <<>>
    BY <1>3, <1>5
  <2>2. MakesSoftware'
    BY <1>7, <2>1, Zenon DEF MakesSoftware
  <2> QED
    BY <1>3, <1>5, <2>2, SoftwareMoves DEF SoftwareGoals
<1>9. Kept
  <2>1. HardwareOfRtl' = HardwareOfRtl /\ (ApplicationFits' <=> ApplicationFits)
    BY <1>1 DEF HardwareOfRtl, ApplicationFits
  <2>2. FreshInv'
    BY <1>1, <1>2, <1>6, <2>1 DEF FreshInv
  <2>3. BuiltFromOneContract' /\ BuiltContractFits'
    BY <1>1, <1>2 DEF BuiltFromOneContract, BuiltContractFits
  <2> QED
    BY <1>1, <1>6, <2>2, <2>3 DEF Kept, TypeOK, Records
<1>10. FileTypes'
  BY <1>1 DEF TypeOK, FileTypes
<1> QED
  BY <1>3, <1>8, <1>9, <1>10 DEF BuildStep

LEMMA StepFailsKeeps == TypeOK /\ BuildInv /\ StepFails => BuildStep
<1> SUFFICES ASSUME TypeOK, BuildInv, StepFails PROVE BuildStep
  OBVIOUS
<1>1. /\ rdl' = rdl /\ files' = files /\ temporary' = Empty /\ fresh' = fresh
      /\ hw' = hw /\ app' = app
      /\ bit' = bit /\ xsa' = xsa /\ fsbl' = fsbl /\ elf' = elf /\ image' = image
      /\ job' = <<>> /\ result' = "failed"
  BY DEF StepFails, builtVars
<1>2. MakeInv'
  BY <1>1 DEF MakeInv, Idle
<1>3. Kept
  BY <1>1, NothingBuilt
<1>4. FileTypes'
  BY <1>1 DEF TypeOK, FileTypes
<1> QED
  BY <1>1, <1>2, <1>3, <1>4 DEF BuildStep

\* No step of a make changes sources, target or environment.
LEMMA MakeStepKeeps ==
    ASSUME TypeOK, BuildInv, MakeStep
    PROVE  /\ BuildStep
           /\ rdl' = rdl /\ hw' = hw /\ app' = app /\ goal' = goal /\ env' = env
<1>1. BuildStep
  BY GenerateKeeps, CopyKeeps, UnlinkKeeps, RegsCheckKeeps, SsotOrTestsKeep,
     UpToDateKeeps, CreateProjectKeeps, WriteBitstreamKeeps, ExportXsaKeeps,
     RunVitisKeeps, BuildPlatformKeeps, BuildApplicationKeeps, TouchStampKeeps,
     PackageBootKeeps, StepFailsKeeps, Zenon DEF MakeStep
<1>2. goal' = goal /\ env' = env
  BY DEF MakeStep, GenerateStep, CopyStep, UnlinkStep, RegsCheck, SsotCheck, RunTests,
         UpToDate, CreateProject, WriteBitstream, ExportXsa, RunVitis, BuildPlatform,
         BuildApplication, TouchStamp, PackageBoot, StepFails, Done, Becomes
<1>3. rdl' = rdl /\ hw' = hw /\ app' = app
  BY DEF MakeStep, GenerateStep, CopyStep, UnlinkStep, RegsCheck, SsotCheck, RunTests,
         UpToDate, CreateProject, WriteBitstream, ExportXsa, RunVitis, BuildPlatform,
         BuildApplication, TouchStamp, PackageBoot, StepFails, fileVars,
         CopyGenerated, UnlinkRtl
<1> QED
  BY <1>1, <1>2, <1>3

-----------------------------------------------------------------------------
(***************************************************************************)
(* What a finished make has made.                                          *)
(***************************************************************************)
LEMMA Finished ==
    ASSUME MakeInv, Idle, result = "ok"
    PROVE  (goal = "ps" => SoftwareBuilt) /\ (goal = "boot" => Packaged)
<1>1. goal \in SoftwareGoals => MakesHardware \/ MakesSoftware
  BY DEF MakeInv, SoftwareGoals, HardwareGoals
<1>2. ASSUME goal \in SoftwareGoals
      PROVE  ~MakesHardware
  <2>1. AfterHardware \in Seq(StepNames) /\ AfterHardware # <<>>
    <3>1. AfterSoftware \in Seq(StepNames)
          /\ AfterHardware = <<"stamp">> \o AfterSoftware
      BY <1>2, WhatFollows
    <3>2. Starts(<<"stamp">> \o AfterSoftware, "stamp", AfterSoftware)
      BY <3>1, Shapes
    <3> QED
      BY <1>2, <3>1, <3>2, WhatFollows DEF Starts, SoftwareGoals, HardwareGoals
  <2>2. job = <<>>
    BY DEF Idle
  <2> DEFINE a == AfterHardware
  <2>3. /\ <<"regs-check", "xsa", "bitstream">> \o a # <<>>
        /\ <<"xsa", "bitstream">> \o a # <<>>
        /\ <<"write bitstream", "export", "bitstream">> \o a # <<>>
        /\ <<"export", "bitstream">> \o a # <<>>
        /\ <<"bitstream">> \o a # <<>>
        /\ <<"write bitstream", "export">> \o a # <<>>
        /\ <<"export">> \o a # <<>>
    BY <2>1, Shapes, Zenon DEF Starts
  <2> QED
    BY <2>1, <2>2, <2>3, Zenon DEF MakesHardware
<1>3. ASSUME goal \in SoftwareGoals, MakesSoftware
      PROVE  (goal = "ps" => SoftwareBuilt) /\ (goal = "boot" => Packaged)
  <2>1. AfterSoftware \in Seq(StepNames) /\ job = <<>>
        /\ (goal = "boot" => AfterSoftware = <<"image">>)
    BY <1>3, WhatFollows DEF Idle
  <2>2. goal = "boot" => job # AfterSoftware
    BY <2>1
  <2> DEFINE a == AfterSoftware
  <2>3. /\ <<"platform", "application", "touch">> \o a # <<>>
        /\ <<"application", "touch">> \o a # <<>>
        /\ <<"touch">> \o a # <<>>
    BY <2>1, Shapes, Zenon DEF Starts
  <2>4. (SoftwareBuilt /\ job = a) \/ (goal = "boot" /\ Packaged)
    BY <1>3, <2>1, <2>3, Zenon DEF MakesSoftware
  <2> QED
    BY <2>2, <2>4
<1> QED
  BY <1>1, <1>2, <1>3 DEF SoftwareGoals

\* What is fresh is there.
LEMMA FreshIsBuilt ==
    FreshInv => /\ "bitstream" \in fresh => bit # None
                /\ "xsa" \in fresh => xsa # None
                /\ "stamp" \in fresh => elf # None
<1>1. DOMAIN HardwareOfRtl = {"contract", "map", "hw"} /\ DOMAIN None = {"version"}
  BY DEF HardwareOfRtl, None
<1>2. HardwareOfRtl # None
  BY <1>1
<1> QED
  BY <1>2 DEF FreshInv, ApplicationFits

LEMMA TypesTogether ==
    ASSUME FileTypes', Kept, MakeInv',
           rdl' \in Contracts \cup {Committed},
           hw' \in Versions, app' \in Versions,
           goal' \in Jobs, result' \in {"none", "running", "ok", "failed"},
           next' \in 0 .. Len(Candidates) + 1,
           cellsLeft' \in 0 .. ProfileCells + CeilingCells + 1
    PROVE  TypeOK' /\ BuildInv'
<1>1. Len(job') <= 7
  <2>1. (MakeInv => Len(job) <= 7)'
    BY JobIsShort, PTL
  <2> QED
    BY <2>1
<1>2. (FreshInv => /\ "bitstream" \in fresh => bit # None
                   /\ "xsa" \in fresh => xsa # None
                   /\ "stamp" \in fresh => elf # None)'
  BY FreshIsBuilt, PTL
<1>3. (result' = "running") = (job' # <<>>)
  BY DEF MakeInv, Idle
<1>4. FreshInv' /\ BuiltFromOneContract' /\ BuiltContractFits'
  BY DEF Kept
<1>5. BuildInv'
  BY <1>4 DEF BuildInv
<1>6. /\ fresh' \subseteq Targets
      /\ xsa' # None => xsa' \in [contract : Stored, map : Stored, hw : Versions]
  BY DEF Kept, Records
<1>7. /\ files' \in [Generated -> Stored]
      /\ temporary' \in {Empty} \cup [Generated -> Stored]
  BY DEF FileTypes
<1>8. TypeOK'
  BY <1>1, <1>2, <1>3, <1>4, <1>6, <1>7 DEF TypeOK
<1> QED
  BY <1>5, <1>8

-----------------------------------------------------------------------------
(***************************************************************************)
(* Initial states, make and the developer.                                 *)
(***************************************************************************)
LEMMA InitProfile == Init => ProfileInv
<1> SUFFICES ASSUME Init PROVE ProfileInv
  OBVIOUS
<1>1. /\ rdl = Committed /\ files = Contents(Committed) /\ temporary = Empty
      /\ fresh = {} /\ hw = 1 /\ app = 1
      /\ job = <<>> /\ goal = "none" /\ result = "none"
      /\ bit = None /\ xsa = None /\ elf = None
      /\ tool = "none" /\ next = 0 /\ cellsLeft = 0 /\ edits = 0
  BY DEF Init, BuildInit
<1>2. TypeOK
  <2>1. 1 \in Versions /\ Len(Candidates) \in Nat
        /\ 0 \in 0 .. ProfileCells + CeilingCells + 1
    BY ProfileAssumption DEF Versions
  <2>2. files \in [Generated -> Stored]
    BY <1>1, ContentsTyped
  <2> QED
    BY <1>1, <2>1, <2>2 DEF TypeOK, Jobs
<1>3. BuildInv
  BY <1>1 DEF BuildInv, FreshInv, MakeInv, Idle, BuiltFromOneContract, BuiltContractFits
<1>4. ToolInv /\ CellMeasuresItsSettings
  BY <1>1 DEF ToolInv, BuildStages, MeasureStages, OtherStages, CellMeasuresItsSettings
<1>5. EditInv
  BY <1>1, ProfileAssumption DEF EditInv
<1> QED
  BY <1>2, <1>3, <1>4, <1>5 DEF ProfileInv

LEMMA MakeKeeps == ProfileInv /\ Make => ProfileInv'
<1> SUFFICES ASSUME ProfileInv, Make PROVE ProfileInv'
  OBVIOUS
<1>1. TypeOK /\ BuildInv /\ ToolInv /\ EditInv /\ CellMeasuresItsSettings
  BY DEF ProfileInv
<1>2. /\ BuildStep
      /\ rdl' = rdl /\ hw' = hw /\ app' = app /\ goal' = goal /\ env' = env
  BY <1>1, MakeStepKeeps DEF Make
<1>3. /\ tool' = tool /\ next' = next /\ cellsLeft' = cellsLeft /\ row' = row
      /\ edits' = edits
  BY DEF Make, toolVars, boundVars
<1>4. ~Idle
  BY DEF Make, MakeStep, GenerateStep, CopyStep, UnlinkStep, RegsCheck, SsotCheck,
         RunTests, UpToDate, CreateProject, WriteBitstream, ExportXsa, RunVitis,
         BuildPlatform, BuildApplication, TouchStamp, PackageBoot, StepFails, Done, Becomes
<1>5. TypeOK' /\ BuildInv'
  BY <1>1, <1>2, <1>3, TypesTogether DEF BuildStep, TypeOK
<1>6. ToolInv'
  <2>1. tool \in BuildStages \cup {"none"}
    BY <1>1, <1>4 DEF ToolInv
  <2>2. tool \in BuildStages => ("stamp" \in fresh' => elf'.lwip = env')
    BY <1>1, <1>2 DEF BuildStep, Kept, ToolInv
  <2> QED
    BY <1>1, <1>2, <1>3, <2>1, <2>2 DEF ToolInv, BuildStages, MeasureStages
<1>7. EditInv' /\ CellMeasuresItsSettings'
  BY <1>1, <1>2, <1>3 DEF EditInv, CellMeasuresItsSettings
<1> QED
  BY <1>5, <1>6, <1>7 DEF ProfileInv

LEMMA StartedMake ==
    ASSUME NEW target \in DOMAIN Steps,
           job' = Steps[target], goal' = target, result' = "running"
    PROVE  MakeInv' /\ goal' \in Jobs
<1>1. target \in {"regs", "check", "hw", "ps", "boot"}
  BY DEF Steps
<1>2. CASE target \in {"regs", "check"}
  <2>1. Steps[target] \in Seq(StepNames) /\ Len(Steps[target]) \in {3, 7}
    BY <1>2, StepsTyped
  <2>2. Steps[target] # <<>> /\ 1 \in 1 .. Len(Steps[target]) + 1
    <3>1. \A s \in Seq(StepNames) : Len(s) \in {3, 7} =>
              s # <<>> /\ 1 \in 1 .. Len(s) + 1
      OBVIOUS
    <3> QED
      BY <2>1, <3>1, Zenon
  <2>3. job' = SubSeq(Steps[target], 1, Len(Steps[target]))
    BY <2>1, SubSeqFull
  <2>4. MakesFiles'
    BY <2>2, <2>3 DEF MakesFiles
  <2> QED
    BY <1>2, <2>2, <2>4 DEF MakeInv, Idle, Jobs
<1>3. CASE target \in HardwareGoals
  <2>1. /\ Steps["hw"] = <<"regs-check", "xsa", "bitstream">>
        /\ Steps["ps"] = <<"regs-check", "xsa", "bitstream", "stamp">>
        /\ Steps["boot"] = <<"regs-check", "xsa", "bitstream", "stamp", "image">>
    BY DEF Steps
  <2>2. PICK x, y, z, v, w \in StepNames :
            x = "regs-check" /\ y = "xsa" /\ z = "bitstream" /\ v = "stamp" /\ w = "image"
    BY Names
  <2>3. /\ <<x, y, z>> \o <<>> = <<x, y, z>>
        /\ <<x, y, z, v>> = <<x, y, z>> \o <<v>>
        /\ <<x, y, z, v, w>> = <<x, y, z>> \o <<v, w>>
    <3>1. <<x, y, z, v>> = <<x, y, z>> \o <<v>>
      OBVIOUS
    <3>2. <<x, y, z, v, w>> = <<x, y, z>> \o <<v, w>>
      OBVIOUS
    <3>3. <<x, y, z>> \in Seq(StepNames)
      OBVIOUS
    <3>4. <<x, y, z>> \o <<>> = <<x, y, z>>
      BY <3>3, ConcatEmptySeq
    <3> QED
      BY <3>1, <3>2, <3>4
  <2>4. /\ Steps["hw"] = <<"regs-check", "xsa", "bitstream">> \o <<>>
        /\ Steps["ps"] = <<"regs-check", "xsa", "bitstream">> \o <<"stamp">>
        /\ Steps["boot"] = <<"regs-check", "xsa", "bitstream">> \o <<"stamp", "image">>
    BY <2>1, <2>2, <2>3
  <2>5. /\ target = "hw" => AfterHardware' = <<>>
        /\ target = "ps" => AfterHardware' = <<"stamp">>
        /\ target = "boot" => AfterHardware' = <<"stamp", "image">>
    BY DEF AfterHardware
  <2>6. job' = <<"regs-check", "xsa", "bitstream">> \o AfterHardware'
    BY <1>3, <2>4, <2>5 DEF HardwareGoals
  <2>7. job' # <<>>
    <3>1. /\ <<>> \in Seq(StepNames) /\ <<"stamp">> \in Seq(StepNames)
          /\ <<"stamp", "image">> \in Seq(StepNames)
      BY Names, OneStep, TwoSteps, Zenon
    <3>2. AfterHardware' \in Seq(StepNames)
      BY <1>3, <2>5, <3>1 DEF HardwareGoals
    <3> QED
      BY <2>6, <3>2, Shapes DEF Starts
  <2>8. MakesHardware'
    BY <2>6, Zenon DEF MakesHardware
  <2> QED
    BY <1>1, <1>3, <2>7, <2>8 DEF MakeInv, Idle, Jobs
<1> QED
  BY <1>1, <1>2, <1>3 DEF HardwareGoals

\* What an edit or a checkout leaves.
Developed ==
    /\ hw' \in 1 .. edits + 2 /\ app' \in 1 .. edits + 2
    /\ rdl' \in Contracts \cup {Committed}
    /\ FileTypes' /\ fresh' \subseteq fresh
    /\ "xsa" \in fresh' \/ "bitstream" \in fresh' =>
          files'["rtl"] = files["rtl"] /\ hw' = hw
    /\ "stamp" \in fresh' => app' = app

LEMMA DevelopKeeps == ProfileInv /\ Develop => ProfileInv'
<1> SUFFICES ASSUME ProfileInv, Develop PROVE ProfileInv'
  OBVIOUS
<1>1. TypeOK /\ BuildInv /\ EditInv
  BY DEF ProfileInv
<1>2. /\ tool = "none" /\ tool' = tool /\ next' = next /\ cellsLeft' = cellsLeft
      /\ row' = row /\ edits < MaxEdits /\ edits' = edits + 1
      /\ job' = job /\ goal' = "none" /\ result' = "none" /\ job = <<>>
      /\ bit' = bit /\ xsa' = xsa /\ fsbl' = fsbl /\ elf' = elf /\ image' = image
      /\ temporary' = temporary
  BY DEF Develop, EditHardware, EditApplication, ChangeContract, EditContract, Checkout,
         Edited, Idle, toolVars, builtVars
<1>3. MakeInv'
  BY <1>2 DEF MakeInv, Idle
<1>4. ToolInv' /\ CellMeasuresItsSettings'
  BY <1>2 DEF ToolInv, BuildStages, MeasureStages, OtherStages, CellMeasuresItsSettings
<1>5. /\ edits + 1 \in 0 .. MaxEdits /\ edits \in Nat
      /\ hw \in 1 .. edits + 1 /\ app \in 1 .. edits + 1
  <2>1. MaxEdits \in Nat /\ hw \in 1 .. MaxEdits + 1 /\ app \in 1 .. MaxEdits + 1
    BY <1>1, ProfileAssumption DEF TypeOK, Versions
  <2> QED
    BY <1>1, <1>2, <2>1 DEF EditInv
<1>6. Developed
  <2>1. CASE EditHardware
    <3>1. /\ hw' = hw + 1 /\ app' = app /\ rdl' = rdl /\ files' = files
          /\ fresh' = FreshAfter({"hw"})
      BY <2>1 DEF EditHardware
    <3> QED
      BY <1>1, <1>2, <1>5, <3>1, FreshFacts DEF TypeOK, FileTypes, Developed
  <2>2. CASE EditApplication
    <3>1. /\ app' = app + 1 /\ hw' = hw /\ rdl' = rdl /\ files' = files
          /\ fresh' = FreshAfter({"app"})
      BY <2>2 DEF EditApplication
    <3> QED
      BY <1>1, <1>2, <1>5, <3>1, FreshFacts DEF TypeOK, FileTypes, Developed
  <2>3. ASSUME NEW c \in Contracts, EditContract(c), hw' = hw, app' = app
        PROVE  Developed
    BY <1>1, <1>2, <1>5, <2>3 DEF EditContract, TypeOK, FileTypes, Developed
  <2>4. ASSUME NEW c \in Contracts, Checkout(c), hw' = hw, app' = app
        PROVE  Developed
    <3>1. /\ rdl' = c /\ files' = Contents(c)
          /\ fresh' = FreshAfter({f \in Generated : files[f] # ContentOf(c, f)})
      BY <2>4 DEF Checkout
    <3>2. "rtl" \in Generated /\ Contents(c)["rtl"] = ContentOf(c, "rtl")
      BY DEF Generated, Contents
    <3>3. fresh' \subseteq fresh
      BY <1>1, <3>1, FreshFacts DEF TypeOK
    <3>4. files'["rtl"] # files["rtl"] => "xsa" \notin fresh' /\ "bitstream" \notin fresh'
      <4>1. files'["rtl"] # files["rtl"] =>
                "rtl" \in {f \in Generated : files[f] # ContentOf(c, f)}
        BY <3>1, <3>2
      <4> QED
        BY <1>1, <3>1, <4>1, FreshFacts DEF TypeOK
    <3>5. FileTypes'
      BY <1>1, <1>2, <3>1, ContentsTyped DEF FileTypes, TypeOK
    <3> QED
      BY <1>5, <2>4, <3>1, <3>3, <3>4, <3>5 DEF Developed
  <2> QED
    BY <2>1, <2>2, <2>3, <2>4 DEF Develop, ChangeContract
<1>7. Kept
  BY <1>1, <1>2, <1>6, NothingBuilt DEF Developed
<1>8. hw' \in Versions /\ app' \in Versions
  BY <1>5, <1>6, ProfileAssumption DEF Versions, Developed
<1>9. TypeOK' /\ BuildInv'
  BY <1>1, <1>2, <1>3, <1>6, <1>7, <1>8, TypesTogether DEF TypeOK, Jobs, Developed
<1>10. EditInv'
  BY <1>2, <1>5, <1>6 DEF EditInv, Developed
<1> QED
  BY <1>4, <1>9, <1>10 DEF ProfileInv

LEMMA DeveloperMakesKeeps == ProfileInv /\ DeveloperMakes => ProfileInv'
<1> SUFFICES ASSUME ProfileInv, DeveloperMakes PROVE ProfileInv'
  OBVIOUS
<1>1. TypeOK /\ BuildInv /\ EditInv
  BY DEF ProfileInv
<1>2. PICK target \in DOMAIN Steps : StartMake(target, Default)
  BY DEF DeveloperMakes
<1>3. /\ tool = "none" /\ tool' = tool /\ next' = next /\ cellsLeft' = cellsLeft
      /\ row' = row /\ edits' = edits
      /\ rdl' = rdl /\ files' = files /\ temporary' = temporary /\ fresh' = fresh
      /\ hw' = hw /\ app' = app
      /\ bit' = bit /\ xsa' = xsa /\ fsbl' = fsbl /\ elf' = elf /\ image' = image
      /\ job' = Steps[target] /\ goal' = target /\ result' = "running"
  BY <1>2 DEF DeveloperMakes, StartMake, toolVars, fileVars, builtVars
<1>4. MakeInv' /\ goal' \in Jobs
  BY <1>3, StartedMake
<1>5. FileTypes' /\ Kept
  BY <1>1, <1>3, QuietKeeps DEF Quiet
<1>6. TypeOK' /\ BuildInv'
  BY <1>1, <1>3, <1>4, <1>5, TypesTogether DEF TypeOK
<1>7. ToolInv' /\ EditInv' /\ CellMeasuresItsSettings'
  BY <1>1, <1>3
     DEF ToolInv, BuildStages, MeasureStages, OtherStages, EditInv, CellMeasuresItsSettings
<1> QED
  BY <1>6, <1>7 DEF ProfileInv

-----------------------------------------------------------------------------
(***************************************************************************)
(* Profile and report.                                                     *)
(***************************************************************************)
SameBuild ==
    Quiet /\ job' = job /\ goal' = goal /\ result' = result /\ env' = env

LEMMA SameBuildKeeps ==
    ASSUME TypeOK, BuildInv, SameBuild,
           next' \in 0 .. Len(Candidates) + 1,
           cellsLeft' \in 0 .. ProfileCells + CeilingCells + 1
    PROVE  TypeOK' /\ BuildInv' /\ (Idle' <=> Idle)
<1>1. MakeInv /\ Quiet
  BY DEF BuildInv, SameBuild
<1>2. /\ FileTypes' /\ Kept
      /\ Checked' = Checked /\ HardwareBuilt' = HardwareBuilt
      /\ SoftwareBuilt' = SoftwareBuilt /\ Packaged' = Packaged
  BY <1>1, QuietKeeps
<1>3. Idle' = Idle
  BY Zenon DEF Idle, SameBuild
<1>4. MakesFiles => MakesFiles'
  <2>1. Contents(rdl)' = Contents(rdl)
    BY <1>1 DEF Quiet
  <2> QED
    BY <2>1, Zenon DEF MakesFiles, SameBuild, Quiet
<1>5. AfterHardware' = AfterHardware /\ AfterSoftware' = AfterSoftware
  BY SameGoal DEF SameBuild
<1>6. MakesHardware => MakesHardware'
  BY <1>2, <1>5, Zenon DEF MakesHardware, SameBuild, Quiet
<1>7. ApplicationFits' = ApplicationFits
  BY <1>1, Zenon DEF ApplicationFits, Quiet
<1>8. MakesSoftware => MakesSoftware'
  BY <1>2, <1>5, <1>7, Zenon DEF MakesSoftware, SameBuild, Quiet
<1>9. MakeInv'
  BY <1>1, <1>3, <1>4, <1>6, <1>8, Zenon DEF MakeInv, SameBuild
<1>10. TypeOK' /\ BuildInv'
  BY <1>1, <1>2, <1>9, TypesTogether DEF SameBuild, Quiet, TypeOK
<1> QED
  BY <1>3, <1>10

LEMMA BuildVarsSame ==
    ASSUME UNCHANGED buildVars
    PROVE  SameBuild
  BY DEF buildVars, fileVars, makeVars, builtVars, SameBuild, Quiet

LEMMA Ranges ==
    ASSUME TypeOK
    PROVE  /\ Len(Candidates) \in Nat /\ ProfileCells \in Nat /\ CeilingCells \in Nat
           /\ next \in 0 .. Len(Candidates) + 1
           /\ cellsLeft \in 0 .. ProfileCells + CeilingCells + 1
           /\ 0 \in 0 .. Len(Candidates) + 1 /\ 1 \in 0 .. Len(Candidates) + 1
           /\ 0 \in 0 .. ProfileCells + CeilingCells + 1
           /\ ProfileCells \in 0 .. ProfileCells + CeilingCells + 1
           /\ ProfileCells + 1 \in 0 .. ProfileCells + CeilingCells + 1
           /\ CeilingCells \in 0 .. ProfileCells + CeilingCells + 1
<1>1. Len(Candidates) \in Nat /\ ProfileCells \in Nat /\ CeilingCells \in Nat
  BY ProfileAssumption
<1> QED
  BY <1>1 DEF TypeOK

\* A tool that ends, or starts, claims nothing yet.
LEMMA EndToolKeeps == ProfileInv /\ EndTool => ProfileInv'
<1> SUFFICES ASSUME ProfileInv, EndTool PROVE ProfileInv'
  OBVIOUS
<1>1. TypeOK /\ BuildInv /\ EditInv
  BY DEF ProfileInv
<1>2. /\ SameBuild /\ tool' = "none" /\ next' = 0 /\ cellsLeft' = 0 /\ edits' = edits
  BY BuildVarsSame DEF EndTool, boundVars
<1>3. TypeOK' /\ BuildInv'
  BY <1>1, <1>2, Ranges, SameBuildKeeps
<1>4. ToolInv' /\ CellMeasuresItsSettings'
  BY <1>2 DEF ToolInv, BuildStages, MeasureStages, OtherStages, CellMeasuresItsSettings
<1>5. EditInv'
  BY <1>1, <1>2 DEF EditInv, SameBuild, Quiet
<1> QED
  BY <1>3, <1>4, <1>5 DEF ProfileInv

LEMMA StartToolKeeps ==
    ASSUME ProfileInv, NEW CONSTANT first \in {"build", "tests"}, NEW CONSTANT called, StartTool(first, called)
    PROVE  ProfileInv'
<1>1. TypeOK /\ BuildInv /\ EditInv
  BY DEF ProfileInv
<1>2. /\ SameBuild /\ tool' = first /\ next' = 1 /\ cellsLeft' = 0 /\ edits' = edits
      /\ Idle /\ row' = NoRow
  BY BuildVarsSame DEF StartTool
<1>3. TypeOK' /\ BuildInv' /\ Idle'
  BY <1>1, <1>2, Ranges, SameBuildKeeps
<1>4. ToolInv'
  <2>1. tool' \in {"build", "tests"} /\ next' >= 1 /\ Idle'
    BY <1>2, <1>3
  <2> QED
    BY <2>1 DEF ToolInv, BuildStages, MeasureStages, OtherStages
<1>5. CellMeasuresItsSettings'
  BY <1>2 DEF CellMeasuresItsSettings, NoRow
<1>6. EditInv'
  BY <1>1, <1>2 DEF EditInv, SameBuild, Quiet
<1> QED
  BY <1>3, <1>4, <1>5, <1>6 DEF ProfileInv

\* A tool that goes from one stage to another, with the row it had.
LEMMA StageKeeps ==
    ASSUME ProfileInv, SameBuild, row' = row, edits' = edits, tool # "none",
           next' \in 0 .. Len(Candidates) + 1, next' >= 1,
           cellsLeft' \in 0 .. ProfileCells + CeilingCells + 1,
           ToolInv'
    PROVE  ProfileInv'
<1>1. TypeOK /\ BuildInv /\ EditInv /\ CellMeasuresItsSettings
  BY DEF ProfileInv
<1>2. TypeOK' /\ BuildInv'
  BY <1>1, SameBuildKeeps
<1>3. EditInv' /\ CellMeasuresItsSettings'
  BY <1>1 DEF EditInv, CellMeasuresItsSettings, SameBuild, Quiet
<1> QED
  BY <1>2, <1>3 DEF ProfileInv

LEMMA QuietToolKeeps ==
    ProfileInv /\ (TestsPass \/ BuildSucceeded \/ NextCandidate) => ProfileInv'
<1> SUFFICES ASSUME ProfileInv, TestsPass \/ BuildSucceeded \/ NextCandidate
             PROVE  ProfileInv'
  OBVIOUS
<1>1. TypeOK /\ BuildInv /\ ToolInv
  BY DEF ProfileInv
<1>2. /\ SameBuild /\ row' = row /\ edits' = edits /\ tool # "none" /\ next >= 1
      /\ goal' = goal /\ env' = env /\ result' = result /\ fresh' = fresh /\ elf' = elf
  <2>1. UNCHANGED buildVars /\ UNCHANGED boundVars /\ row' = row /\ tool # "none"
    BY DEF TestsPass, BuildSucceeded, NextCandidate
  <2>2. SameBuild /\ edits' = edits /\ next >= 1
    BY <1>1, <2>1, BuildVarsSame DEF boundVars, ToolInv
  <2> QED
    BY <2>1, <2>2 DEF SameBuild, Quiet
<1>3. Idle' <=> Idle
  BY <1>2 DEF Idle, SameBuild
<1>4. ASSUME TestsPass PROVE ProfileInv'
  <2>1. /\ tool = "tests" /\ tool' = "build" /\ next' = next /\ cellsLeft' = cellsLeft
    BY <1>4 DEF TestsPass
  <2>2. ToolInv'
    BY <1>1, <1>2, <1>3, <2>1 DEF ToolInv, BuildStages, MeasureStages, OtherStages
  <2> QED
    BY <1>1, <1>2, <2>1, <2>2, Ranges, StageKeeps
<1>5. ASSUME BuildSucceeded PROVE ProfileInv'
  <2>1. /\ tool = "building" /\ tool' = "measure" /\ next' = next /\ Idle /\ result = "ok"
        /\ cellsLeft' \in {ProfileCells + 0, ProfileCells + 1}
    BY <1>5 DEF BuildSucceeded
  <2>2. cellsLeft' \in 0 .. ProfileCells + CeilingCells + 1
    BY <1>1, <2>1, Ranges
  <2>3. ToolInv'
    BY <1>1, <1>2, <1>3, <2>1 DEF ToolInv, BuildStages, MeasureStages, OtherStages
  <2> QED
    BY <1>1, <1>2, <2>1, <2>2, <2>3, Ranges, StageKeeps
<1>6. ASSUME NextCandidate PROVE ProfileInv'
  <2>1. /\ tool = "measure" /\ tool' = "build" /\ next' = next + 1
        /\ cellsLeft' = cellsLeft /\ Idle /\ next <= Len(Candidates)
    BY <1>1, <1>6 DEF NextCandidate, ToolInv, BuildStages, MeasureStages, OtherStages
  <2>2. next' \in 0 .. Len(Candidates) + 1 /\ next' >= 1
    BY <1>1, <1>2, <2>1, Ranges
  <2>3. ToolInv'
    BY <1>1, <1>2, <1>3, <2>1, <2>2 DEF ToolInv, BuildStages, MeasureStages, OtherStages
  <2> QED
    BY <1>1, <1>2, <2>1, <2>2, <2>3, Ranges, StageKeeps
<1> QED
  BY <1>4, <1>5, <1>6

LEMMA MakePsKeeps ==
    ASSUME ProfileInv, NEW CONSTANT settings, MakePs(settings), tool # "none",
           row' = row, edits' = edits, next' = next, cellsLeft' = cellsLeft,
           tool' \in {"building", "default building"},
           tool' = "building" =>
                next <= Len(Candidates) /\ settings = Candidates[next],
           tool' = "default building" => settings = Default
    PROVE  ProfileInv'
<1>1. TypeOK /\ BuildInv /\ ToolInv /\ EditInv /\ CellMeasuresItsSettings
  BY DEF ProfileInv
<1>2. /\ rdl' = rdl /\ files' = files /\ temporary' = temporary
      /\ fresh' = fresh \ {"stamp"} /\ hw' = hw /\ app' = app
      /\ bit' = bit /\ xsa' = xsa /\ fsbl' = fsbl /\ elf' = elf /\ image' = image
      /\ job' = Steps["ps"] /\ goal' = "ps" /\ result' = "running" /\ env' = settings
  BY DEF MakePs, FreshWithoutStamp, builtVars
<1>3. MakeInv' /\ goal' \in Jobs
  <2>1. "ps" \in DOMAIN Steps
    BY DEF Steps
  <2> QED
    BY <1>2, <2>1, StartedMake
<1>4. Kept
  BY <1>1, <1>2, NothingBuilt
<1>5. FileTypes'
  BY <1>1, <1>2 DEF TypeOK, FileTypes
<1>6. TypeOK' /\ BuildInv'
  BY <1>1, <1>2, <1>3, <1>4, <1>5, TypesTogether DEF TypeOK
<1>7. ToolInv'
  <2>1. next' >= 1
    BY <1>1 DEF ToolInv
  <2>2. tool' = "building" => next' <= Len(Candidates) /\ env' = Candidates[next']
    BY <1>2
  <2> QED
    BY <1>2, <2>1, <2>2 DEF ToolInv, BuildStages, MeasureStages, OtherStages
<1>8. EditInv' /\ CellMeasuresItsSettings'
  BY <1>1, <1>2 DEF EditInv, CellMeasuresItsSettings
<1> QED
  BY <1>6, <1>7, <1>8 DEF ProfileInv

LEMMA BuildsKeep == ProfileInv /\ (RunBuild \/ BuildDefault) => ProfileInv'
<1> SUFFICES ASSUME ProfileInv, RunBuild \/ BuildDefault PROVE ProfileInv'
  OBVIOUS
<1>1. row' = row /\ edits' = edits /\ next' = next /\ cellsLeft' = cellsLeft
  BY DEF RunBuild, BuildDefault, boundVars
<1>2. ASSUME RunBuild PROVE ProfileInv'
  <2>1. /\ tool # "none" /\ tool' = "building" /\ next <= Len(Candidates)
        /\ MakePs(Candidates[next])
    BY <1>2 DEF RunBuild
  <2>2. PICK settings : settings = Candidates[next]
    OBVIOUS
  <2> QED
    BY <1>1, <2>1, <2>2, MakePsKeeps
<1>3. ASSUME BuildDefault PROVE ProfileInv'
  <2>1. tool # "none" /\ tool' = "default building" /\ MakePs(Default)
    BY <1>3 DEF BuildDefault
  <2>2. PICK settings : settings = Default
    OBVIOUS
  <2> QED
    BY <1>1, <2>1, <2>2, MakePsKeeps
<1> QED
  BY <1>2, <1>3

LEMMA BuildFailedKeeps == ProfileInv /\ BuildFailed => ProfileInv'
<1> SUFFICES ASSUME ProfileInv, BuildFailed PROVE ProfileInv'
  OBVIOUS
<1>1. TypeOK /\ BuildInv /\ ToolInv /\ EditInv
  BY DEF ProfileInv
<1>2. /\ SameBuild /\ edits' = edits /\ tool = "building" /\ tool' = "build" /\ Idle
      /\ next' = next + 1 /\ cellsLeft' = cellsLeft /\ row'.class = "unsupported"
  BY BuildVarsSame DEF BuildFailed, boundVars
<1>3. next <= Len(Candidates) /\ next >= 1
  BY <1>1, <1>2 DEF ToolInv
<1>4. next' \in 0 .. Len(Candidates) + 1 /\ next' >= 1
  BY <1>1, <1>2, <1>3, Ranges
<1>5. TypeOK' /\ BuildInv' /\ Idle'
  BY <1>1, <1>2, <1>4, Ranges, SameBuildKeeps
<1>6. ToolInv'
  BY <1>2, <1>4, <1>5 DEF ToolInv, BuildStages, MeasureStages, OtherStages
<1>7. EditInv' /\ CellMeasuresItsSettings'
  BY <1>1, <1>2 DEF EditInv, CellMeasuresItsSettings, SameBuild, Quiet
<1> QED
  BY <1>5, <1>6, <1>7 DEF ProfileInv

\* A cell measures the application of the make before it.
LEMMA CellKeeps ==
    ASSUME ProfileInv, tool \in MeasureStages, cellsLeft > 0,
           SameBuild, tool' = tool, next' = next, edits' = edits,
           cellsLeft' = cellsLeft - 1, row' = Measured(env)
    PROVE  ProfileInv'
<1>1. TypeOK /\ BuildInv /\ ToolInv /\ EditInv
  BY DEF ProfileInv
<1>2. Idle /\ result = "ok" /\ goal = "ps" /\ MakeInv /\ FreshInv /\ BuiltFromOneContract
  BY <1>1 DEF ToolInv, BuildInv, MeasureStages, BuildStages
<1>3. SoftwareBuilt
  BY <1>2, Finished
<1>4. /\ elf # None /\ elf.platform = xsa /\ elf.app = app /\ xsa = bit
      /\ xsa = HardwareOfRtl /\ "stamp" \in fresh /\ Checked
  BY <1>2, <1>3 DEF SoftwareBuilt, HardwareBuilt, FreshInv, ApplicationFits
<1>5. elf.contract = rdl
  BY <1>2, <1>4, CheckedHardware DEF BuiltFromOneContract
<1>6. elf.lwip = env
  BY <1>1, <1>4 DEF ToolInv, MeasureStages
<1>7. row' = [claimed |-> env, class |-> "measured", elf |-> elf, bit |-> bit]
  BY DEF Measured
<1>8. CellMeasuresItsSettings'
  <2>1. app' = app /\ rdl' = rdl
    BY DEF SameBuild, Quiet
  <2>2. /\ row'.elf.lwip = row'.claimed /\ row'.elf.platform = row'.bit
        /\ row'.elf.app = app' /\ row'.elf.contract = rdl'
    BY <1>4, <1>5, <1>6, <1>7, <2>1
  <2> QED
    BY <2>2 DEF CellMeasuresItsSettings
<1>9. cellsLeft' \in 0 .. ProfileCells + CeilingCells + 1
  BY <1>1, Ranges
<1>10. TypeOK' /\ BuildInv' /\ (Idle' <=> Idle)
  BY <1>1, <1>9, Ranges, SameBuildKeeps
<1>11. ToolInv'
  BY <1>1, <1>10 DEF ToolInv, SameBuild, Quiet
<1>12. EditInv'
  BY <1>1 DEF EditInv, SameBuild, Quiet
<1> QED
  BY <1>8, <1>10, <1>11, <1>12 DEF ProfileInv

LEMMA CellsKeep == ProfileInv /\ (RunCell \/ CeilingCell) => ProfileInv'
<1> SUFFICES ASSUME ProfileInv, RunCell \/ CeilingCell PROVE ProfileInv'
  OBVIOUS
<1>1. ToolInv
  BY DEF ProfileInv
<1>2. /\ SameBuild /\ tool' = tool /\ next' = next /\ edits' = edits
      /\ cellsLeft > 0 /\ cellsLeft' = cellsLeft - 1 /\ tool \in MeasureStages
  BY BuildVarsSame DEF RunCell, CeilingCell, boundVars, MeasureStages
<1>3. row' = Measured(env)
  BY <1>1 DEF RunCell, CeilingCell, ToolInv, Measured
<1> QED
  BY <1>2, <1>3, CellKeeps

LEMMA LaterStagesKeep ==
    ProfileInv /\ (ProfileDone \/ DefaultBuilt \/ WriteReport \/ Abort) => ProfileInv'
<1> SUFFICES ASSUME ProfileInv, ProfileDone \/ DefaultBuilt \/ WriteReport \/ Abort
             PROVE  ProfileInv'
  OBVIOUS
<1>1. CASE EndTool
  BY <1>1, EndToolKeeps
<1>2. CASE ~EndTool
  <2>1. TypeOK /\ ToolInv
    BY DEF ProfileInv
  <2>2. /\ SameBuild /\ row' = row /\ edits' = edits /\ tool # "none" /\ next' = next
        /\ \/ tool = "build" /\ tool' = "default" /\ cellsLeft' = cellsLeft
           \/ /\ tool = "default building" /\ tool' = "ceiling"
              /\ Idle /\ result = "ok" /\ cellsLeft' = CeilingCells
    BY <1>2, BuildVarsSame DEF ProfileDone, DefaultBuilt, WriteReport, Abort, boundVars
  <2>3. /\ next >= 1 /\ next' \in 0 .. Len(Candidates) + 1
        /\ cellsLeft' \in 0 .. ProfileCells + CeilingCells + 1
    BY <2>1, <2>2, Ranges DEF ToolInv
  <2>4. /\ (Idle' <=> Idle) /\ goal' = goal /\ env' = env /\ result' = result
        /\ fresh' = fresh /\ elf' = elf
    BY <2>2 DEF Idle, SameBuild, Quiet
  <2>5. ToolInv'
    BY <2>1, <2>2, <2>3, <2>4 DEF ToolInv, BuildStages, MeasureStages, OtherStages
  <2> QED
    BY <2>2, <2>3, <2>5, StageKeeps
<1> QED
  BY <1>1, <1>2

-----------------------------------------------------------------------------
(***************************************************************************)
(* The inductive invariant holds: whatever the developer, make and the     *)
(* tools do in whatever order, what counts as fresh was made from what is  *)
(* there, a make has made what its remaining steps rely on, and a tool     *)
(* measures the build it asked for.                                        *)
(***************************************************************************)
THEOREM ProfileCorrect == Spec => []ProfileInv
<1>1. ASSUME ProfileInv, [Next]_vars PROVE ProfileInv'
  <2>1. CASE UNCHANGED vars
    <3>1. /\ SameBuild /\ tool' = tool /\ row' = row /\ next' = next
          /\ cellsLeft' = cellsLeft /\ edits' = edits
      BY <2>1, BuildVarsSame DEF vars, toolVars, boundVars
    <3>2. TypeOK /\ BuildInv /\ ToolInv /\ EditInv /\ CellMeasuresItsSettings
      BY <1>1 DEF ProfileInv
    <3>3. TypeOK' /\ BuildInv' /\ (Idle' <=> Idle)
      BY <3>1, <3>2, Ranges, SameBuildKeeps
    <3>4. ToolInv' /\ EditInv' /\ CellMeasuresItsSettings'
      BY <3>1, <3>2, <3>3 DEF ToolInv, EditInv, CellMeasuresItsSettings, SameBuild, Quiet
    <3> QED
      BY <3>3, <3>4 DEF ProfileInv
  <2>2. CASE Develop
    BY <1>1, <2>2, DevelopKeeps
  <2>3. CASE DeveloperMakes
    BY <1>1, <2>3, DeveloperMakesKeeps
  <2>4. CASE Make
    BY <1>1, <2>4, MakeKeeps
  <2>5. CASE Tool
    <3>1. CASE StartProfile \/ StartReport
      BY <1>1, <3>1, StartToolKeeps DEF StartProfile, StartReport
    <3> QED
      BY <1>1, <2>5, <3>1, QuietToolKeeps, BuildsKeep, BuildFailedKeeps, CellsKeep,
         LaterStagesKeep DEF Tool
  <2> QED
    BY <1>1, <2>1, <2>2, <2>3, <2>4, <2>5 DEF Next
<1> QED
  BY <1>1, InitProfile, PTL DEF Spec

(***************************************************************************)
(* Type correctness of builds, profiles and reports.                       *)
(***************************************************************************)
THEOREM BuildTypeCorrect == Spec => []TypeOK
<1>1. ProfileInv => TypeOK
  BY DEF ProfileInv
<1> QED
  BY <1>1, ProfileCorrect, PTL

(***************************************************************************)
(* After a successful make boot the parts of BOOT.BIN belong together and  *)
(* to the sources, after any number of edits and failed makes.             *)
(***************************************************************************)
THEOREM BootImageFits == Spec => []BootImageFitsTogether
<1>1. ProfileInv => BootImageFitsTogether
  <2> SUFFICES ASSUME ProfileInv, goal = "boot", result = "ok"
               PROVE  BootImageFitsTogether
    BY DEF BootImageFitsTogether
  <2>1. TypeOK /\ MakeInv /\ FreshInv /\ BuiltFromOneContract
    BY DEF ProfileInv, BuildInv
  <2>2. Idle
    BY <2>1 DEF TypeOK, Idle
  <2>3. Packaged
    BY <2>1, <2>2, Finished
  <2>4. /\ image = [bit |-> bit, fsbl |-> fsbl, elf |-> elf]
        /\ bit = HardwareOfRtl /\ xsa = HardwareOfRtl /\ fsbl.platform = xsa
        /\ elf # None /\ elf.platform = xsa /\ elf.app = app /\ Checked
    BY <2>1, <2>3 DEF Packaged, SoftwareBuilt, HardwareBuilt, FreshInv, ApplicationFits
  <2>5. HardwareOfRtl = [contract |-> rdl, map |-> rdl, hw |-> hw]
    BY <2>4, CheckedHardware
  <2>6. /\ elf.contract = rdl /\ elf.defaults = rdl
        /\ elf.registers = ContentOf(rdl, "pl_control.h")
    BY <2>1, <2>4, <2>5 DEF BuiltFromOneContract
  <2> QED
    BY <2>4, <2>5, <2>6 DEF BootImageFitsTogether
<1> QED
  BY <1>1, ProfileCorrect, PTL

(***************************************************************************)
(* Nothing is built from a mixture of two contracts, whatever an           *)
(* interrupted make regs left.                                             *)
(***************************************************************************)
THEOREM OneContractIsBuilt == Spec => []BuiltFromOneContract
<1>1. ProfileInv => BuiltFromOneContract
  BY DEF ProfileInv, BuildInv
<1> QED
  BY <1>1, ProfileCorrect, PTL

(***************************************************************************)
(* Every contract hardware is built from fits its widths and apertures,    *)
(* for every contract whose windows are within the port of the PS.         *)
(***************************************************************************)
THEOREM BuiltHardwareFits == Spec => []BuiltContractFits
<1>1. ProfileInv => BuiltContractFits
  BY DEF ProfileInv, BuildInv
<1> QED
  BY <1>1, ProfileCorrect, PTL

(***************************************************************************)
(* A measured row belongs to the settings it names, for every list of      *)
(* candidates and every number of cells.                                   *)
(***************************************************************************)
THEOREM CellsMeasureTheirSettings == Spec => []CellMeasuresItsSettings
<1>1. ProfileInv => CellMeasuresItsSettings
  BY DEF ProfileInv
<1> QED
  BY <1>1, ProfileCorrect, PTL
=============================================================================

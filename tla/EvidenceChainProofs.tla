------------------------ MODULE EvidenceChainProofs ------------------------
(***************************************************************************)
(* What a sealed handoff is worth, for any prefixes and any number of      *)
(* edits, changed files, failing children and killed scripts.              *)
(*                                                                         *)
(* Five invariants, each proved with those before it: types; names that    *)
(* are free; records that are true of what ran; artifacts that were        *)
(* tested; and what an audit has approved.                                 *)
(***************************************************************************)
EXTENDS EvidenceChain, TLAPS

(* The stages.                                                             *)

Suites == DOMAIN Native
StageOf(kind, i) == (IF kind = "run" THEN Chain ELSE Rest)[i]
LastStage(kind) == IF kind = "run" THEN 11 ELSE 4

LEMMA Lists ==
    /\ DOMAIN Chain = 1 .. 11 /\ DOMAIN Rest = 1 .. 4 /\ DOMAIN Reusable = 1 .. 8
    /\ Len(Chain) = 11 /\ Len(Rest) = 4 /\ Len(Reusable) = 8
BY DEF Chain, Rest, Reusable

LEMMA SuiteNames ==
    /\ Suites = {"full-releasesafe", "full-debug"}
    /\ Native["full-releasesafe"] = "native-full-releasesafe"
    /\ Native["full-debug"] = "native-full-debug"
BY DEF Suites, Native

LEMMA OtherNames ==
    /\ DOMAIN Emits = {"app-build", "cli-build", "full-releasesafe-build", "full-debug-build"}
    /\ Emits["app-build"] = "app" /\ Emits["cli-build"] = "cli"
    /\ Emits["full-releasesafe-build"] = "full-releasesafe"
    /\ Emits["full-debug-build"] = "full-debug"
    /\ DOMAIN Inspects = {"app-audit", "cli-audit"}
    /\ Inspects["app-audit"] = "app-processes" /\ Inspects["cli-audit"] = "cli-processes"
BY DEF Emits, Inspects

LEMMA ExecutesNames ==
    /\ DOMAIN Executes = {"adapter-syscalls", "app-processes", "cli-processes",
                          "native-full-releasesafe", "native-full-debug"}
    /\ Executes["adapter-syscalls"] = "app" /\ Executes["app-processes"] = "app"
    /\ Executes["cli-processes"] = "cli"
    /\ Executes["native-full-releasesafe"] = "full-releasesafe"
    /\ Executes["native-full-debug"] = "full-debug"
BY SuiteNames DEF Executes, Suites

LEMMA ArtifactNames == Artifacts = {"app", "cli", "full-releasesafe", "full-debug"}
BY OtherNames DEF Artifacts

LEMMA ChainNames ==
    {Chain[i] : i \in DOMAIN Chain} =
        {"app-build", "adapter-syscalls", "cli-build", "app-processes", "app-audit", "cli-processes",
         "cli-audit", "full-releasesafe-build", "full-releasesafe", "full-debug-build", "full-debug"}
BY Lists DEF Chain

LEMMA CaptureNames ==
    Captures = {"app-build", "adapter-syscalls", "cli-build", "app-processes", "app-audit", "cli-processes",
                "cli-audit", "full-releasesafe-build", "full-releasesafe", "full-debug-build", "full-debug",
                "native-full-releasesafe", "native-full-debug"}
<1>1. {Native[l] : l \in DOMAIN Native} = {"native-full-releasesafe", "native-full-debug"}
    BY SuiteNames DEF Suites
<1> QED BY <1>1, ChainNames, Zenon DEF Captures

\* Every stage is a capture, and no stage comes twice.
LEMMA StageNames ==
    ASSUME NEW kind, NEW i \in 1 .. LastStage(kind)
    PROVE  /\ StageOf(kind, i) \in Captures
           /\ \A s \in Suites : StageOf(kind, i) # Native[s]
           /\ \A j \in 1 .. LastStage(kind) : j # i => StageOf(kind, i) # StageOf(kind, j)
<1>1. CASE kind = "run"
    BY <1>1, CaptureNames, SuiteNames DEF LastStage, StageOf, Chain
<1>2. CASE kind # "run"
    BY <1>2, CaptureNames, SuiteNames DEF LastStage, StageOf, Rest
<1> QED BY <1>1, <1>2

\* A suite is built by the stage before it, and not again.
LEMMA SuiteBuilt ==
    ASSUME NEW kind, NEW i \in 1 .. LastStage(kind), StageOf(kind, i) \in Suites
    PROVE  /\ i > 1 /\ StageOf(kind, i - 1) \in DOMAIN Emits
           /\ Emits[StageOf(kind, i - 1)] = Executes[Native[StageOf(kind, i)]]
           /\ \A j \in i .. LastStage(kind) : StageOf(kind, j) \in DOMAIN Emits =>
                Emits[StageOf(kind, j)] # Executes[Native[StageOf(kind, i)]]
<1>1. CASE kind = "run"
    BY <1>1, SuiteNames, OtherNames, ExecutesNames DEF LastStage, StageOf, Chain
<1>2. CASE kind # "run"
    BY <1>2, SuiteNames, OtherNames, ExecutesNames DEF LastStage, StageOf, Rest
<1> QED BY <1>1, <1>2

LEMMA ReusableNames ==
    ASSUME NEW i \in 1 .. 8
    PROVE  /\ Reusable[i] \in Captures
           /\ \A j \in 1 .. 8 : j # i => Reusable[i] # Reusable[j]
           /\ Reusable[i] # "native-full-debug"
           /\ Reusable[i] = "native-full-releasesafe" => i = 8
BY CaptureNames DEF Reusable

LEMMA ReusedSuite == Reusable[7] = "full-releasesafe" /\ Reusable[8] = "native-full-releasesafe"
BY DEF Reusable

\* What the audits inspect is made before: by the chain, or by the chain that
\* is continued.
LEMMA InspectedBefore ==
    ASSUME NEW kind, NEW i \in 1 .. LastStage(kind), StageOf(kind, i) \in DOMAIN Inspects
    PROVE  /\ kind = "run" => \E j \in 1 .. i - 1 : StageOf(kind, j) = Inspects[StageOf(kind, i)]
           /\ \E j \in 1 .. 8 : Reusable[j] = Inspects[StageOf(kind, i)]
<1>1. \E j \in 1 .. 8 : Reusable[j] = Inspects[StageOf(kind, i)]
    <2>1. Reusable[4] = "app-processes" /\ Reusable[5] = "cli-processes"
        BY DEF Reusable
    <2> QED BY <2>1, OtherNames
<1>2. ASSUME kind = "run" PROVE \E j \in 1 .. i - 1 : StageOf(kind, j) = Inspects[StageOf(kind, i)]
    <2>1. StageOf(kind, 4) = "app-processes" /\ StageOf(kind, 6) = "cli-processes"
        BY <1>2 DEF StageOf, Chain
    <2>2. (i = 5 /\ StageOf(kind, i) = "app-audit") \/ (i = 7 /\ StageOf(kind, i) = "cli-audit")
        BY <1>2, OtherNames DEF StageOf, Chain, LastStage
    <2> QED BY <2>1, <2>2, OtherNames
<1> QED BY <1>1, <1>2

-----------------------------------------------------------------------------
(* Types.                                                                  *)

Version == {0, 1}
Tree == [source : Version, producers : Version]
Outcome == [code : Nat, timed : BOOLEAN, fatal : BOOLEAN, error : BOOLEAN, segfault : BOOLEAN,
            ran : Version, tested : Nat]
Result == [code : Nat, timed : BOOLEAN, fatal : BOOLEAN, error : BOOLEAN, segfault : BOOLEAN,
           ran : Version, tested : Nat, source : Version, sourceKept : BOOLEAN,
           producersKept : BOOLEAN, log : Nat]
Identity == [base : Prefixes \cup {"none"}, source : Version, producers : Version]
Digests == [Artifacts -> Nat]

Claiming == {"verify", "alias", "publish"}
Capturing == {"nested", "child", "after", "outer"}
Working == {"begin", "returned"} \cup Capturing
Place == {"archive", "check", "compare", "manifest"} \cup Claiming \cup Working
Running == [kind : {"run", "resume", "seal"}, prefix : Prefixes, base : Prefixes \cup {"none"},
            at : Nat, pc : Place, capture : Captures \cup {"none"}, before : Tree \cup {NoTree},
            outer : Tree \cup {NoTree}, child : Outcome \cup {NoRecord}, digests : Digests]

Now(s) == StageOf(s.kind, s.at)

\* Where a script can be, and what it then holds.
Placed(s) ==
    /\ s.kind = "seal" <=> s.pc \in {"compare", "manifest"}
    /\ s.pc \in Claiming => s.kind = "resume" /\ s.before \in Tree /\ s.base \in Prefixes \ {s.prefix}
    /\ s.pc \in {"verify", "alias"} => s.at \in 1 .. 8
    /\ s.pc = "check" => s.at \in 1 .. LastStage(s.kind) + 1
    /\ s.pc \in Working => s.at \in 1 .. LastStage(s.kind)
    /\ s.pc \in Capturing => s.before \in Tree
    /\ s.pc \in {"after", "outer"} => s.child \in Outcome
    /\ s.pc \in {"nested", "outer"} => Now(s) \in Suites /\ s.capture = Now(s)
    /\ s.pc \in {"child", "after"} =>
         IF Now(s) \in Suites THEN s.capture = Native[Now(s)] /\ s.outer \in Tree
         ELSE s.capture = Now(s)
ScriptTyped(s) == s # Idle => s \in Running /\ Placed(s)

FilesTyped ==
    /\ tree \in Tree
    /\ identity \in [Prefixes -> Identity \cup {NoIdentity}]
    /\ archive \in [Prefixes -> Tree \cup {NoTree}]
    /\ rec \in [Prefixes -> [Captures -> Result \cup {NoRecord}]]
    /\ log \in [Prefixes -> [Captures -> Nat]]
    /\ elf \in [Prefixes -> Digests] /\ sums \in [Prefixes -> Digests]
    /\ handoff \in [Prefixes -> {"none", "audited", "partial", "sealed"}]
    /\ troubles \in Nat
TypeInv == FilesTyped /\ ScriptTyped(script)

\* A script that is somewhere is one, and knows its stage.
LEMMA Runs ==
    ASSUME TypeInv, NEW kinds, NEW pc, At(kinds, pc), "none" \notin kinds
    PROVE  /\ script # Idle /\ script \in Running /\ Placed(script)
           /\ script.kind \in kinds /\ script.pc = pc /\ P \in Prefixes
           /\ Stage = Now(script) /\ (pc \in Working => Stage \in Captures)
<1>1. script # Idle /\ script.kind \in kinds /\ script.pc = pc
    BY DEF At, Idle
<1>2. script \in Running /\ Placed(script)
    BY <1>1 DEF TypeInv, ScriptTyped
<1>3. Stage = Now(script) /\ P \in Prefixes
    BY <1>2 DEF Stage, Stages, Now, StageOf, P, Running
<1>4. pc \in Working => Now(script) \in Captures
    BY <1>1, <1>2, StageNames DEF Placed, Now
<1> QED BY <1>1, <1>2, <1>3, <1>4

LEMMA NothingTyped == Nothing \in Digests
BY DEF Nothing, Digests

\* A script that starts a stage anew.
LEMMA ScriptRunning ==
    ASSUME NEW kind \in {"run", "resume", "seal"}, NEW p \in Prefixes, NEW pc \in Place
    PROVE  /\ Script(kind, p, pc) \in Running
           /\ Script(kind, p, pc).kind = kind /\ Script(kind, p, pc).prefix = p
           /\ Script(kind, p, pc).pc = pc /\ Script(kind, p, pc).at = 1
BY NothingTyped DEF Script, Running

LEMMA PassedTyped == Passed \in Outcome
BY DEF Passed, Outcome, Version

LEMMA FailuresTyped ==
    ASSUME NEW kind, NEW l, NEW o \in {Passed} \cup Failures(kind, l)
    PROVE  o \in Outcome /\ (o.fatal => kind = "run" /\ \E s \in Suites : Native[s] = l)
<1>p. Passed \in Outcome /\ Passed.fatal = FALSE
    BY DEF Passed, Outcome, Version
<1>1. /\ [Passed EXCEPT !.code = 1] \in Outcome /\ ~[Passed EXCEPT !.code = 1].fatal
      /\ [Passed EXCEPT !.code = 1, !.error = TRUE] \in Outcome /\ ~[Passed EXCEPT !.code = 1, !.error = TRUE].fatal
    BY <1>p DEF Outcome
<1>2. /\ [Passed EXCEPT !.timed = TRUE] \in Outcome /\ ~[Passed EXCEPT !.timed = TRUE].fatal
      /\ [Passed EXCEPT !.code = 1, !.timed = TRUE] \in Outcome /\ ~[Passed EXCEPT !.code = 1, !.timed = TRUE].fatal
    BY <1>p DEF Outcome
<1>3. [Passed EXCEPT !.code = 1, !.segfault = TRUE] \in Outcome
      /\ ~[Passed EXCEPT !.code = 1, !.segfault = TRUE].fatal
    BY <1>p DEF Outcome
<1>4. ASSUME NEW c \in {0, 1} PROVE [Passed EXCEPT !.code = c, !.fatal = TRUE, !.segfault = TRUE] \in Outcome
    <2>1. c \in Nat
        OBVIOUS
    <2> QED BY <1>p, <2>1 DEF Outcome
<1>5. CASE kind = "run" /\ \E s \in Suites : Native[s] = l
    BY <1>p, <1>1, <1>2, <1>3, <1>4, <1>5
       DEF Failures, Suites
<1>6. CASE ~(kind = "run" /\ \E s \in Suites : Native[s] = l)
    BY <1>p, <1>1, <1>2, <1>3, <1>4, <1>6
       DEF Failures, Suites
<1> QED BY <1>5, <1>6

Quiet == UNCHANGED <<tree, files, handoff, troubles>>

LEMMA QuietTyped ==
    ASSUME TypeInv, Quiet, ScriptTyped(script') PROVE TypeInv'
BY DEF TypeInv, FilesTyped, Quiet, files, ScriptTyped

\* One entry of a table is changed.
LEMMA PutTyped ==
    ASSUME NEW S, NEW T, NEW V, NEW f \in [S -> [T -> V]], NEW p \in S, NEW l \in T, NEW v \in V,
           NEW g, g = [f EXCEPT ![p][l] = v]
    PROVE  /\ g \in [S -> [T -> V]] /\ g[p][l] = v
           /\ \A q \in S, m \in T : q # p \/ m # l => g[q][m] = f[q][m]
OBVIOUS

LEMMA IdleTyped == ScriptTyped(Idle)
BY DEF ScriptTyped

\* A script stays where it was but for its place in the capture.
LEMMA BeginTyped == ASSUME TypeInv, Begin PROVE TypeInv'
<1>1. script \in Running /\ Placed(script) /\ P \in Prefixes /\ Stage = Now(script) /\ Stage \in Captures
      /\ script.pc = "begin" /\ script.kind \in {"run", "resume"}
    BY Runs DEF Begin, Working
<1>2. ScriptTyped(script')
    <2>1. CASE script' = Idle
        BY <2>1, IdleTyped
    <2>2. CASE script' # Idle
        <3>1. script' = [script EXCEPT !.before = tree, !.capture = Stage,
                                       !.pc = IF Stage \in DOMAIN Native THEN "nested" ELSE "child"]
            BY <2>2 DEF Begin, Abort
        <3>2. script' \in Running
            BY <1>1, <3>1 DEF Running, Place, Working, Capturing, TypeInv, FilesTyped
        <3>3. Now(script') = Now(script) /\ script'.kind = script.kind /\ script'.at = script.at
              /\ script'.capture = Stage /\ script'.before = tree
              /\ script'.pc = IF Stage \in Suites THEN "nested" ELSE "child"
            BY <1>1, <3>1 DEF Running, Now, Suites
        <3>4. Placed(script')
            BY <1>1, <3>3 DEF Placed, Working, Capturing, Claiming, TypeInv, FilesTyped
        <3> QED BY <3>2, <3>4 DEF ScriptTyped
    <2> QED BY <2>1, <2>2
<1>3. log' \in [Prefixes -> [Captures -> Nat]]
    <2>1. log' = log \/ log' = [log EXCEPT ![P][Stage] = 1]
        BY DEF Begin
    <2>2. log \in [Prefixes -> [Captures -> Nat]] /\ 1 \in Nat
        BY DEF TypeInv, FilesTyped
    <2> QED BY <1>1, <2>1, <2>2, PutTyped
<1> QED BY <1>2, <1>3 DEF Begin, TypeInv, FilesTyped

LEMMA BeginNestedTyped == ASSUME TypeInv, BeginNested PROVE TypeInv'
<1>1. script \in Running /\ Placed(script) /\ P \in Prefixes /\ Stage = Now(script) /\ Stage \in Captures
      /\ script.pc = "nested" /\ script.kind \in {"run", "resume"}
    BY Runs DEF BeginNested, Working, Capturing
<1>s. Stage \in Suites /\ Native[Stage] \in Captures
    BY <1>1, CaptureNames, SuiteNames DEF Placed
<1>2. ScriptTyped(script')
    <2>1. script' = [script EXCEPT !.pc = "child", !.outer = script.before, !.before = tree, !.capture = Native[Stage]]
        BY DEF BeginNested
    <2>2. script' \in Running
        BY <1>1, <1>s, <2>1 DEF Running, Place, Working, Capturing, TypeInv, FilesTyped
    <2>3. Now(script') = Now(script) /\ script'.kind = script.kind /\ script'.at = script.at
          /\ script'.capture = Native[Stage] /\ script'.before = tree /\ script'.pc = "child"
          /\ script'.outer = script.before
        BY <1>1, <2>1 DEF Running, Now
    <2>4. Placed(script')
        BY <1>1, <1>s, <2>3 DEF Placed, Working, Capturing, Claiming, TypeInv, FilesTyped
    <2> QED BY <2>2, <2>4 DEF ScriptTyped
<1>3. log' \in [Prefixes -> [Captures -> Nat]]
    BY <1>1, <1>s DEF BeginNested, TypeInv, FilesTyped
<1> QED BY <1>2, <1>3 DEF BeginNested, TypeInv, FilesTyped

LEMMA TestedTyped ==
    ASSUME TypeInv, NEW p, p = script.prefix, p \in Prefixes, NEW l \in Captures,
           l \in DOMAIN Inspects =>
             rec[IF identity[p].base = "none" THEN p ELSE identity[p].base][Inspects[l]] \in Result
    PROVE  Tested(l) \in Nat
<1>1. CASE l \in DOMAIN Inspects
    BY <1>1 DEF Tested, P, Result
<1>2. CASE l \in DOMAIN Executes /\ l \notin DOMAIN Inspects
    <2>1. Executes[l] \in Artifacts
        BY <1>2, ExecutesNames, ArtifactNames
    <2> QED BY <1>2, <2>1 DEF Tested, P, TypeInv, FilesTyped, Digests
<1>3. CASE l \notin DOMAIN Executes /\ l \notin DOMAIN Inspects
    BY <1>3 DEF Tested
<1> QED BY <1>1, <1>2, <1>3

LEMMA RecordTyped ==
    ASSUME TypeInv, NEW child \in Outcome, NEW before \in Tree, NEW l \in Captures, P \in Prefixes
    PROVE  /\ Record(child, before, l) \in Result
           /\ Record(child, before, l).code = child.code /\ Record(child, before, l).timed = child.timed
           /\ Record(child, before, l).fatal = child.fatal /\ Record(child, before, l).error = child.error
           /\ Record(child, before, l).ran = child.ran /\ Record(child, before, l).tested = child.tested
           /\ Record(child, before, l).source = before.source
           /\ Record(child, before, l).sourceKept = (tree.source = before.source)
<1>1. log[P][l] \in Nat
    BY DEF TypeInv, FilesTyped
<1> QED BY <1>1 DEF Record, Result, Outcome, Tree

LEMMA ResultIsNone == ASSUME NEW r \in Result PROVE r # NoRecord
BY DEF Result, NoRecord

LEMMA ReturnCodeTyped == ASSUME NEW r \in Result PROVE ReturnCode(r) \in Nat
BY DEF ReturnCode, Result

LEMMA AfterTyped == ASSUME TypeInv, After PROVE TypeInv'
<1>1. script \in Running /\ Placed(script) /\ P \in Prefixes /\ Stage = Now(script) /\ Stage \in Captures
      /\ script.pc = "after" /\ script.kind \in {"run", "resume"}
    BY Runs DEF After, Working, Capturing
<1>2. /\ script.child \in Outcome /\ script.before \in Tree /\ script.capture \in Captures
      /\ Stage \in Suites \/ script.capture = Stage
      /\ Stage \in Suites => script.outer \in Tree /\ script.capture = Native[Stage]
    BY <1>1, CaptureNames, SuiteNames DEF Placed, Capturing
<1> DEFINE r == Record(script.child, script.before, script.capture)
<1>3. r \in Result
    BY <1>1, <1>2, RecordTyped
<1>4. rec' \in [Prefixes -> [Captures -> Result \cup {NoRecord}]]
    <2>1. rec' = [rec EXCEPT ![P][script.capture] = r]
        BY DEF After
    <2> QED BY <1>1, <1>2, <1>3, <2>1, PutTyped DEF TypeInv, FilesTyped
<1>5. ScriptTyped(script')
    <2>1. CASE script.capture = Stage
        <3>1. script' = [script EXCEPT !.pc = "returned"]
            BY <2>1 DEF After
        <3>2. script' \in Running
            BY <1>1, <3>1 DEF Running, Place, Working, Capturing
        <3>3. Now(script') = Now(script) /\ script'.kind = script.kind /\ script'.at = script.at
              /\ script'.pc = "returned"
            BY <1>1, <3>1 DEF Running, Now
        <3>4. Placed(script')
            BY <1>1, <3>3 DEF Placed, Working, Capturing, Claiming
        <3> QED BY <3>2, <3>4 DEF ScriptTyped
    <2>2. CASE script.capture # Stage
        <3> DEFINE c == [Passed EXCEPT !.code = ReturnCode(r), !.ran = r.ran, !.tested = r.tested]
        <3>0. c \in Outcome
            BY <1>3, PassedTyped, ReturnCodeTyped DEF Outcome, Result
        <3> HIDE DEF c, r
        <3>1. script' = [script EXCEPT !.pc = "outer", !.capture = Stage, !.before = script.outer, !.child = c]
            BY <2>2 DEF After, c, r
        <3>2. script' \in Running
            BY <1>1, <1>2, <2>2, <3>0, <3>1 DEF Running, Place, Working, Capturing
        <3>3. Now(script') = Now(script) /\ script'.kind = script.kind /\ script'.at = script.at
              /\ script'.pc = "outer" /\ script'.capture = Stage /\ script'.before = script.outer
              /\ script'.child = c
            BY <1>1, <3>1 DEF Running, Now
        <3>4. Placed(script')
            BY <1>1, <1>2, <2>2, <3>0, <3>3 DEF Placed, Working, Capturing, Claiming
        <3> QED BY <3>2, <3>4 DEF ScriptTyped
    <2> QED BY <2>1, <2>2
<1> QED BY <1>4, <1>5 DEF After, TypeInv, FilesTyped

LEMMA AfterNestedTyped == ASSUME TypeInv, AfterNested PROVE TypeInv'
<1>1. script \in Running /\ Placed(script) /\ P \in Prefixes /\ Stage = Now(script) /\ Stage \in Captures
      /\ script.pc = "outer" /\ script.kind \in {"run", "resume"}
    BY Runs DEF AfterNested, Working, Capturing
<1>2. script.child \in Outcome /\ script.before \in Tree
    BY <1>1 DEF Placed, Capturing
<1>3. PICK o \in {script.child, [script.child EXCEPT !.timed = TRUE],
                  [script.child EXCEPT !.code = 1, !.error = TRUE]} :
          /\ rec' = [rec EXCEPT ![P][Stage] = Record(o, script.before, Stage)]
          /\ troubles' = troubles \/ troubles' = troubles + 1
    <2>1. PICK o \in {script.child, [script.child EXCEPT !.timed = TRUE],
                      [script.child EXCEPT !.code = 1, !.error = TRUE]} :
              /\ IF o = script.child THEN UNCHANGED troubles ELSE Trouble
              /\ rec' = [rec EXCEPT ![P][Stage] = Record(o, script.before, Stage)]
        BY Zenon DEF AfterNested
    <2>2. troubles' = troubles \/ troubles' = troubles + 1
        BY <2>1 DEF Trouble
    <2> QED BY <2>1, <2>2
<1>4. o \in Outcome
    <2>1. ASSUME NEW c \in Outcome
          PROVE  [c EXCEPT !.timed = TRUE] \in Outcome /\ [c EXCEPT !.code = 1, !.error = TRUE] \in Outcome
        BY DEF Outcome
    <2> QED BY <1>2, <2>1
<1>5. rec' \in [Prefixes -> [Captures -> Result \cup {NoRecord}]] /\ troubles' \in Nat
    <2>1. Record(o, script.before, Stage) \in Result
        BY <1>1, <1>2, <1>4, RecordTyped
    <2> QED BY <1>1, <1>3, <2>1, PutTyped DEF TypeInv, FilesTyped
<1>6. ScriptTyped(script')
    <2>1. script' = [script EXCEPT !.pc = "returned"]
        BY DEF AfterNested
    <2>2. script' \in Running
        BY <1>1, <2>1 DEF Running, Place, Working, Capturing
    <2>3. Now(script') = Now(script) /\ script'.kind = script.kind /\ script'.at = script.at
          /\ script'.pc = "returned"
        BY <1>1, <2>1 DEF Running, Now
    <2>4. Placed(script')
        BY <1>1, <2>3 DEF Placed, Working, Capturing, Claiming
    <2> QED BY <2>2, <2>4 DEF ScriptTyped
<1> QED BY <1>5, <1>6 DEF AfterNested, TypeInv, FilesTyped

\* The tables but those of one step.
LEMMA GoOnTyped == ASSUME TypeInv, GoOn PROVE TypeInv'
<1>1. script \in Running /\ Placed(script) /\ P \in Prefixes /\ Stage = Now(script) /\ Stage \in Captures
      /\ script.pc = "returned" /\ script.kind \in {"run", "resume"}
    BY Runs DEF GoOn, Working, Capturing
<1>2. PICK d : \/ script' = [Script(script.kind, P, "check") EXCEPT !.at = script.at + 1, !.digests = d]
                  /\ d = IF Stage \in DOMAIN Emits
                         THEN [script.digests EXCEPT ![Emits[Stage]] = elf[P][Emits[Stage]]] ELSE script.digests
               \/ script' = Idle
    BY DEF GoOn, Abort
<1>3. CASE script' # Idle
    <2>1. d \in Digests
        <3>1. script.digests \in Digests /\ elf[P] \in Digests
            BY <1>1 DEF Running, TypeInv, FilesTyped
        <3>2. Stage \in DOMAIN Emits => Emits[Stage] \in Artifacts
            BY OtherNames, ArtifactNames
        <3> QED BY <1>2, <1>3, <3>1, <3>2 DEF Digests
    <2>s. PICK t : t = Script(script.kind, P, "check")
        OBVIOUS
    <2>2. t \in Running /\ t.kind = script.kind
        BY <1>1, <2>s, ScriptRunning DEF Place
    <2>3. script' = [t EXCEPT !.at = script.at + 1, !.digests = d]
        BY <1>2, <1>3, <2>s
    <2>4. script.at \in 1 .. LastStage(script.kind) /\ LastStage(script.kind) \in Nat
        BY <1>1 DEF Placed, Working, LastStage
    <2>5. script' \in Running
        <3>1. script.at + 1 \in Nat
            BY <2>4
        <3> QED BY <2>1, <2>2, <2>3, <3>1 DEF Running
    <2>6. script'.kind = script.kind /\ script'.at = script.at + 1 /\ script'.pc = "check"
        BY <2>s, <2>2, <2>3 DEF Running, Script
    <2>7. Placed(script')
        BY <1>1, <2>4, <2>6 DEF Placed, Working, Capturing, Claiming
    <2> QED BY <2>5, <2>7, QuietTyped DEF GoOn, Quiet, ScriptTyped
<1>4. CASE script' = Idle
    BY <1>4, IdleTyped, QuietTyped DEF GoOn, Quiet
<1> QED BY <1>3, <1>4

LEMMA CheckTyped == ASSUME TypeInv, Check PROVE TypeInv'
<1>1. script \in Running /\ Placed(script) /\ script.pc = "check" /\ script.kind \in {"run", "resume"}
    BY Runs DEF Check
<1>2. script.at \in 1 .. LastStage(script.kind)
    BY <1>1, Lists DEF Check, Placed, Stages, LastStage
<1>3. CASE script' = Idle
    BY <1>3, IdleTyped, QuietTyped DEF Check, Quiet
<1>4. CASE script' # Idle
    <2>1. script' = [script EXCEPT !.pc = "begin"]
        BY <1>4 DEF Check, Abort
    <2>2. script' \in Running
        BY <1>1, <2>1 DEF Running, Place, Working
    <2>3. script'.kind = script.kind /\ script'.at = script.at /\ script'.pc = "begin"
        BY <1>1, <2>1 DEF Running
    <2>4. Placed(script')
        BY <1>1, <1>2, <2>3 DEF Placed, Working, Capturing, Claiming
    <2> QED BY <2>2, <2>4, QuietTyped DEF Check, Quiet, ScriptTyped
<1> QED BY <1>3, <1>4

LEMMA ArchiveTyped == ASSUME TypeInv, Archive PROVE TypeInv'
<1>1. script \in Running /\ Placed(script) /\ script.pc = "archive" /\ script.kind \in {"run", "resume"}
      /\ P \in Prefixes
    BY Runs DEF Archive
<1>2. script' = [script EXCEPT !.pc = "check", !.at = 1]
    BY DEF Archive
<1>3. script' \in Running
    BY <1>1, <1>2 DEF Running, Place
<1>4. script'.kind = script.kind /\ script'.at = 1 /\ script'.pc = "check"
    BY <1>1, <1>2 DEF Running
<1>5. Placed(script')
    BY <1>1, <1>4 DEF Placed, Working, Capturing, Claiming, LastStage
<1>6. archive' \in [Prefixes -> Tree \cup {NoTree}]
    BY <1>1 DEF Archive, TypeInv, FilesTyped
<1> QED BY <1>3, <1>5, <1>6 DEF Archive, TypeInv, FilesTyped, ScriptTyped

LEMMA FinishTyped == ASSUME TypeInv, Finish PROVE TypeInv'
<1>1. script \in Running /\ P \in Prefixes
    BY Runs DEF Finish
<1>2. script.digests \in Digests
    BY <1>1 DEF Running
<1>3. sums' \in [Prefixes -> Digests]
    BY <1>1, <1>2 DEF Finish, TypeInv, FilesTyped
<1> QED BY <1>3, IdleTyped DEF Finish, TypeInv, FilesTyped

LEMMA StartTyped ==
    ASSUME TypeInv, NEW p \in Prefixes, Run(p) \/ Seal(p) \/ \E b \in Prefixes \ {p} : Resume(b, p)
    PROVE  TypeInv'
<1>1. CASE Run(p)
    <2>1. script' = Script("run", p, "archive") /\ ScriptTyped(script')
        <3>1. script' = Script("run", p, "archive")
            BY <1>1 DEF Run
        <3> QED BY <3>1, ScriptRunning DEF ScriptTyped, Placed, Place, Working, Capturing, Claiming
    <2>2. [base |-> "none", source |-> tree.source, producers |-> tree.producers] \in Identity
        BY DEF Identity, TypeInv, FilesTyped, Tree
    <2>3. identity' \in [Prefixes -> Identity \cup {NoIdentity}]
        BY <1>1, <2>2 DEF Run, TypeInv, FilesTyped
    <2> QED BY <1>1, <2>1, <2>3 DEF Run, TypeInv, FilesTyped
<1>2. CASE Seal(p)
    <2>1. script' = Script("seal", p, "compare") /\ ScriptTyped(script')
        <3>1. script' = Script("seal", p, "compare")
            BY <1>2 DEF Seal
        <3> QED BY <3>1, ScriptRunning DEF ScriptTyped, Placed, Place, Working, Capturing, Claiming
    <2>2. handoff' \in [Prefixes -> {"none", "audited", "partial", "sealed"}]
        BY <1>2 DEF Seal, TypeInv, FilesTyped
    <2> QED BY <1>2, <2>1, <2>2 DEF Seal, TypeInv, FilesTyped, files
<1>3. CASE \E b \in Prefixes \ {p} : Resume(b, p)
    <2>1. PICK b \in Prefixes \ {p} : Resume(b, p)
        BY <1>3
    <2>2. PICK t : t = Script("resume", p, "verify")
        OBVIOUS
    <2>3. t \in Running /\ t.kind = "resume" /\ t.prefix = p /\ t.pc = "verify" /\ t.at = 1
        BY <2>2, ScriptRunning DEF Place, Claiming
    <2>4. script' = [t EXCEPT !.base = b, !.before = tree]
        BY <2>1, <2>2 DEF Resume
    <2>5. script' \in Running /\ script'.kind = "resume" /\ script'.prefix = p /\ script'.pc = "verify"
          /\ script'.at = 1 /\ script'.base = b /\ script'.before = tree
        BY <2>3, <2>4 DEF Running, TypeInv, FilesTyped
    <2>6. Placed(script')
        BY <2>5 DEF Placed, Working, Capturing, Claiming, TypeInv, FilesTyped
    <2> QED BY <2>1, <2>5, <2>6, QuietTyped DEF Resume, Quiet, ScriptTyped
<1> QED BY <1>1, <1>2, <1>3

LEMMA VerifyTyped == ASSUME TypeInv, VerifyReused PROVE TypeInv'
<1>1. script \in Running /\ Placed(script) /\ script.pc = "verify"
    BY Runs DEF VerifyReused
<1>2. CASE script' = Idle
    BY <1>2, IdleTyped, QuietTyped DEF VerifyReused, Quiet
<1>3. CASE script' # Idle
    <2>1. script' = [script EXCEPT !.pc = "alias"]
        BY <1>3 DEF VerifyReused
    <2>2. script' \in Running /\ script'.kind = script.kind /\ script'.at = script.at /\ script'.pc = "alias"
          /\ script'.base = script.base /\ script'.before = script.before /\ script'.prefix = script.prefix
        BY <1>1, <2>1 DEF Running, Place, Claiming
    <2>3. Placed(script')
        BY <1>1, <2>2 DEF Placed, Working, Capturing, Claiming
    <2> QED BY <2>2, <2>3, QuietTyped DEF VerifyReused, Quiet, ScriptTyped
<1> QED BY <1>2, <1>3

LEMMA AliasTyped == ASSUME TypeInv, Alias PROVE TypeInv'
<1>1. script \in Running /\ Placed(script) /\ script.pc = "alias" /\ P \in Prefixes
    BY Runs DEF Alias
<1>2. script.at \in 1 .. 8 /\ script.base \in Prefixes /\ Reusable[script.at] \in Captures
    BY <1>1, ReusableNames DEF Placed, Claiming
<1>3. rec' \in [Prefixes -> [Captures -> Result \cup {NoRecord}]] /\ log' \in [Prefixes -> [Captures -> Nat]]
    <2>1. /\ rec' = [rec EXCEPT ![P][Reusable[script.at]] = rec[script.base][Reusable[script.at]]]
          /\ log' = [log EXCEPT ![P][Reusable[script.at]] = log[script.base][Reusable[script.at]]]
        BY DEF Alias
    <2>2. /\ rec \in [Prefixes -> [Captures -> Result \cup {NoRecord}]] /\ log \in [Prefixes -> [Captures -> Nat]]
          /\ rec[script.base][Reusable[script.at]] \in Result \cup {NoRecord}
          /\ log[script.base][Reusable[script.at]] \in Nat
        BY <1>2 DEF TypeInv, FilesTyped
    <2> QED BY <1>1, <1>2, <2>1, <2>2, PutTyped
<1>4. ScriptTyped(script')
    <2>1. CASE script' = [script EXCEPT !.pc = "verify", !.at = script.at + 1] /\ script.at < Len(Reusable)
        <3>1. script' \in Running /\ script'.kind = script.kind /\ script'.at = script.at + 1
              /\ script'.pc = "verify" /\ script'.base = script.base /\ script'.before = script.before
              /\ script'.prefix = script.prefix
            <4>1. script.at + 1 \in Nat
                BY <1>2
            <4> QED BY <1>1, <2>1, <4>1 DEF Running, Place, Claiming
        <3>2. Placed(script')
            BY <1>1, <1>2, <2>1, <3>1, Lists DEF Placed, Working, Capturing, Claiming
        <3> QED BY <3>1, <3>2 DEF ScriptTyped
    <2>2. CASE script' = [script EXCEPT !.pc = "publish"]
        <3>1. script' \in Running /\ script'.kind = script.kind
              /\ script'.pc = "publish" /\ script'.base = script.base /\ script'.before = script.before
              /\ script'.prefix = script.prefix
            BY <1>1, <1>2, <2>2 DEF Running, Place, Claiming
        <3>2. Placed(script')
            BY <1>1, <1>2, <3>1 DEF Placed, Working, Capturing, Claiming
        <3> QED BY <3>1, <3>2 DEF ScriptTyped
    <2> QED BY <2>1, <2>2 DEF Alias
<1> QED BY <1>3, <1>4 DEF Alias, TypeInv, FilesTyped

LEMMA PublishTyped == ASSUME TypeInv, Publish PROVE TypeInv'
<1>1. script \in Running /\ Placed(script) /\ script.pc = "publish" /\ P \in Prefixes
    BY Runs DEF Publish
<1>2. script.base \in Prefixes /\ script.before \in Tree /\ script.kind = "resume"
    BY <1>1 DEF Placed, Claiming
<1> DEFINE kept == [a \in Artifacts |-> IF a \in ReusedArtifacts THEN elf[script.base][a] ELSE 0]
<1>3. kept \in Digests
    BY <1>2 DEF Digests, TypeInv, FilesTyped
<1>4. /\ elf' = [elf EXCEPT ![P] = kept]
      /\ script' = [script EXCEPT !.pc = "archive", !.digests = kept]
      /\ identity' = [identity EXCEPT ![P] = [base |-> script.base, source |-> script.before.source,
                                              producers |-> script.before.producers]]
    BY DEF Publish
<1> HIDE DEF kept
<1>5. script' \in Running /\ script'.kind = script.kind /\ script'.pc = "archive"
    BY <1>1, <1>3, <1>4 DEF Running, Place
<1>6. Placed(script')
    BY <1>2, <1>5 DEF Placed, Working, Capturing, Claiming
<1>7. elf' \in [Prefixes -> Digests] /\ identity' \in [Prefixes -> Identity \cup {NoIdentity}]
    <2>1. [base |-> script.base, source |-> script.before.source,
           producers |-> script.before.producers] \in Identity
        BY <1>2 DEF Identity, Tree
    <2> QED BY <1>1, <1>3, <1>4, <2>1 DEF TypeInv, FilesTyped
<1> QED BY <1>5, <1>6, <1>7 DEF Publish, TypeInv, FilesTyped, ScriptTyped

LEMMA SealingTyped == ASSUME TypeInv, MakeHandoff \/ WriteManifest PROVE TypeInv'
<1>1. script \in Running /\ Placed(script) /\ script.kind = "seal" /\ P \in Prefixes
    BY Runs DEF MakeHandoff, WriteManifest
<1>2. handoff' \in [Prefixes -> {"none", "audited", "partial", "sealed"}]
    BY <1>1 DEF MakeHandoff, WriteManifest, TypeInv, FilesTyped
<1>3. ScriptTyped(script')
    <2>1. CASE script' = Idle
        BY <2>1, IdleTyped
    <2>2. CASE script' # Idle
        <3>1. script' = [script EXCEPT !.pc = "manifest"]
            BY <2>2 DEF MakeHandoff, WriteManifest, Abort
        <3>2. script' \in Running /\ script'.kind = "seal" /\ script'.pc = "manifest"
            BY <1>1, <3>1 DEF Running, Place
        <3>3. Placed(script')
            BY <3>2 DEF Placed, Working, Capturing, Claiming
        <3> QED BY <3>2, <3>3 DEF ScriptTyped
    <2> QED BY <2>1, <2>2
<1> QED BY <1>2, <1>3 DEF MakeHandoff, WriteManifest, TypeInv, FilesTyped, files

LEMMA AroundTyped == ASSUME TypeInv, Edit \/ TakeBack \/ Damage \/ Crash PROVE TypeInv'
<1>1. CASE Edit \/ TakeBack
    <2>1. tree' \in Tree
        <3>1. PICK thing \in DOMAIN tree : \E n \in Version : tree' = [tree EXCEPT ![thing] = n]
            BY <1>1 DEF Edit, TakeBack, Version
        <3>2. tree \in Tree /\ DOMAIN tree = {"source", "producers"}
            BY DEF TypeInv, FilesTyped, Tree
        <3> QED BY <3>1, <3>2 DEF Tree
    <2>2. troubles' \in Nat
        BY <1>1 DEF Edit, TakeBack, Trouble, TypeInv, FilesTyped
    <2>3. UNCHANGED <<script, files, handoff>>
        BY <1>1 DEF Edit, TakeBack
    <2> QED BY <2>1, <2>2, <2>3 DEF files, TypeInv, FilesTyped
<1>2. CASE Damage
    <2>1. PICK p \in Prefixes :
            /\ Trouble
            /\ \/ \E l \in Fragile : log[p][l] # 0 /\ log' = [log EXCEPT ![p][l] = 2 + troubles] /\ UNCHANGED elf
               \/ \E a \in Artifacts : elf[p][a] # 0 /\ elf' = [elf EXCEPT ![p][a] = 2 + troubles] /\ UNCHANGED log
            /\ UNCHANGED <<tree, script, identity, archive, rec, reused, sums, handoff>>
        BY <1>2 DEF Damage
    <2>2. log \in [Prefixes -> [Captures -> Nat]] /\ elf \in [Prefixes -> [Artifacts -> Nat]] /\ troubles \in Nat
          /\ 2 + troubles \in Nat /\ troubles' \in Nat
        BY <2>1 DEF Trouble, TypeInv, FilesTyped, Digests
    <2>3. log' \in [Prefixes -> [Captures -> Nat]]
        <3>1. CASE UNCHANGED log
            BY <2>2, <3>1
        <3>2. CASE ~UNCHANGED log
            <4>1. PICK l \in Fragile : log' = [log EXCEPT ![p][l] = 2 + troubles]
                BY <2>1, <3>2
            <4> QED BY <2>2, <4>1, FragileAssumption, PutTyped
        <3> QED BY <3>1, <3>2
    <2>4. elf' \in [Prefixes -> [Artifacts -> Nat]]
        <3>1. CASE UNCHANGED elf
            BY <2>2, <3>1
        <3>2. CASE ~UNCHANGED elf
            <4>1. PICK a \in Artifacts : elf' = [elf EXCEPT ![p][a] = 2 + troubles]
                BY <2>1, <3>2
            <4> QED BY <2>2, <4>1, PutTyped
        <3> QED BY <3>1, <3>2
    <2> QED BY <2>1, <2>2, <2>3, <2>4 DEF TypeInv, FilesTyped, Digests
<1>3. CASE Crash
    BY <1>3, IdleTyped DEF Crash, Trouble, TypeInv, FilesTyped, files
<1> QED BY <1>1, <1>2, <1>3

-----------------------------------------------------------------------------
(* How the scripts move.                                                   *)

\* The same script, at the same stage.
Same(s, t) ==
    /\ t \in Running /\ t.kind = s.kind /\ t.prefix = s.prefix /\ t.base = s.base
    /\ t.at = s.at /\ t.digests = s.digests

Chained(pc) ==
    /\ script # Idle /\ script \in Running /\ Placed(script) /\ script.pc = pc
    /\ script.kind \in {"run", "resume"} /\ P = script.prefix /\ script.prefix \in Prefixes
    /\ Stage = Now(script) /\ (pc \in Working => Now(script) \in Captures)

LEMMA Chaining ==
    ASSUME TypeInv, NEW kinds, NEW pc, At(kinds, pc), kinds \subseteq {"run", "resume"}
    PROVE  Chained(pc)
<1>1. "none" \notin kinds
    OBVIOUS
<1> QED BY <1>1, Runs DEF Chained, P

LEMMA BeginMoves ==
    ASSUME TypeInv, Begin, script' # Idle
    PROVE  /\ Chained("begin") /\ Same(script, script') /\ script'.capture = Now(script)
           /\ script'.pc = (IF Now(script) \in Suites THEN "nested" ELSE "child")
           /\ script'.before = tree
           /\ rec[script.prefix][Now(script)] = NoRecord /\ log[script.prefix][Now(script)] = 0
           /\ log' = [log EXCEPT ![script.prefix][Now(script)] = 1]
<1>1. Chained("begin")
    BY Chaining DEF Begin
<1>2. /\ New(Stage) /\ log' = [log EXCEPT ![P][Stage] = 1]
      /\ script' = [script EXCEPT !.before = tree, !.capture = Stage,
                                  !.pc = IF Stage \in DOMAIN Native THEN "nested" ELSE "child"]
    BY DEF Begin, Abort
<1>3. script' \in Running
    BY <1>1, <1>2 DEF Running, Chained, Place, Working, Capturing, TypeInv, FilesTyped
<1> QED BY <1>1, <1>2, <1>3 DEF Chained, New, Same, Running, Suites, P

LEMMA BeginNestedMoves ==
    ASSUME TypeInv, BeginNested
    PROVE  /\ Chained("nested") /\ Same(script, script') /\ script'.capture = Native[Now(script)]
           /\ Now(script) \in Suites /\ script'.pc = "child" /\ script'.before = tree
           /\ script'.outer = script.before
           /\ log' = [log EXCEPT ![script.prefix][Native[Now(script)]] = 1]
           /\ Native[Now(script)] \in Captures /\ script' # Idle
<1>1. Chained("nested")
    BY Chaining DEF BeginNested
<1>2. Now(script) \in Suites /\ Native[Now(script)] \in Captures
    BY <1>1, CaptureNames, SuiteNames DEF Chained, Placed
<1>3. /\ log' = [log EXCEPT ![P][Native[Stage]] = 1]
      /\ script' = [script EXCEPT !.pc = "child", !.outer = script.before, !.before = tree,
                                  !.capture = Native[Stage]]
    BY DEF BeginNested
<1>4. script' \in Running
    BY <1>1, <1>2, <1>3 DEF Running, Chained, Placed, Place, Working, Capturing, TypeInv, FilesTyped
<1> QED BY <1>1, <1>2, <1>3, <1>4 DEF Chained, Same, Running, Idle

\* What the child of a capture may do.
LEMMA ChildMoves ==
    ASSUME TypeInv, Child
    PROVE  /\ Chained("child") /\ script' # Idle /\ script.capture \in Captures
           /\ script'.kind = script.kind /\ script'.prefix = script.prefix /\ script'.base = script.base
           /\ script'.at = script.at /\ script'.digests = script.digests
           /\ script'.pc = "after" /\ script'.capture = script.capture
           /\ script'.before = script.before /\ script'.outer = script.outer
           /\ \E o \in {Passed} \cup Failures(script.kind, script.capture) :
                script' = [script EXCEPT !.pc = "after",
                                         !.child = [o EXCEPT !.ran = tree.source,
                                                             !.tested = Tested(script.capture)]]
           /\ elf' = IF script.capture \in DOMAIN Emits
                     THEN [elf EXCEPT ![script.prefix][Emits[script.capture]] = 1] ELSE elf
           /\ troubles' = troubles \/ troubles' = troubles + 1
<1>1. Chained("child")
    BY Chaining DEF Child
<1>2. script.capture \in Captures
    BY <1>1, CaptureNames, SuiteNames DEF Chained, Placed, Working, Capturing
<1>3. PICK o \in {Passed} \cup Failures(script.kind, script.capture) :
        /\ IF o = Passed THEN CanPass(script.capture) /\ UNCHANGED troubles
           ELSE IF CanPass(script.capture) THEN Trouble
                ELSE o = [Passed EXCEPT !.code = 1] /\ UNCHANGED troubles
        /\ script' = [script EXCEPT !.pc = "after", !.child = [o EXCEPT !.ran = tree.source,
                                                                        !.tested = Tested(script.capture)]]
        /\ elf' = IF script.capture \in DOMAIN Emits THEN [elf EXCEPT ![P][Emits[script.capture]] = 1] ELSE elf
    BY Zenon DEF Child
<1>4. troubles' = troubles \/ troubles' = troubles + 1
    BY <1>3 DEF Trouble
<1>5. script' = [script EXCEPT !.pc = "after", !.child = [o EXCEPT !.ran = tree.source,
                                                                   !.tested = Tested(script.capture)]]
    BY <1>3
<1>6. script'.kind = script.kind /\ script'.prefix = script.prefix /\ script'.base = script.base
           /\ script'.at = script.at /\ script'.digests = script.digests
           /\ script'.pc = "after" /\ script'.capture = script.capture
           /\ script'.before = script.before /\ script'.outer = script.outer /\ script' # Idle
    BY <1>1, <1>5 DEF Running, Chained, Idle
<1> QED BY <1>1, <1>2, <1>3, <1>4, <1>5, <1>6 DEF Chained

LEMMA AfterMoves ==
    ASSUME TypeInv, After
    PROVE  /\ Chained("after") /\ Same(script, script') /\ script.capture \in Captures
           /\ script' # Idle
           /\ rec' = [rec EXCEPT ![script.prefix][script.capture] =
                                   Record(script.child, script.before, script.capture)]
           /\ script'.pc = (IF Now(script) \in Suites THEN "outer" ELSE "returned")
           /\ Now(script) \notin Suites => script.capture = Now(script)
           /\ Now(script) \in Suites =>
                /\ script.capture = Native[Now(script)] /\ script'.before = script.outer
                /\ script'.capture = Now(script)
                /\ LET r == Record(script.child, script.before, script.capture) IN
                   script'.child = [Passed EXCEPT !.code = ReturnCode(r), !.ran = r.ran, !.tested = r.tested]
<1>1. Chained("after")
    BY Chaining DEF After
<1>2. /\ script.capture \in Captures
      /\ Now(script) \notin Suites => script.capture = Now(script)
      /\ Now(script) \in Suites => script.capture = Native[Now(script)] /\ script.capture # Now(script)
    BY <1>1, CaptureNames, SuiteNames DEF Chained, Placed, Working, Capturing
<1>3. script' \in Running
    BY AfterTyped, <1>2, <1>1 DEF TypeInv, ScriptTyped, After, Idle, Running, Chained
<1> DEFINE r == Record(script.child, script.before, script.capture)
<1> DEFINE c == [Passed EXCEPT !.code = ReturnCode(r), !.ran = r.ran, !.tested = r.tested]
<1>4. /\ rec' = [rec EXCEPT ![P][script.capture] = r]
      /\ script' = IF script.capture = Stage THEN [script EXCEPT !.pc = "returned"]
                   ELSE [script EXCEPT !.pc = "outer", !.capture = Stage, !.before = script.outer, !.child = c]
    BY DEF After
<1> HIDE DEF r, c
<1>5. CASE Now(script) \in Suites
    <2>1. script' = [script EXCEPT !.pc = "outer", !.capture = Now(script), !.before = script.outer, !.child = c]
        BY <1>1, <1>2, <1>4, <1>5 DEF Chained
    <2>2. /\ script'.pc = "outer" /\ script'.capture = Now(script) /\ script'.before = script.outer
          /\ script'.child = c /\ Same(script, script') /\ script' # Idle
        BY <1>1, <1>3, <2>1 DEF Same, Chained, Running, Idle
    <2> QED BY <1>1, <1>2, <1>4, <1>5, <2>2 DEF Chained, r, c
<1>6. CASE Now(script) \notin Suites
    <2>1. script' = [script EXCEPT !.pc = "returned"]
        BY <1>1, <1>2, <1>4, <1>6 DEF Chained
    <2>2. /\ script'.pc = "returned" /\ Same(script, script') /\ script' # Idle
        BY <1>1, <1>3, <2>1 DEF Same, Chained, Running, Idle
    <2> QED BY <1>1, <1>2, <1>4, <1>6, <2>2 DEF Chained, r
<1> QED BY <1>5, <1>6

LEMMA AfterNestedMoves ==
    ASSUME TypeInv, AfterNested
    PROVE  /\ Chained("outer") /\ Same(script, script') /\ script'.pc = "returned" /\ script' # Idle
           /\ Now(script) \in Suites /\ Native[Now(script)] \in Captures
           /\ \E o \in {script.child, [script.child EXCEPT !.timed = TRUE],
                        [script.child EXCEPT !.code = 1, !.error = TRUE]} :
                rec' = [rec EXCEPT ![script.prefix][Now(script)] = Record(o, script.before, Now(script))]
           /\ troubles' = troubles \/ troubles' = troubles + 1
<1>1. Chained("outer")
    BY Chaining DEF AfterNested
<1>2. Now(script) \in Suites /\ Native[Now(script)] \in Captures
    BY <1>1, CaptureNames, SuiteNames DEF Chained, Placed
<1>3. PICK o \in {script.child, [script.child EXCEPT !.timed = TRUE],
                  [script.child EXCEPT !.code = 1, !.error = TRUE]} :
        /\ IF o = script.child THEN UNCHANGED troubles ELSE Trouble
        /\ rec' = [rec EXCEPT ![P][Stage] = Record(o, script.before, Stage)]
    BY Zenon DEF AfterNested
<1>4. troubles' = troubles \/ troubles' = troubles + 1
    BY <1>3 DEF Trouble
<1>5. script' = [script EXCEPT !.pc = "returned"]
    BY DEF AfterNested
<1>6. Same(script, script') /\ script'.pc = "returned" /\ script' # Idle
    BY <1>1, <1>5 DEF Same, Chained, Running, Idle, Place, Working
<1> QED BY <1>1, <1>2, <1>3, <1>4, <1>6 DEF Chained

\* The chain goes on to the next stage.
LEMMA GoOnMoves ==
    ASSUME TypeInv, GoOn, script' # Idle
    PROVE  /\ Chained("returned") /\ script' \in Running /\ script'.kind = script.kind
           /\ script'.prefix = script.prefix /\ script'.pc = "check" /\ script'.at = script.at + 1
           /\ ReturnCode(rec[script.prefix][Now(script)]) = 0
           /\ script'.digests = IF Now(script) \in DOMAIN Emits
                                THEN [script.digests EXCEPT ![Emits[Now(script)]] =
                                        elf[script.prefix][Emits[Now(script)]]]
                                ELSE script.digests
           /\ Now(script) \in Suites =>
                LET a == Executes[Native[Now(script)]] IN elf[script.prefix][a] = script.digests[a]
<1>1. Chained("returned")
    BY Chaining DEF GoOn
<1> DEFINE d == IF Stage \in DOMAIN Emits
                THEN [script.digests EXCEPT ![Emits[Stage]] = elf[P][Emits[Stage]]] ELSE script.digests
<1> DEFINE again == IF Stage \in DOMAIN Inspects /\ script.kind = "run" THEN {Executes[Inspects[Stage]]}
                    ELSE IF Stage \in DOMAIN Native THEN {Executes[Native[Stage]]} ELSE {}
<1>2. /\ script' = [Script(script.kind, P, "check") EXCEPT !.at = script.at + 1, !.digests = d]
      /\ ReturnCode(rec[P][Stage]) = 0 /\ \A a \in again : elf[P][a] = script.digests[a]
    BY DEF GoOn, Abort
<1>3. Now(script) \in Suites => again = {Executes[Native[Now(script)]]}
    BY <1>1, OtherNames, SuiteNames DEF Chained, Suites
<1> HIDE DEF again
<1>4. PICK t : t = Script(script.kind, P, "check")
    OBVIOUS
<1>5. t \in Running /\ t.kind = script.kind /\ t.prefix = script.prefix /\ t.pc = "check"
    BY <1>1, <1>4, ScriptRunning DEF Place, Chained
<1>6. script' \in Running
    BY GoOnTyped DEF TypeInv, ScriptTyped
<1>7. script' = [t EXCEPT !.at = script.at + 1, !.digests = d]
    BY <1>2, <1>4
<1> HIDE DEF d
<1>8. script'.kind = script.kind /\ script'.prefix = script.prefix /\ script'.pc = "check"
      /\ script'.at = script.at + 1 /\ script'.digests = d
    BY <1>5, <1>7 DEF Running
<1> QED BY <1>1, <1>2, <1>3, <1>6, <1>8 DEF d, Chained

LEMMA CheckMoves ==
    ASSUME TypeInv, Check, script' # Idle
    PROVE  /\ Chained("check") /\ Same(script, script') /\ script'.pc = "begin"
           /\ script.at \in 1 .. LastStage(script.kind)
<1>1. Chained("check")
    BY Chaining DEF Check
<1>2. script.at \in 1 .. LastStage(script.kind)
    BY <1>1, Lists DEF Check, Placed, Stages, LastStage
<1>3. script' = [script EXCEPT !.pc = "begin"]
    BY DEF Check, Abort
<1> QED BY <1>1, <1>2, <1>3 DEF Same, Chained, Running, Place, Working

LEMMA ArchiveMoves ==
    ASSUME TypeInv, Archive
    PROVE  /\ Chained("archive") /\ script' \in Running /\ script'.kind = script.kind
           /\ script'.prefix = script.prefix /\ script'.pc = "check" /\ script'.at = 1
           /\ script'.digests = script.digests /\ script' # Idle
           /\ archive' = [archive EXCEPT ![script.prefix] = tree]
<1>1. Chained("archive")
    BY Chaining DEF Archive
<1>2. script' = [script EXCEPT !.pc = "check", !.at = 1]
    BY DEF Archive
<1>3. /\ script' \in Running /\ script'.kind = script.kind
      /\ script'.prefix = script.prefix /\ script'.pc = "check" /\ script'.at = 1
      /\ script'.digests = script.digests /\ script' # Idle
    BY <1>1, <1>2 DEF Chained, Running, Place, Idle
<1>4. archive' = [archive EXCEPT ![script.prefix] = tree]
    BY <1>1 DEF Chained, Archive
<1> QED BY <1>1, <1>3, <1>4

LEMMA FinishMoves ==
    ASSUME TypeInv, Finish
    PROVE  /\ Chained("check") /\ script' = Idle /\ script.at \notin 1 .. LastStage(script.kind)
           /\ sums' = sums \/ sums' = [sums EXCEPT ![script.prefix] = script.digests]
<1>1. Chained("check")
    BY Chaining DEF Finish
<1>2. script.at \notin 1 .. LastStage(script.kind)
    BY <1>1, Lists DEF Finish, Stages, LastStage, Chained
<1>3. sums' = sums \/ sums' = [sums EXCEPT ![script.prefix] = script.digests]
    BY <1>1 DEF Finish, Chained
<1> QED BY <1>1, <1>2, <1>3 DEF Finish

LEMMA IdentityIsNone == ASSUME NEW i, i.base = "none" \/ i.base \in Prefixes PROVE i # NoIdentity
<1>1. NoIdentity.base = "no identity"
    BY DEF NoIdentity
<1> QED BY <1>1, PrefixesAssumption

LEMMA RunMoves ==
    ASSUME TypeInv, NEW p \in Prefixes, Run(p)
    PROVE  /\ script = Idle /\ identity[p] = NoIdentity
           /\ script' # Idle /\ script' \in Running /\ script'.kind = "run" /\ script'.prefix = p
           /\ script'.pc = "archive"
           /\ identity'[p] # NoIdentity /\ identity'[p].base = "none"
           /\ \A q \in Prefixes : q # p => identity'[q] = identity[q]
<1>1. script' = Script("run", p, "archive") /\ script = Idle /\ identity[p] = NoIdentity
      /\ identity' = [identity EXCEPT ![p] = [base |-> "none", source |-> tree.source,
                                              producers |-> tree.producers]]
    BY DEF Run
<1>2. script' \in Running /\ script'.kind = "run" /\ script'.prefix = p /\ script'.pc = "archive"
    BY <1>1, ScriptRunning DEF Place
<1>3. script' # Idle
    BY <1>2 DEF Running, Idle
<1>4. identity'[p].base = "none" /\ \A q \in Prefixes : q # p => identity'[q] = identity[q]
    BY <1>1 DEF TypeInv, FilesTyped
<1>5. identity'[p] # NoIdentity
    BY <1>4, IdentityIsNone
<1> QED BY <1>1, <1>2, <1>3, <1>4, <1>5

LEMMA SealMoves ==
    ASSUME TypeInv, NEW p \in Prefixes, Seal(p)
    PROVE  /\ script = Idle /\ AuditHolds(p) /\ handoff[p] \in {"none", "audited"}
           /\ handoff' = [handoff EXCEPT ![p] = "audited"]
           /\ script' # Idle /\ script' \in Running /\ script'.kind = "seal" /\ script'.prefix = p
           /\ script'.pc = "compare"
<1>1. script' = Script("seal", p, "compare")
    BY DEF Seal
<1>2. script' \in Running /\ script'.kind = "seal" /\ script'.prefix = p /\ script'.pc = "compare"
    BY <1>1, ScriptRunning DEF Place
<1>3. script' # Idle
    BY <1>2 DEF Running, Idle
<1> QED BY <1>2, <1>3 DEF Seal

LEMMA ResumeMoves ==
    ASSUME TypeInv, NEW p \in Prefixes, NEW b \in Prefixes \ {p}, Resume(b, p)
    PROVE  /\ script = Idle /\ identity[b] # NoIdentity /\ NoFiles(p)
           /\ script' # Idle /\ script' \in Running /\ script'.kind = "resume" /\ script'.prefix = p
           /\ script'.base = b /\ script'.before = tree /\ script'.at = 1 /\ script'.pc = "verify"
<1>1. PICK t : t = Script("resume", p, "verify")
    OBVIOUS
<1>2. t \in Running /\ t.kind = "resume" /\ t.prefix = p /\ t.pc = "verify" /\ t.at = 1
    BY <1>1, ScriptRunning DEF Place, Claiming
<1>3. script' = [t EXCEPT !.base = b, !.before = tree]
    BY <1>1 DEF Resume
<1>4. script' \in Running /\ script'.kind = "resume" /\ script'.prefix = p /\ script'.pc = "verify"
      /\ script'.at = 1 /\ script'.base = b /\ script'.before = tree
    BY <1>2, <1>3 DEF Running, TypeInv, FilesTyped
<1>5. script' # Idle
    BY <1>4 DEF Running, Idle
<1> QED BY <1>4, <1>5 DEF Resume

\* A continuation at one of the results it takes over.
Taking(pc) ==
    /\ script # Idle /\ script \in Running /\ script.pc = pc /\ script.kind = "resume" /\ P = script.prefix
    /\ script.prefix \in Prefixes /\ script.base \in Prefixes \ {script.prefix} /\ script.before \in Tree

LEMMA VerifyMoves ==
    ASSUME TypeInv, VerifyReused, script' # Idle
    PROVE  /\ Taking("verify") /\ Same(script, script') /\ script'.pc = "alias"
           /\ script'.before = script.before /\ script.at \in 1 .. 8
           /\ Succeeded(rec[script.base][Reusable[script.at]], script.before.source)
<1>1. Chained("verify")
    BY Chaining DEF VerifyReused
<1>2. Taking("verify") /\ script.at \in 1 .. 8
    BY <1>1 DEF Chained, Placed, Claiming, Taking
<1>3. script' = [script EXCEPT !.pc = "alias"]
      /\ Succeeded(rec[script.base][Reusable[script.at]], script.before.source)
    BY DEF VerifyReused
<1> QED BY <1>2, <1>3 DEF Taking, Same, Running, Place, Claiming

LEMMA AliasMoves ==
    ASSUME TypeInv, Alias
    PROVE  /\ Taking("alias") /\ script.at \in 1 .. 8 /\ Reusable[script.at] \in Captures
           /\ rec' = [rec EXCEPT ![script.prefix][Reusable[script.at]] = rec[script.base][Reusable[script.at]]]
           /\ log' = [log EXCEPT ![script.prefix][Reusable[script.at]] = log[script.base][Reusable[script.at]]]
           /\ script' # Idle /\ script' \in Running /\ script'.kind = script.kind /\ script'.prefix = script.prefix
           /\ script'.base = script.base /\ script'.before = script.before
           /\ \/ script.at < 8 /\ script'.pc = "verify" /\ script'.at = script.at + 1
              \/ script.at = 8 /\ script'.pc = "publish"
<1>1. Chained("alias")
    BY Chaining DEF Alias
<1>2. Taking("alias") /\ script.at \in 1 .. 8
    BY <1>1 DEF Chained, Placed, Claiming, Taking
<1>3. Reusable[script.at] \in Captures
    BY <1>2, ReusableNames
<1>4. /\ rec' = [rec EXCEPT ![P][Reusable[script.at]] = rec[script.base][Reusable[script.at]]]
      /\ log' = [log EXCEPT ![P][Reusable[script.at]] = log[script.base][Reusable[script.at]]]
      /\ script' = IF script.at < Len(Reusable) THEN [script EXCEPT !.pc = "verify", !.at = script.at + 1]
                   ELSE [script EXCEPT !.pc = "publish"]
    BY DEF Alias
<1>5. CASE script.at < 8
    <2>1. script' = [script EXCEPT !.pc = "verify", !.at = script.at + 1]
        BY <1>4, <1>5, Lists
    <2>2. script.at + 1 \in Nat
        BY <1>2
    <2>3. script' # Idle /\ script' \in Running /\ script'.kind = script.kind /\ script'.prefix = script.prefix
          /\ script'.base = script.base /\ script'.before = script.before
          /\ script'.pc = "verify" /\ script'.at = script.at + 1
        BY <1>2, <2>1, <2>2 DEF Taking, Running, Place, Claiming, Idle
    <2> QED BY <1>2, <1>3, <1>4, <1>5, <2>3 DEF Taking
<1>6. CASE script.at = 8
    <2>1. script' = [script EXCEPT !.pc = "publish"]
        BY <1>4, <1>6, Lists
    <2>2. script' # Idle /\ script' \in Running /\ script'.kind = script.kind /\ script'.prefix = script.prefix
          /\ script'.base = script.base /\ script'.before = script.before /\ script'.pc = "publish"
        BY <1>2, <2>1 DEF Taking, Running, Place, Claiming, Idle
    <2> QED BY <1>2, <1>3, <1>4, <1>6, <2>2 DEF Taking
<1> QED BY <1>2, <1>5, <1>6

LEMMA PublishMoves ==
    ASSUME TypeInv, Publish
    PROVE  /\ Taking("publish") /\ script' # Idle /\ script' \in Running /\ script'.kind = script.kind
           /\ script'.prefix = script.prefix /\ script'.pc = "archive" /\ script'.digests = elf'[script.prefix]
           /\ identity'[script.prefix] # NoIdentity /\ identity'[script.prefix].base = script.base
           /\ identity'[script.prefix].source = script.before.source
           /\ \A q \in Prefixes : q # script.prefix => identity'[q] = identity[q] /\ elf'[q] = elf[q]
           /\ \A a \in Artifacts : elf'[script.prefix][a] \in {0, elf[script.base][a]}
<1>1. Chained("publish")
    BY Chaining DEF Publish
<1>2. Taking("publish")
    BY <1>1 DEF Chained, Placed, Claiming, Taking
<1> DEFINE kept == [a \in Artifacts |-> IF a \in ReusedArtifacts THEN elf[script.base][a] ELSE 0]
<1>3. /\ elf' = [elf EXCEPT ![P] = kept]
      /\ script' = [script EXCEPT !.pc = "archive", !.digests = kept]
      /\ identity' = [identity EXCEPT ![P] = [base |-> script.base, source |-> script.before.source,
                                              producers |-> script.before.producers]]
    BY DEF Publish
<1>4. kept \in Digests /\ \A a \in Artifacts : kept[a] \in {0, elf[script.base][a]}
    BY <1>2 DEF Taking, Digests, TypeInv, FilesTyped
<1> HIDE DEF kept
<1>5. /\ elf'[script.prefix] = kept /\ \A q \in Prefixes : q # script.prefix => elf'[q] = elf[q]
    BY <1>2, <1>3 DEF Taking, TypeInv, FilesTyped
<1>6. /\ identity'[script.prefix].base = script.base /\ identity'[script.prefix].source = script.before.source
      /\ \A q \in Prefixes : q # script.prefix => identity'[q] = identity[q]
    BY <1>2, <1>3 DEF Taking, TypeInv, FilesTyped
<1>7. identity'[script.prefix] # NoIdentity
    <2>1. script.base \in Prefixes
        BY <1>2 DEF Taking
    <2> QED BY <1>6, <2>1, IdentityIsNone
<1>8. script' # Idle /\ script' \in Running /\ script'.kind = script.kind
      /\ script'.prefix = script.prefix /\ script'.pc = "archive" /\ script'.digests = kept
    BY <1>2, <1>3, <1>4 DEF Taking, Running, Place, Idle
<1> QED BY <1>2, <1>4, <1>5, <1>6, <1>7, <1>8

LEMMA SealingMoves ==
    ASSUME TypeInv, MakeHandoff \/ WriteManifest
    PROVE  /\ script # Idle /\ script.kind = "seal" /\ script.prefix \in Prefixes
           /\ \A q \in Prefixes : q # script.prefix => handoff'[q] = handoff[q]
           /\ handoff'[script.prefix] \in {"partial", "sealed", handoff[script.prefix]}
           /\ handoff'[script.prefix] = "sealed" => handoff[script.prefix] = "sealed" \/ script.pc = "manifest"
           /\ script' # Idle => /\ script' \in Running /\ script'.kind = "seal" /\ script'.pc = "manifest"
                                /\ script'.prefix = script.prefix
                                /\ ArchiveHolds(script.prefix)
                                /\ handoff'[script.prefix] = "partial"
           /\ UNCHANGED <<tree, files, troubles>>
<1>1. script # Idle /\ script \in Running /\ script.kind = "seal" /\ P = script.prefix /\ P \in Prefixes
    BY Runs DEF MakeHandoff, WriteManifest, P
<1>2. CASE MakeHandoff
    <2>1. CASE script' = Idle /\ UNCHANGED handoff
        BY <1>1, <1>2, <2>1 DEF MakeHandoff
    <2>2. CASE ~(script' = Idle /\ UNCHANGED handoff)
        <3>1. /\ ArchiveHolds(P) /\ handoff' = [handoff EXCEPT ![P] = "partial"]
              /\ script' = [script EXCEPT !.pc = "manifest"]
            BY <1>2, <2>2 DEF MakeHandoff, Abort
        <3>2. script' \in Running /\ script'.kind = "seal" /\ script'.pc = "manifest"
              /\ script'.prefix = script.prefix
            BY <1>1, <3>1 DEF Running, Place
        <3>3. handoff'[P] = "partial" /\ \A q \in Prefixes : q # P => handoff'[q] = handoff[q]
            BY <1>1, <3>1 DEF TypeInv, FilesTyped
        <3> QED BY <1>1, <1>2, <3>1, <3>2, <3>3 DEF MakeHandoff
    <2> QED BY <2>1, <2>2
<1>3. CASE WriteManifest
    <2>1. handoff'[P] = "sealed" /\ \A q \in Prefixes : q # P => handoff'[q] = handoff[q]
        BY <1>1, <1>3 DEF WriteManifest, TypeInv, FilesTyped
    <2> QED BY <1>1, <1>3, <2>1 DEF WriteManifest, At
<1> QED BY <1>2, <1>3

-----------------------------------------------------------------------------
(* Names are free.                                                         *)

\* What a result or an executable of a prefix presupposes.
Noted(p) ==
    /\ \A l \in Captures : rec[p][l] # NoRecord => log[p][l] # 0
    /\ \A s \in Suites : rec[p][Native[s]] # NoRecord => log[p][s] # 0
Blank(p) ==
    identity[p] = NoIdentity => elf[p] = Nothing /\ sums[p] = Nothing /\ handoff[p] = "none"
Based(p) ==
    identity[p] # NoIdentity /\ identity[p].base # "none" =>
      /\ identity[p].base \in Prefixes /\ identity[p].base # p
      /\ \A i \in 1 .. 8 : rec[identity[p].base][Reusable[i]] # NoRecord

\* What the script that writes under a prefix finds there, at each place.
Unused ==
    /\ handoff[script.prefix] = "none" /\ sums[script.prefix] = Nothing
    /\ script.pc \in Claiming <=> identity[script.prefix] = NoIdentity
    /\ script.pc \notin Claiming => (script.kind = "run" <=> identity[script.prefix].base = "none")
Claimed ==
    /\ script.pc \in {"verify", "alias"} => \A i \in 1 .. 8 :
         IF i < script.at
         THEN rec[script.prefix][Reusable[i]] # NoRecord /\ rec[script.base][Reusable[i]] # NoRecord
         ELSE rec[script.prefix][Reusable[i]] = NoRecord
    /\ script.pc = "alias" => rec[script.base][Reusable[script.at]] # NoRecord
    /\ script.pc = "publish" => \A i \in 1 .. 8 : rec[script.base][Reusable[i]] # NoRecord
Behind ==
    script.pc = "check" \/ script.pc \in Working =>
      \A i \in 1 .. script.at - 1 : rec[script.prefix][StageOf(script.kind, i)] # NoRecord
Ahead ==
    /\ script.pc \in Capturing => rec[script.prefix][Now(script)] = NoRecord /\ log[script.prefix][Now(script)] # 0
    /\ script.pc \in {"nested", "child", "after"} /\ Now(script) \in Suites =>
         rec[script.prefix][Native[Now(script)]] = NoRecord
    /\ script.pc \in {"child", "after"} => log[script.prefix][script.capture] # 0
    /\ script.pc = "returned" => rec[script.prefix][Now(script)] # NoRecord
Free ==
    /\ script # Idle /\ script.kind = "seal" => handoff[script.prefix] # "none"
    /\ script # Idle /\ script.kind # "seal" => Unused /\ Claimed /\ Behind /\ Ahead

NamedInv == \A p \in Prefixes : Noted(p) /\ Blank(p) /\ Based(p)
FreeInv == NamedInv /\ Free

\* Results are added, never replaced.
Adds == \A p \in Prefixes, l \in Captures : rec[p][l] # NoRecord => rec'[p][l] = rec[p][l]
Fills == \A p \in Prefixes, l \in Captures : log[p][l] # 0 => log'[p][l] # 0

LEMMA IdleFree == ASSUME script' = Idle PROVE Free'
BY DEF Free

LEMMA QuietNamed ==
    ASSUME NamedInv, UNCHANGED <<identity, rec, log, elf, sums, handoff>> PROVE NamedInv' /\ Adds /\ Fills
BY DEF NamedInv, Noted, Blank, Based, Adds, Fills

\* Files that were only added to.
LEMMA AddedBased ==
    ASSUME NamedInv, Adds, UNCHANGED identity, NEW p \in Prefixes PROVE Based(p)'
<1>1. Based(p)
    BY DEF NamedInv
<1>2. \A i \in 1 .. 8 : Reusable[i] \in Captures
    BY ReusableNames
<1> QED BY <1>1, <1>2 DEF Based, Adds

LEMMA FilledNoted ==
    ASSUME NamedInv, Fills, UNCHANGED rec, NEW p \in Prefixes PROVE Noted(p)'
<1>1. \A s \in Suites : s \in Captures /\ Native[s] \in Captures
    BY SuiteNames, CaptureNames
<1>2. Noted(p)
    BY DEF NamedInv
<1> QED BY <1>1, <1>2 DEF Noted, Fills

\* A script that works goes on under the prefix it claimed.
LEMMA WorkGoesOn ==
    ASSUME Free, script # Idle, script.kind \in {"run", "resume"}, script.pc \notin Claiming,
           script'.pc \notin Claiming, script'.prefix = script.prefix, script'.kind = script.kind,
           UNCHANGED <<identity, sums, handoff>>
    PROVE  Unused' /\ Claimed'
BY DEF Free, Unused, Claimed, Claiming

LEMMA StaysBehind ==
    ASSUME Free, Adds, script # Idle, Placed(script), script.kind \in {"run", "resume"},
           script.prefix \in Prefixes, script.at \in Nat,
           script.pc = "check" \/ script.pc \in Working, script'.pc = "check" \/ script'.pc \in Working,
           script'.prefix = script.prefix, script'.kind = script.kind,
           script'.at = script.at \/ (script'.at = script.at + 1 /\ script.pc = "returned")
    PROVE  Behind'
<1>1. Behind /\ Ahead
    BY DEF Free
<1>2. script.at \in 1 .. LastStage(script.kind) + 1 /\ LastStage(script.kind) \in Nat
      /\ (script.pc = "returned" => script.at \in 1 .. LastStage(script.kind))
    BY DEF Placed, LastStage, Working
<1>3. \A i \in 1 .. script.at - 1 : StageOf(script.kind, i) \in Captures
                                    /\ rec[script.prefix][StageOf(script.kind, i)] # NoRecord
    BY <1>1, <1>2, StageNames DEF Behind
<1>4. script.pc = "returned" => StageOf(script.kind, script.at) \in Captures
                                /\ rec[script.prefix][StageOf(script.kind, script.at)] # NoRecord
    BY <1>1, <1>2, StageNames DEF Ahead, Now
<1>5. \A i \in 1 .. script'.at - 1 : rec'[script.prefix][StageOf(script.kind, i)] # NoRecord
    BY <1>2, <1>3, <1>4 DEF Adds
<1> QED BY <1>5 DEF Behind

LEMMA BeginFree == ASSUME TypeInv, FreeInv, Begin PROVE FreeInv' /\ Adds /\ Fills
<1>1. CASE script' = Idle /\ UNCHANGED log
    BY <1>1, QuietNamed, IdleFree DEF Begin, FreeInv
<1>2. CASE ~(script' = Idle /\ UNCHANGED log)
    <2>0. script' # Idle
        <3>1. script' = [script EXCEPT !.before = tree, !.capture = Stage,
                                       !.pc = IF Stage \in DOMAIN Native THEN "nested" ELSE "child"]
            BY <1>2 DEF Begin, Abort
        <3>2. script \in Running
            BY Chaining DEF Begin, Chained
        <3> QED BY <3>1, <3>2 DEF Running, Idle
    <2> PICK p \in Prefixes : p = script.prefix
        BY <2>0, BeginMoves DEF Chained
    <2> PICK l \in Captures : l = Now(script)
        BY <2>0, BeginMoves DEF Chained, Working
    <2>1. /\ rec[p][l] = NoRecord /\ log[p][l] = 0 /\ log' = [log EXCEPT ![p][l] = 1]
          /\ UNCHANGED <<identity, rec, elf, sums, handoff>>
        BY <2>0, BeginMoves DEF Begin
    <2>2. /\ log'[p][l] = 1 /\ \A q \in Prefixes, m \in Captures : q # p \/ m # l => log'[q][m] = log[q][m]
        <3>1. log \in [Prefixes -> [Captures -> Nat]] /\ 1 \in Nat
            BY DEF TypeInv, FilesTyped
        <3> QED BY <2>1, <3>1, PutTyped
    <2>3. Fills /\ Adds
        BY <2>1, <2>2 DEF Fills, Adds
    <2>4. NamedInv'
        BY <2>1, <2>3, AddedBased, FilledNoted DEF NamedInv, FreeInv, Blank
    <2>5. Free'
        <3>1. /\ script'.kind = script.kind /\ script.kind \in {"run", "resume"}
              /\ script'.prefix = p /\ script'.at = script.at /\ script.at \in Nat
              /\ script'.pc \in {"nested", "child"} /\ script'.capture = l /\ Now(script') = l
              /\ script # Idle /\ script.pc = "begin" /\ Placed(script)
            BY <2>0, BeginMoves DEF Same, Now, Chained, Running
        <3>2. Unused' /\ Claimed'
            BY <2>1, <3>1, WorkGoesOn DEF FreeInv, Claiming
        <3>3. Behind'
            <4>1. script.pc \in Working /\ script'.pc \in Working
                BY <3>1 DEF Working, Capturing
            <4> QED BY <2>3, <3>1, <4>1, StaysBehind DEF FreeInv
        <3>4. l \in Suites => rec[p][Native[l]] = NoRecord
            BY <2>1 DEF FreeInv, NamedInv, Noted
        <3>5. Ahead'
            BY <2>1, <2>2, <3>1, <3>4 DEF Ahead, Capturing
        <3> QED BY <3>1, <3>2, <3>3, <3>5 DEF Free
    <2> QED BY <2>3, <2>4, <2>5 DEF FreeInv
<1> QED BY <1>1, <1>2

LEMMA BeginNestedFree == ASSUME TypeInv, FreeInv, BeginNested PROVE FreeInv' /\ Adds /\ Fills
<1> PICK p \in Prefixes : p = script.prefix
    BY BeginNestedMoves DEF Chained
<1> PICK s \in Suites : s = Now(script)
    BY BeginNestedMoves
<1> PICK l \in Captures : l = Native[s]
    BY BeginNestedMoves
<1>1. /\ log' = [log EXCEPT ![p][l] = 1] /\ UNCHANGED <<identity, rec, elf, sums, handoff>>
    BY BeginNestedMoves DEF BeginNested
<1>2. /\ log'[p][l] = 1 /\ \A q \in Prefixes, m \in Captures : q # p \/ m # l => log'[q][m] = log[q][m]
    <2>1. log \in [Prefixes -> [Captures -> Nat]] /\ 1 \in Nat
        BY DEF TypeInv, FilesTyped
    <2> QED BY <1>1, <2>1, PutTyped
<1>3. Fills /\ Adds
    BY <1>1, <1>2 DEF Fills, Adds
<1>4. NamedInv'
    BY <1>1, <1>3, AddedBased, FilledNoted DEF NamedInv, FreeInv, Blank
<1>5. Free'
    <2>1. /\ script'.kind = script.kind /\ script.kind \in {"run", "resume"}
          /\ script'.prefix = p /\ script'.at = script.at /\ script.at \in Nat
          /\ script'.pc = "child" /\ script'.capture = l /\ Now(script') = s
          /\ script # Idle /\ script.pc = "nested" /\ Placed(script)
        BY BeginNestedMoves DEF Same, Now, Chained, Running
    <2>2. Unused' /\ Claimed'
        BY <1>1, <2>1, WorkGoesOn DEF FreeInv, Claiming
    <2>3. Behind'
        <3>1. script.pc \in Working /\ script'.pc \in Working
            BY <2>1 DEF Working, Capturing
        <3> QED BY <1>3, <2>1, <3>1, StaysBehind DEF FreeInv
    <2>4. Ahead'
        <3>1. Ahead /\ s \in Captures
            BY <2>1, SuiteNames, CaptureNames DEF FreeInv, Free
        <3> QED BY <1>1, <1>2, <1>3, <2>1, <3>1 DEF Ahead, Capturing, Fills
    <2> QED BY <2>1, <2>2, <2>3, <2>4 DEF Free
<1> QED BY <1>3, <1>4, <1>5 DEF FreeInv

\* An owner has an identity once it works.
LEMMA WorkerNamed ==
    ASSUME FreeInv, script # Idle, script.kind \in {"run", "resume"}, script.pc \notin Claiming
    PROVE  identity[script.prefix] # NoIdentity /\ handoff[script.prefix] = "none" /\ sums[script.prefix] = Nothing
BY DEF FreeInv, Free, Unused

LEMMA ChildFree == ASSUME TypeInv, FreeInv, Child PROVE FreeInv' /\ Adds /\ Fills
<1>1. /\ script'.kind = script.kind /\ script.kind \in {"run", "resume"}
      /\ script'.prefix = script.prefix /\ script.prefix \in Prefixes
      /\ script'.at = script.at /\ script.at \in Nat /\ script'.capture = script.capture
      /\ script'.pc = "after" /\ Now(script') = Now(script) /\ script' # Idle
      /\ script # Idle /\ script.pc = "child" /\ Placed(script)
    BY ChildMoves DEF Now, Chained, Running
<1>2. UNCHANGED <<identity, rec, log, sums, handoff>>
    BY DEF Child
<1>3. Adds /\ Fills
    BY <1>2 DEF Adds, Fills
<1>4. NamedInv'
    <2>1. identity[script.prefix] # NoIdentity
        BY <1>1, WorkerNamed DEF Claiming
    <2>2. \A q \in Prefixes : q # script.prefix => elf'[q] = elf[q]
        <3>1. elf \in [Prefixes -> Digests]
            BY DEF TypeInv, FilesTyped
        <3> QED BY <1>1, <3>1, ChildMoves
    <2>3. \A q \in Prefixes : Blank(q)'
        BY <1>2, <2>1, <2>2 DEF FreeInv, NamedInv, Blank
    <2> QED BY <1>2, <1>3, <2>3, AddedBased, FilledNoted DEF NamedInv, FreeInv
<1>5. Free'
    <2>1. Unused' /\ Claimed'
        BY <1>1, <1>2, WorkGoesOn DEF FreeInv, Claiming
    <2>2. Behind'
        <3>1. script.pc \in Working /\ script'.pc \in Working
            BY <1>1 DEF Working, Capturing
        <3> QED BY <1>1, <1>3, <3>1, StaysBehind DEF FreeInv
    <2>3. Ahead'
        <3>1. Ahead
            BY <1>1 DEF FreeInv, Free
        <3> QED BY <1>1, <1>2, <3>1 DEF Ahead, Capturing
    <2> QED BY <1>1, <2>1, <2>2, <2>3 DEF Free
<1> QED BY <1>3, <1>4, <1>5 DEF FreeInv

\* A new result beside what there was.
Fresh(p, l, r) ==
    /\ rec[p][l] = NoRecord /\ log[p][l] # 0 /\ (\A s \in Suites : Native[s] = l => log[p][s] # 0)
    /\ r \in Result /\ rec' = [rec EXCEPT ![p][l] = r]
    /\ UNCHANGED <<identity, log, elf, sums, handoff>>

LEMMA NewResult ==
    ASSUME TypeInv, NamedInv, NEW p \in Prefixes, NEW l \in Captures, NEW r, Fresh(p, l, r)
    PROVE  NamedInv' /\ Adds /\ Fills /\ rec'[p][l] # NoRecord
<1> USE DEF Fresh
<1>1. /\ rec'[p][l] = r
      /\ \A q \in Prefixes, m \in Captures : q # p \/ m # l => rec'[q][m] = rec[q][m]
    <2>1. rec \in [Prefixes -> [Captures -> Result \cup {NoRecord}]] /\ r \in Result \cup {NoRecord}
        BY DEF TypeInv, FilesTyped
    <2> QED BY <2>1, PutTyped
<1>2. Adds /\ Fills
    BY <1>1 DEF Adds, Fills
<1>3. ASSUME NEW q \in Prefixes PROVE Noted(q)' /\ Blank(q)' /\ Based(q)'
    <2>1. Noted(q) /\ Blank(q)
        BY DEF NamedInv
    <2>2. \A s \in Suites : s \in Captures /\ Native[s] \in Captures
        BY SuiteNames, CaptureNames
    <2>3. Noted(q)'
        BY <1>1, <2>1, <2>2 DEF Noted
    <2>4. Based(q)'
        BY <1>2, AddedBased
    <2> QED BY <2>1, <2>3, <2>4 DEF Blank
<1>4. r # NoRecord
    BY ResultIsNone
<1> QED BY <1>1, <1>2, <1>3, <1>4 DEF NamedInv

LEMMA AfterFree == ASSUME TypeInv, FreeInv, After PROVE FreeInv' /\ Adds /\ Fills
<1> PICK p \in Prefixes : p = script.prefix
    BY AfterMoves DEF Chained
<1> PICK l \in Captures : l = script.capture
    BY AfterMoves
<1>1. /\ script'.kind = script.kind /\ script.kind \in {"run", "resume"}
      /\ script'.prefix = p /\ script'.at = script.at /\ script.at \in Nat
      /\ script'.pc = (IF Now(script) \in Suites THEN "outer" ELSE "returned")
      /\ Now(script') = Now(script) /\ script' # Idle /\ Now(script) \in Captures
      /\ script # Idle /\ script.pc = "after" /\ Placed(script)
      /\ l = IF Now(script) \in Suites THEN Native[Now(script)] ELSE Now(script)
    BY AfterMoves DEF Same, Now, Chained, Running, Working, Capturing
<1>a. Ahead
    BY <1>1 DEF FreeInv, Free
<1>3. PICK r \in Result : rec' = [rec EXCEPT ![p][l] = r]
    <2>1. script.child \in Outcome /\ script.before \in Tree /\ P = p
        BY AfterMoves DEF Chained, Placed, Capturing
    <2>2. PICK r : r = Record(script.child, script.before, l)
        OBVIOUS
    <2>3. r \in Result
        BY <2>1, <2>2, RecordTyped
    <2> QED BY <2>2, <2>3, AfterMoves
<1>4. UNCHANGED <<identity, log, elf, sums, handoff>>
    BY DEF After
<1>5. /\ rec[p][l] = NoRecord /\ log[p][l] # 0
      /\ \A s \in Suites : Native[s] = l => log[p][s] # 0
    <2>1. CASE Now(script) \in Suites
        <3>1. \A s \in Suites : Native[s] = l => s = Now(script)
            BY <1>1, <2>1, SuiteNames
        <3> QED BY <1>1, <1>a, <2>1, <3>1 DEF Ahead, Capturing
    <2>2. CASE Now(script) \notin Suites
        <3>1. \A s \in Suites : Native[s] # l
            <4>1. script.at \in 1 .. LastStage(script.kind)
                BY <1>1 DEF Placed, Working, Capturing
            <4> QED BY <1>1, <2>2, <4>1, StageNames DEF Now
        <3> QED BY <1>1, <1>a, <2>2, <3>1 DEF Ahead, Capturing
    <2> QED BY <2>1, <2>2
<1>6. /\ NamedInv' /\ Adds /\ Fills /\ rec'[p][l] # NoRecord
      /\ \A q \in Prefixes, m \in Captures : q # p \/ m # l => rec'[q][m] = rec[q][m]
    <2>1. NamedInv' /\ Adds /\ Fills /\ rec'[p][l] # NoRecord
        <3>1. NamedInv /\ Fresh(p, l, r)
            BY <1>3, <1>4, <1>5 DEF FreeInv, Fresh
        <3> QED BY <3>1, NewResult
    <2>2. rec \in [Prefixes -> [Captures -> Result \cup {NoRecord}]] /\ r \in Result \cup {NoRecord}
        BY DEF TypeInv, FilesTyped
    <2>3. \A q \in Prefixes, m \in Captures : q # p \/ m # l => rec'[q][m] = rec[q][m]
        BY <1>3, <2>2, PutTyped
    <2> QED BY <2>1, <2>3
<1>7. Free'
    <2>1. Unused' /\ Claimed'
        BY <1>1, <1>4, WorkGoesOn DEF FreeInv, Claiming
    <2>2. Behind'
        <3>1. script.pc \in Working /\ script'.pc \in Working
            BY <1>1 DEF Working, Capturing
        <3> QED BY <1>1, <1>6, <3>1, StaysBehind DEF FreeInv
    <2>3. Ahead'
        <3>1. CASE Now(script) \in Suites
            <4>1. Now(script) # l
                BY <1>1, <3>1, SuiteNames
            <4> QED BY <1>1, <1>a, <1>4, <1>6, <3>1, <4>1 DEF Ahead, Capturing
        <3>2. CASE Now(script) \notin Suites
            BY <1>1, <1>6, <3>2 DEF Ahead, Capturing
        <3> QED BY <3>1, <3>2
    <2> QED BY <1>1, <2>1, <2>2, <2>3 DEF Free
<1> QED BY <1>6, <1>7 DEF FreeInv

LEMMA AfterNestedFree == ASSUME TypeInv, FreeInv, AfterNested PROVE FreeInv' /\ Adds /\ Fills
<1> PICK p \in Prefixes : p = script.prefix
    BY AfterNestedMoves DEF Chained
<1> PICK l \in Captures : l = Now(script)
    BY AfterNestedMoves DEF Chained, Working, Capturing
<1>1. /\ script'.kind = script.kind /\ script.kind \in {"run", "resume"}
      /\ script'.prefix = p /\ script'.at = script.at /\ script.at \in Nat
      /\ script'.pc = "returned" /\ Now(script') = l /\ script' # Idle /\ l \in Suites
      /\ script # Idle /\ script.pc = "outer" /\ Placed(script)
    BY AfterNestedMoves DEF Same, Now, Chained, Running
<1>a. Ahead
    BY <1>1 DEF FreeInv, Free
<1>3. PICK r \in Result : rec' = [rec EXCEPT ![p][l] = r]
    <2>1. script.child \in Outcome /\ script.before \in Tree /\ P = p
        BY AfterNestedMoves DEF Chained, Placed, Capturing
    <2>2. PICK o \in {script.child, [script.child EXCEPT !.timed = TRUE],
                      [script.child EXCEPT !.code = 1, !.error = TRUE]} :
              rec' = [rec EXCEPT ![p][l] = Record(o, script.before, l)]
        BY AfterNestedMoves
    <2>3. o \in Outcome
        <3>1. ASSUME NEW c \in Outcome
              PROVE  [c EXCEPT !.timed = TRUE] \in Outcome /\ [c EXCEPT !.code = 1, !.error = TRUE] \in Outcome
            BY DEF Outcome
        <3> QED BY <2>1, <3>1
    <2>4. PICK r : r = Record(o, script.before, l)
        OBVIOUS
    <2>5. r \in Result
        BY <2>1, <2>3, <2>4, RecordTyped
    <2> QED BY <2>2, <2>4, <2>5
<1>4. UNCHANGED <<identity, log, elf, sums, handoff>>
    BY DEF AfterNested
<1>5. /\ rec[p][l] = NoRecord /\ log[p][l] # 0
      /\ \A s \in Suites : Native[s] # l
    BY <1>1, <1>a, SuiteNames DEF Ahead, Capturing
<1>6. NamedInv' /\ Adds /\ Fills /\ rec'[p][l] # NoRecord
    <2>1. NamedInv
        BY DEF FreeInv
    <2>2. \A s \in Suites : Native[s] = l => log[p][s] # 0
        BY <1>5
    <2>3. Fresh(p, l, r)
        BY <1>3, <1>4, <1>5, <2>2, Zenon DEF Fresh
    <2> QED BY <2>1, <2>3, NewResult
<1>7. Free'
    <2>1. Unused' /\ Claimed'
        BY <1>1, <1>4, WorkGoesOn DEF FreeInv, Claiming
    <2>2. Behind'
        <3>1. script.pc \in Working /\ script'.pc \in Working
            BY <1>1 DEF Working, Capturing
        <3> QED BY <1>1, <1>6, <3>1, StaysBehind DEF FreeInv
    <2>3. Ahead'
        BY <1>1, <1>6 DEF Ahead, Capturing
    <2> QED BY <1>1, <2>1, <2>2, <2>3 DEF Free
<1> QED BY <1>6, <1>7 DEF FreeInv

LEMMA GoOnFree == ASSUME TypeInv, FreeInv, GoOn PROVE FreeInv' /\ Adds /\ Fills
<1>1. UNCHANGED <<identity, rec, log, elf, sums, handoff>>
    BY DEF GoOn, files
<1>2. NamedInv' /\ Adds /\ Fills
    BY <1>1, QuietNamed DEF FreeInv
<1>3. CASE script' = Idle
    BY <1>2, <1>3, IdleFree DEF FreeInv
<1>4. CASE script' # Idle
    <2>1. /\ script'.kind = script.kind /\ script.kind \in {"run", "resume"}
          /\ script'.prefix = script.prefix /\ script.prefix \in Prefixes
          /\ script'.at = script.at + 1 /\ script.at \in Nat /\ script'.pc = "check"
          /\ script # Idle /\ script.pc = "returned" /\ Placed(script)
        BY <1>4, GoOnMoves DEF Chained, Running
    <2>2. Unused' /\ Claimed'
        BY <1>1, <2>1, WorkGoesOn DEF FreeInv, Claiming
    <2>3. Behind'
        <3>1. script.pc \in Working
            BY <2>1 DEF Working
        <3> QED BY <1>2, <2>1, <3>1, StaysBehind DEF FreeInv
    <2>4. Ahead'
        BY <2>1 DEF Ahead, Capturing
    <2> QED BY <1>2, <2>1, <2>2, <2>3, <2>4 DEF FreeInv, Free
<1> QED BY <1>3, <1>4

LEMMA CheckFree == ASSUME TypeInv, FreeInv, Check PROVE FreeInv' /\ Adds /\ Fills
<1>1. UNCHANGED <<identity, rec, log, elf, sums, handoff>>
    BY DEF Check, files
<1>2. NamedInv' /\ Adds /\ Fills
    BY <1>1, QuietNamed DEF FreeInv
<1>3. CASE script' = Idle
    BY <1>2, <1>3, IdleFree DEF FreeInv
<1>4. CASE script' # Idle
    <2>1. /\ script'.kind = script.kind /\ script.kind \in {"run", "resume"}
          /\ script'.prefix = script.prefix /\ script.prefix \in Prefixes
          /\ script'.at = script.at /\ script.at \in Nat /\ script'.pc = "begin"
          /\ script # Idle /\ script.pc = "check" /\ Placed(script)
        BY <1>4, CheckMoves DEF Chained, Running, Same
    <2>2. Unused' /\ Claimed'
        BY <1>1, <2>1, WorkGoesOn DEF FreeInv, Claiming
    <2>3. Behind'
        <3>1. script'.pc \in Working
            BY <2>1 DEF Working
        <3> QED BY <1>2, <2>1, <3>1, StaysBehind DEF FreeInv
    <2>4. Ahead'
        BY <2>1 DEF Ahead, Capturing
    <2> QED BY <1>2, <2>1, <2>2, <2>3, <2>4 DEF FreeInv, Free
<1> QED BY <1>3, <1>4

LEMMA ArchiveFree == ASSUME TypeInv, FreeInv, Archive PROVE FreeInv' /\ Adds /\ Fills
<1>1. UNCHANGED <<identity, rec, log, elf, sums, handoff>>
    BY DEF Archive
<1>2. NamedInv' /\ Adds /\ Fills
    BY <1>1, QuietNamed DEF FreeInv
<1>3. /\ script'.kind = script.kind /\ script.kind \in {"run", "resume"}
      /\ script'.prefix = script.prefix /\ script'.at = 1 /\ script'.pc = "check"
      /\ script # Idle /\ script.pc = "archive"
    BY ArchiveMoves DEF Chained
<1>4. Unused' /\ Claimed'
    BY <1>1, <1>3, WorkGoesOn DEF FreeInv, Claiming
<1>5. Behind' /\ Ahead'
    BY <1>3 DEF Behind, Ahead, Capturing
<1> QED BY <1>2, <1>3, <1>4, <1>5 DEF FreeInv, Free

LEMMA FinishFree == ASSUME TypeInv, FreeInv, Finish PROVE FreeInv' /\ Adds /\ Fills
<1>1. UNCHANGED <<identity, rec, log, elf, handoff>> /\ script' = Idle
    BY DEF Finish
<1>2. Adds /\ Fills
    BY <1>1 DEF Adds, Fills
<1>3. identity[script.prefix] # NoIdentity /\ script.prefix \in Prefixes
    BY FinishMoves, WorkerNamed DEF Chained, Claiming
<1>4. \A q \in Prefixes : q # script.prefix => sums'[q] = sums[q]
    BY <1>3, FinishMoves DEF TypeInv, FilesTyped
<1>5. NamedInv'
    BY <1>1, <1>2, <1>3, <1>4, AddedBased, FilledNoted DEF NamedInv, FreeInv, Blank
<1> QED BY <1>1, <1>2, <1>5, IdleFree DEF FreeInv

LEMMA VerifyFree == ASSUME TypeInv, FreeInv, VerifyReused PROVE FreeInv' /\ Adds /\ Fills
<1>1. UNCHANGED <<identity, rec, log, elf, sums, handoff>>
    BY DEF VerifyReused, files
<1>2. NamedInv' /\ Adds /\ Fills
    BY <1>1, QuietNamed DEF FreeInv
<1>3. CASE script' = Idle
    BY <1>2, <1>3, IdleFree DEF FreeInv
<1>4. CASE script' # Idle
    <2>1. /\ script'.kind = script.kind /\ script.kind = "resume" /\ script'.base = script.base
          /\ script'.prefix = script.prefix /\ script'.at = script.at /\ script'.pc = "alias"
          /\ script # Idle /\ script.pc = "verify"
          /\ rec[script.base][Reusable[script.at]] # NoRecord
        BY <1>4, VerifyMoves DEF Taking, Same, Succeeded
    <2>2. Unused /\ Claimed
        BY <2>1 DEF FreeInv, Free
    <2>3. Unused'
        BY <1>1, <2>1, <2>2 DEF Unused, Claiming
    <2>4. Claimed'
        BY <1>1, <2>1, <2>2 DEF Claimed
    <2>5. Behind' /\ Ahead'
        BY <2>1 DEF Behind, Ahead, Working, Capturing
    <2> QED BY <1>2, <2>1, <2>3, <2>4, <2>5 DEF FreeInv, Free
<1> QED BY <1>3, <1>4

LEMMA AliasFree == ASSUME TypeInv, FreeInv, Alias PROVE FreeInv' /\ Adds /\ Fills
<1> PICK p \in Prefixes : p = script.prefix
    BY AliasMoves DEF Taking
<1> PICK b \in Prefixes \ {p} : b = script.base
    BY AliasMoves DEF Taking
<1> PICK n \in 1 .. 8 : n = script.at
    BY AliasMoves
<1> PICK l \in Captures : l = Reusable[n]
    BY AliasMoves
<1>1. /\ script'.kind = script.kind /\ script.kind = "resume" /\ script'.base = b
      /\ script'.prefix = p /\ script # Idle /\ script.pc = "alias" /\ script' # Idle
      /\ \/ n < 8 /\ script'.pc = "verify" /\ script'.at = n + 1
         \/ n = 8 /\ script'.pc = "publish"
    BY AliasMoves DEF Taking
<1>2. Unused /\ Claimed
    BY <1>1 DEF FreeInv, Free
<1>3. rec[p][l] = NoRecord /\ rec[b][l] # NoRecord /\ log[b][l] # 0
    <2>1. Noted(b)
        BY DEF FreeInv, NamedInv
    <2> QED BY <1>1, <1>2, <2>1 DEF Claimed, Noted
<1>4. UNCHANGED <<identity, elf, sums, handoff>>
    BY DEF Alias
<1>5. /\ rec'[p][l] = rec[b][l]
      /\ \A q \in Prefixes, m \in Captures : q # p \/ m # l => rec'[q][m] = rec[q][m]
    <2>1. rec \in [Prefixes -> [Captures -> Result \cup {NoRecord}]] /\ rec[b][l] \in Result \cup {NoRecord}
        BY DEF TypeInv, FilesTyped
    <2>2. rec' = [rec EXCEPT ![p][l] = rec[b][l]]
        BY AliasMoves
    <2> QED BY <2>1, <2>2, PutTyped
<1>6. /\ log'[p][l] = log[b][l]
      /\ \A q \in Prefixes, m \in Captures : q # p \/ m # l => log'[q][m] = log[q][m]
    <2>1. log \in [Prefixes -> [Captures -> Nat]] /\ log[b][l] \in Nat
        BY DEF TypeInv, FilesTyped
    <2>2. log' = [log EXCEPT ![p][l] = log[b][l]]
        BY AliasMoves
    <2> QED BY <2>1, <2>2, PutTyped
<1>7. Adds /\ Fills
    BY <1>3, <1>5, <1>6 DEF Adds, Fills
<1>8. \A s \in Suites : Native[s] = l => s # l /\ log[p][s] # 0
    <2>1. Noted(p)
        BY DEF FreeInv, NamedInv
    <2> SUFFICES ASSUME NEW s \in Suites, Native[s] = l PROVE s # l /\ log[p][s] # 0
        OBVIOUS
    <2>2. n = 8 /\ s = "full-releasesafe" /\ s \in Captures /\ s # l
        BY ReusableNames, SuiteNames, CaptureNames
    <2>3. rec[p][s] # NoRecord
        BY <1>1, <1>2, <2>2, ReusedSuite DEF Claimed
    <2> QED BY <2>1, <2>2, <2>3 DEF Noted
<1>9. NamedInv'
    <2>1. ASSUME NEW q \in Prefixes PROVE Noted(q)'
        <3>1. Noted(q)
            BY DEF FreeInv, NamedInv
        <3>2. \A s \in Suites : s \in Captures /\ Native[s] \in Captures
            BY SuiteNames, CaptureNames
        <3>3. \A m \in Captures : rec'[q][m] # NoRecord => log'[q][m] # 0
            BY <1>3, <1>5, <1>6, <3>1 DEF Noted
        <3>4. \A s \in Suites : rec'[q][Native[s]] # NoRecord => log'[q][s] # 0
            BY <1>5, <1>6, <1>7, <1>8, <3>1, <3>2 DEF Noted, Fills
        <3> QED BY <3>3, <3>4 DEF Noted
    <2>2. ASSUME NEW q \in Prefixes PROVE Blank(q)'
        BY <1>4 DEF FreeInv, NamedInv, Blank
    <2>3. ASSUME NEW q \in Prefixes PROVE Based(q)'
        BY <1>4, <1>7, AddedBased DEF FreeInv
    <2> QED BY <2>1, <2>2, <2>3 DEF NamedInv
<1>10. Unused'
    BY <1>1, <1>2, <1>4 DEF Unused, Claiming
<1>11. Claimed'
    <2>1. \A i \in 1 .. 8 : Reusable[i] \in Captures /\ (i # n => Reusable[i] # l)
        BY ReusableNames
    <2>2. \A i \in 1 .. 8 : rec'[b][Reusable[i]] = rec[b][Reusable[i]]
        BY <1>5, <2>1
    <2>3. \A i \in 1 .. 8 : i < n => rec'[p][Reusable[i]] # NoRecord /\ rec'[b][Reusable[i]] # NoRecord
        BY <1>1, <1>2, <1>5, <2>1, <2>2 DEF Claimed
    <2>4. \A i \in 1 .. 8 : i > n => rec'[p][Reusable[i]] = NoRecord
        BY <1>1, <1>2, <1>5, <2>1 DEF Claimed
    <2>5. rec'[p][Reusable[n]] # NoRecord /\ rec'[b][Reusable[n]] # NoRecord
        BY <1>3, <1>5
    <2>6. CASE n < 8 /\ script'.pc = "verify" /\ script'.at = n + 1
        BY <1>1, <2>3, <2>4, <2>5, <2>6 DEF Claimed
    <2>7. CASE n = 8 /\ script'.pc = "publish"
        <3>1. \A i \in 1 .. 8 : rec'[b][Reusable[i]] # NoRecord
            BY <2>3, <2>5, <2>7
        <3> QED BY <1>1, <2>7, <3>1 DEF Claimed
    <2> QED BY <1>1, <2>6, <2>7
<1>12. Behind' /\ Ahead'
    BY <1>1 DEF Behind, Ahead, Working, Capturing
<1> QED BY <1>1, <1>7, <1>9, <1>10, <1>11, <1>12 DEF FreeInv, Free

LEMMA PublishFree == ASSUME TypeInv, FreeInv, Publish PROVE FreeInv' /\ Adds /\ Fills
<1> PICK p \in Prefixes : p = script.prefix
    BY PublishMoves DEF Taking
<1> PICK b \in Prefixes \ {p} : b = script.base
    BY PublishMoves DEF Taking
<1>1. /\ script'.kind = script.kind /\ script.kind = "resume"
      /\ script'.prefix = p /\ script # Idle /\ script.pc = "publish" /\ script' # Idle
      /\ script'.pc = "archive"
    BY PublishMoves DEF Taking
<1>2. /\ identity'[p] # NoIdentity /\ identity'[p].base = b
      /\ \A q \in Prefixes : q # p => identity'[q] = identity[q] /\ elf'[q] = elf[q]
    BY PublishMoves
<1>3. Unused /\ Claimed
    BY <1>1 DEF FreeInv, Free
<1>4. UNCHANGED <<rec, log, sums, handoff>>
    BY DEF Publish
<1>5. Adds /\ Fills
    BY <1>4 DEF Adds, Fills
<1>6. NamedInv'
    <2>1. ASSUME NEW q \in Prefixes, q # p PROVE Based(q)' /\ Blank(q)'
        <3>1. Based(q) /\ Blank(q)
            BY DEF FreeInv, NamedInv
        <3> QED BY <1>2, <1>4, <2>1, <3>1 DEF Based, Blank
    <2>2. Based(p)' /\ Blank(p)'
        BY <1>1, <1>2, <1>3, <1>4 DEF Based, Blank, Claimed
    <2>3. ASSUME NEW q \in Prefixes PROVE Noted(q)'
        BY <1>4, <1>5, FilledNoted DEF FreeInv
    <2> QED BY <2>1, <2>2, <2>3 DEF NamedInv
<1>7. b # "none"
    BY PrefixesAssumption
<1>8. Unused'
    BY <1>1, <1>2, <1>3, <1>4, <1>7 DEF Unused, Claiming
<1>9. Claimed' /\ Behind' /\ Ahead'
    BY <1>1 DEF Claimed, Behind, Ahead, Working, Capturing
<1> QED BY <1>1, <1>5, <1>6, <1>8, <1>9 DEF FreeInv, Free

LEMMA StartFree ==
    ASSUME TypeInv, FreeInv, NEW p \in Prefixes, Run(p) \/ Seal(p) \/ \E b \in Prefixes \ {p} : Resume(b, p)
    PROVE  FreeInv' /\ Adds /\ Fills
<1>1. CASE Run(p)
    <2>1. UNCHANGED <<rec, log, elf, sums, handoff>>
        BY <1>1 DEF Run
    <2>2. /\ identity[p] = NoIdentity /\ script' # Idle /\ script'.kind = "run" /\ script'.prefix = p
          /\ script'.pc = "archive" /\ identity'[p] # NoIdentity /\ identity'[p].base = "none"
          /\ \A q \in Prefixes : q # p => identity'[q] = identity[q]
        BY <1>1, RunMoves
    <2>3. Adds /\ Fills
        BY <2>1 DEF Adds, Fills
    <2>4. ASSUME NEW q \in Prefixes PROVE Noted(q)' /\ Blank(q)' /\ Based(q)'
        <3>1. Noted(q)'
            BY <2>1, <2>3, FilledNoted DEF FreeInv
        <3>2. CASE q = p
            BY <2>2, <3>1, <3>2 DEF Blank, Based
        <3>3. CASE q # p
            <4>1. Blank(q) /\ Based(q)
                BY DEF FreeInv, NamedInv
            <4> QED BY <2>1, <2>2, <3>1, <3>3, <4>1 DEF Blank, Based
        <3> QED BY <3>2, <3>3
    <2>5. Blank(p)
        BY DEF FreeInv, NamedInv
    <2>6. Unused'
        BY <2>1, <2>2, <2>5 DEF Unused, Claiming, Blank
    <2>7. Claimed' /\ Behind' /\ Ahead'
        BY <2>2 DEF Claimed, Behind, Ahead, Working, Capturing
    <2> QED BY <2>2, <2>3, <2>4, <2>6, <2>7 DEF FreeInv, NamedInv, Free
<1>2. CASE Seal(p)
    <2>1. UNCHANGED <<identity, rec, log, elf, sums>> /\ AuditHolds(p)
        BY <1>2 DEF Seal, files
    <2>2. Adds /\ Fills
        BY <2>1 DEF Adds, Fills
    <2>3. handoff'[p] = "audited" /\ \A q \in Prefixes : q # p => handoff'[q] = handoff[q]
        BY <1>2, SealMoves DEF TypeInv, FilesTyped
    <2>4. identity[p] # NoIdentity
        BY <2>1 DEF AuditHolds
    <2>5. NamedInv'
        BY <2>1, <2>2, <2>3, <2>4, AddedBased, FilledNoted DEF NamedInv, FreeInv, Blank
    <2>6. Free'
        BY <1>2, <2>3, SealMoves DEF Free
    <2> QED BY <2>2, <2>5, <2>6 DEF FreeInv
<1>3. CASE \E b \in Prefixes \ {p} : Resume(b, p)
    <2>1. PICK b \in Prefixes \ {p} : Resume(b, p)
        BY <1>3
    <2>2. UNCHANGED <<identity, rec, log, elf, sums, handoff>>
        BY <2>1 DEF Resume, files
    <2>3. NamedInv' /\ Adds /\ Fills
        BY <2>2, QuietNamed DEF FreeInv
    <2>4. /\ NoFiles(p) /\ script' # Idle /\ script'.kind = "resume" /\ script'.prefix = p
          /\ script'.at = 1 /\ script'.pc = "verify"
        BY <2>1, ResumeMoves
    <2>5. Blank(p) /\ identity[p] = NoIdentity
        BY <2>4 DEF FreeInv, NamedInv, NoFiles
    <2>6. Unused'
        BY <2>2, <2>4, <2>5 DEF Unused, Blank, Claiming
    <2>7. Claimed'
        <3>1. \A i \in 1 .. 8 : Reusable[i] \in Captures /\ ~(i < 1)
            BY ReusableNames
        <3>2. \A i \in 1 .. 8 : rec'[p][Reusable[i]] = NoRecord
            BY <2>2, <2>4, <3>1 DEF NoFiles
        <3> QED BY <2>4, <3>1, <3>2 DEF Claimed
    <2>8. Behind' /\ Ahead'
        BY <2>4 DEF Behind, Ahead, Working, Capturing
    <2> QED BY <2>3, <2>4, <2>6, <2>7, <2>8 DEF FreeInv, Free
<1> QED BY <1>1, <1>2, <1>3

LEMMA SealingFree == ASSUME TypeInv, FreeInv, MakeHandoff \/ WriteManifest PROVE FreeInv' /\ Adds /\ Fills
<1>1. UNCHANGED <<identity, rec, log, elf, sums>>
    BY DEF MakeHandoff, WriteManifest, files
<1>2. /\ script # Idle /\ script.kind = "seal" /\ script.prefix \in Prefixes
      /\ \A q \in Prefixes : q # script.prefix => handoff'[q] = handoff[q]
      /\ script' # Idle => /\ script'.kind = "seal" /\ script'.prefix = script.prefix
                           /\ handoff'[script.prefix] = "partial"
    BY SealingMoves
<1>3. handoff[script.prefix] # "none"
    BY <1>2 DEF FreeInv, Free
<1>4. Adds /\ Fills
    BY <1>1 DEF Adds, Fills
<1>5. NamedInv'
    BY <1>1, <1>2, <1>3, <1>4, AddedBased, FilledNoted DEF NamedInv, FreeInv, Blank
<1>6. Free'
    BY <1>2 DEF Free
<1> QED BY <1>4, <1>5, <1>6 DEF FreeInv

LEMMA AroundFree ==
    ASSUME TypeInv, FreeInv, Edit \/ TakeBack \/ Damage \/ Crash PROVE FreeInv' /\ Adds /\ Fills
<1>1. CASE Edit \/ TakeBack
    <2>1. UNCHANGED <<script, identity, rec, log, elf, sums, handoff>>
        BY <1>1 DEF Edit, TakeBack, files
    <2>2. NamedInv' /\ Adds /\ Fills
        BY <2>1, QuietNamed DEF FreeInv
    <2>3. Free'
        BY <2>1 DEF FreeInv, Free, Unused, Claimed, Behind, Ahead
    <2> QED BY <2>2, <2>3 DEF FreeInv
<1>2. CASE Damage
    <2>1. UNCHANGED <<script, identity, rec, sums, handoff>>
        BY <1>2 DEF Damage
    <2>2. PICK p \in Prefixes :
             \/ \E l \in Fragile : log[p][l] # 0 /\ log' = [log EXCEPT ![p][l] = 2 + troubles] /\ UNCHANGED elf
             \/ \E a \in Artifacts : elf[p][a] # 0 /\ elf' = [elf EXCEPT ![p][a] = 2 + troubles] /\ UNCHANGED log
        BY <1>2 DEF Damage
    <2>3. 2 + troubles \in Nat /\ 2 + troubles # 0
        BY DEF TypeInv, FilesTyped
    <2> PICK v \in Nat : v = 2 + troubles
        BY <2>3
    <2>4. Fills
        <3>1. CASE \E l \in Fragile : log' = [log EXCEPT ![p][l] = v]
            <4>1. PICK l \in Captures : log' = [log EXCEPT ![p][l] = v]
                BY <3>1, FragileAssumption
            <4>2. log \in [Prefixes -> [Captures -> Nat]]
                BY DEF TypeInv, FilesTyped
            <4>3. log'[p][l] = v /\ \A q \in Prefixes, m \in Captures : q # p \/ m # l => log'[q][m] = log[q][m]
                BY <4>1, <4>2, PutTyped
            <4> QED BY <2>3, <4>3 DEF Fills
        <3>2. CASE UNCHANGED log
            BY <3>2 DEF Fills
        <3> QED BY <2>2, <3>1, <3>2
    <2>5. Adds
        BY <2>1 DEF Adds
    <2>6. \A q \in Prefixes : elf[q] = Nothing => elf'[q] = elf[q]
        <3>1. CASE \E a \in Artifacts : elf[p][a] # 0 /\ elf' = [elf EXCEPT ![p][a] = v]
            <4>1. elf[p] # Nothing
                BY <3>1 DEF Nothing
            <4>2. elf \in [Prefixes -> Digests]
                BY DEF TypeInv, FilesTyped
            <4> QED BY <3>1, <4>1, <4>2
        <3>2. CASE UNCHANGED elf
            BY <3>2
        <3> QED BY <2>2, <3>1, <3>2
    <2>7. NamedInv'
        BY <2>1, <2>4, <2>5, <2>6, AddedBased, FilledNoted DEF NamedInv, FreeInv, Blank
    <2>8. Free'
        <3>1. CASE script = Idle
            BY <2>1, <3>1, IdleFree
        <3>2. CASE script # Idle /\ script.kind = "seal"
            BY <2>1, <3>2 DEF FreeInv, Free
        <3>3. CASE script # Idle /\ script.kind # "seal"
            <4>1. Unused /\ Claimed /\ Behind /\ Ahead
                BY <3>3 DEF FreeInv, Free
            <4>2. Unused' /\ Claimed' /\ Behind'
                BY <2>1, <4>1 DEF Unused, Claimed, Behind
            <4>3. /\ script.prefix \in Prefixes
                  /\ script.pc \in Capturing => Now(script) \in Captures
                  /\ script.pc \in {"child", "after"} => script.capture \in Captures
                <5>1. script \in Running /\ Placed(script)
                    BY <3>3 DEF TypeInv, ScriptTyped
                <5>2. script.pc \in Capturing => Now(script) \in Captures
                    BY <5>1, StageNames DEF Placed, Now, Working
                <5>3. script.pc \in {"child", "after"} => script.capture \in Captures
                    BY <5>1, <5>2, SuiteNames, CaptureNames DEF Placed, Capturing
                <5> QED BY <5>1, <5>2, <5>3 DEF Running
            <4>4. Ahead'
                BY <2>1, <2>4, <4>1, <4>3 DEF Ahead, Fills
            <4> QED BY <2>1, <3>3, <4>2, <4>4 DEF Free
        <3> QED BY <3>1, <3>2, <3>3
    <2> QED BY <2>4, <2>5, <2>7, <2>8 DEF FreeInv
<1>3. CASE Crash
    BY <1>3, IdleFree, QuietNamed DEF Crash, files, FreeInv
<1> QED BY <1>1, <1>2, <1>3

\* The result that an audit stage inspects is there.
LEMMA InspectedIsThere ==
    ASSUME TypeInv, FreeInv, Chained("child"), script.capture \in DOMAIN Inspects,
           NEW b, b = IF identity[script.prefix].base = "none" THEN script.prefix ELSE identity[script.prefix].base
    PROVE  /\ Now(script) = script.capture /\ b \in Prefixes /\ Inspects[script.capture] \in Captures
           /\ rec[b][Inspects[script.capture]] \in Result
<1>1. /\ script # Idle /\ script.kind \in {"run", "resume"} /\ script.pc = "child"
      /\ script.prefix \in Prefixes /\ script.at \in 1 .. LastStage(script.kind) /\ Placed(script)
    BY DEF Chained, Placed, Working, Capturing
<1>2. Unused /\ Behind
    BY <1>1 DEF FreeInv, Free
<1>3. Now(script) = script.capture
    <2>1. \A s \in Suites : Native[s] \notin DOMAIN Inspects
        BY SuiteNames, OtherNames
    <2> QED BY <1>1, <2>1 DEF Placed
<1>4. StageOf(script.kind, script.at) = script.capture
    BY <1>3 DEF Now
<1>5. Inspects[script.capture] \in Captures
    BY OtherNames, CaptureNames
<1>6. b \in Prefixes /\ rec[b][Inspects[script.capture]] # NoRecord
    <2>1. CASE identity[script.prefix].base = "none"
        <3>1. script.kind = "run" /\ b = script.prefix
            BY <1>1, <1>2, <2>1 DEF Unused, Claiming
        <3>2. PICK j \in 1 .. script.at - 1 : StageOf(script.kind, j) = Inspects[script.capture]
            BY <1>1, <1>4, <3>1, InspectedBefore
        <3> QED BY <1>1, <1>2, <3>1, <3>2 DEF Behind, Working, Capturing
    <2>2. CASE identity[script.prefix].base # "none"
        <3>1. Based(script.prefix) /\ identity[script.prefix] # NoIdentity
            BY <1>1, <1>2 DEF FreeInv, NamedInv, Unused, Claiming
        <3>2. PICK j \in 1 .. 8 : Reusable[j] = Inspects[script.capture]
            BY <1>1, <1>4, InspectedBefore
        <3> QED BY <2>2, <3>1, <3>2 DEF Based
    <2> QED BY <2>1, <2>2
<1>7. rec \in [Prefixes -> [Captures -> Result \cup {NoRecord}]]
    BY DEF TypeInv, FilesTyped
<1> QED BY <1>3, <1>5, <1>6, <1>7

LEMMA ChildTyped == ASSUME TypeInv, FreeInv, Child PROVE TypeInv'
<1> PICK p \in Prefixes : p = script.prefix
    BY ChildMoves DEF Chained
<1> PICK l \in Captures : l = script.capture
    BY ChildMoves
<1>1. Chained("child")
    BY ChildMoves
<1>2. Tested(l) \in Nat
    <2>1. PICK b : b = IF identity[p].base = "none" THEN p ELSE identity[p].base
        OBVIOUS
    <2>2. l \in DOMAIN Inspects => rec[b][Inspects[l]] \in Result
        BY <1>1, <2>1, InspectedIsThere
    <2> QED BY <2>1, <2>2, TestedTyped
<1>3. tree.source \in Version
    BY DEF TypeInv, FilesTyped, Tree
<1>4. PICK o \in {Passed} \cup Failures(script.kind, l) :
          script' = [script EXCEPT !.pc = "after",
                                   !.child = [o EXCEPT !.ran = tree.source, !.tested = Tested(l)]]
    BY ChildMoves
<1>5. o \in Outcome
    BY FailuresTyped
<1>6. PICK c \in Outcome : c = [o EXCEPT !.ran = tree.source, !.tested = Tested(l)]
    BY <1>2, <1>3, <1>5 DEF Outcome
<1>7. script' = [script EXCEPT !.pc = "after", !.child = c]
    BY <1>4, <1>6
<1>8. script' \in Running /\ script'.child = c
    BY <1>1, <1>7 DEF Chained, Running, Place, Working, Capturing
<1>9. Placed(script')
    <2>1. /\ script'.kind = script.kind /\ script'.at = script.at /\ script'.capture = script.capture
          /\ script'.pc = "after" /\ script'.before = script.before /\ script'.outer = script.outer
          /\ Now(script') = Now(script) /\ script.pc = "child" /\ Placed(script)
          /\ script.kind \in {"run", "resume"}
        BY ChildMoves DEF Now, Chained
    <2> QED BY <1>8, <2>1 DEF Placed, Working, Capturing, Claiming
<1>10. elf' \in [Prefixes -> Digests]
    <2>1. elf \in [Prefixes -> Digests] /\ 1 \in Nat
        BY DEF TypeInv, FilesTyped
    <2>2. CASE l \in DOMAIN Emits
        <3>1. Emits[l] \in Artifacts /\ elf' = [elf EXCEPT ![p][Emits[l]] = 1]
            BY <2>2, ChildMoves, OtherNames, ArtifactNames
        <3> QED BY <2>1, <3>1 DEF Digests
    <2>3. CASE l \notin DOMAIN Emits
        BY <2>1, <2>3, ChildMoves
    <2> QED BY <2>2, <2>3
<1>11. troubles' \in Nat
    <2>1. troubles' = troubles \/ troubles' = troubles + 1
        BY ChildMoves
    <2> QED BY <2>1 DEF TypeInv, FilesTyped
<1> QED BY <1>8, <1>9, <1>10, <1>11 DEF Child, TypeInv, FilesTyped, ScriptTyped

LEMMA FirstFree == ASSUME Init PROVE TypeInv /\ FreeInv
<1>1. TypeInv
    <2>1. tree \in Tree /\ handoff \in [Prefixes -> {"none", "audited", "partial", "sealed"}] /\ troubles \in Nat
        BY DEF Init, Tree, Version
    <2>2. /\ identity \in [Prefixes -> Identity \cup {NoIdentity}]
          /\ archive \in [Prefixes -> Tree \cup {NoTree}]
          /\ rec \in [Prefixes -> [Captures -> Result \cup {NoRecord}]]
          /\ log \in [Prefixes -> [Captures -> Nat]]
        <3>1. 0 \in Nat
            OBVIOUS
        <3>2. log \in [Prefixes -> [Captures -> Nat]]
            BY <3>1 DEF Init
        <3>3. rec \in [Prefixes -> [Captures -> Result \cup {NoRecord}]]
            BY DEF Init
        <3>4. identity \in [Prefixes -> Identity \cup {NoIdentity}]
            BY DEF Init
        <3>5. archive \in [Prefixes -> Tree \cup {NoTree}]
            BY DEF Init
        <3> QED BY <3>2, <3>3, <3>4, <3>5
    <2>3. elf \in [Prefixes -> Digests] /\ sums \in [Prefixes -> Digests]
        BY NothingTyped DEF Init
    <2> QED BY <2>1, <2>2, <2>3, IdleTyped DEF Init, TypeInv, FilesTyped
<1>2. Free
    BY DEF Init, Free
<1>3. NamedInv
    BY SuiteNames, CaptureNames DEF Init, NamedInv, Noted, Blank, Based
<1> QED BY <1>1, <1>2, <1>3 DEF FreeInv

LEMMA StillIdle == ASSUME TypeInv, FreeInv, UNCHANGED vars PROVE TypeInv' /\ FreeInv' /\ Adds /\ Fills
<1>1. TypeInv'
    BY DEF vars, files, TypeInv, FilesTyped, ScriptTyped
<1>2. NamedInv' /\ Adds /\ Fills
    BY QuietNamed DEF FreeInv, vars, files
<1>3. Free'
    BY DEF vars, files, FreeInv, Free, Unused, Claimed, Behind, Ahead
<1> QED BY <1>1, <1>2, <1>3 DEF FreeInv

LEMMA StaysFree == ASSUME TypeInv, FreeInv, [Next]_vars PROVE TypeInv' /\ FreeInv' /\ Adds /\ Fills
<1>1. CASE Begin
    BY <1>1, BeginTyped, BeginFree
<1>2. CASE BeginNested
    BY <1>2, BeginNestedTyped, BeginNestedFree
<1>3. CASE Child
    BY <1>3, ChildTyped, ChildFree
<1>4. CASE After
    BY <1>4, AfterTyped, AfterFree
<1>5. CASE AfterNested
    BY <1>5, AfterNestedTyped, AfterNestedFree
<1>6. CASE GoOn
    BY <1>6, GoOnTyped, GoOnFree
<1>7. CASE \E p \in Prefixes : Run(p) \/ Seal(p) \/ \E b \in Prefixes \ {p} : Resume(b, p)
    BY <1>7, StartTyped, StartFree
<1>8. CASE Archive
    BY <1>8, ArchiveTyped, ArchiveFree
<1>9. CASE Check
    BY <1>9, CheckTyped, CheckFree
<1>10. CASE Finish
    BY <1>10, FinishTyped, FinishFree
<1>11. CASE VerifyReused
    BY <1>11, VerifyTyped, VerifyFree
<1>12. CASE Alias
    BY <1>12, AliasTyped, AliasFree
<1>13. CASE Publish
    BY <1>13, PublishTyped, PublishFree
<1>14. CASE MakeHandoff \/ WriteManifest
    BY <1>14, SealingTyped, SealingFree
<1>15. CASE Edit \/ TakeBack \/ Damage \/ Crash
    BY <1>15, AroundTyped, AroundFree
<1>16. CASE UNCHANGED vars
    BY <1>16, StillIdle
<1> QED BY <1>1, <1>2, <1>3, <1>4, <1>5, <1>6, <1>7, <1>8, <1>9, <1>10, <1>11, <1>12, <1>13, <1>14, <1>15, <1>16
    DEF Next

LEMMA AlwaysFree == Spec => [](TypeInv /\ FreeInv)
<1>1. TypeInv /\ FreeInv /\ [Next]_vars => (TypeInv /\ FreeInv)'
    BY StaysFree
<1>2. Init => TypeInv /\ FreeInv
    BY FirstFree
<1> QED BY <1>1, <1>2, PTL DEF Spec

\* No script ever replaces a result (run-10-command.py creates its files
\* exclusively, a continuation starts only where there is nothing): whichever
\* scripts are started, killed and started again.
THEOREM ResultsAreKept == Spec => ResultsStay
<1>1. ASSUME TypeInv, FreeInv, [Next]_vars
      PROVE  \A p \in Prefixes : \A l \in Captures : rec[p][l] # NoRecord => rec'[p][l] = rec[p][l]
    <2>1. Adds
        BY <1>1, StaysFree
    <2> QED BY <2>1 DEF Adds
<1> QED BY <1>1, AlwaysFree, PTL DEF ResultsStay, Spec

-----------------------------------------------------------------------------
(* Records are true of what ran.                                           *)

\* Result that says the source was kept: its child ran on that source.  Only the
\* capture of a suite watches for a fatal marker, and the capture around it
\* passes its return code on.
Watched(r) == r # NoRecord /\ r.sourceKept => r.ran = r.source
Honest(p) ==
    /\ \A l \in Captures : Watched(rec[p][l])
    /\ \A l \in Captures : rec[p][l] # NoRecord /\ rec[p][l].fatal => \E s \in Suites : l = Native[s]
    /\ \A s \in Suites : rec[p][s] # NoRecord /\ rec[p][s].code = 0 /\ rec[p][Native[s]] # NoRecord
         => ReturnCode(rec[p][Native[s]]) = 0

Clean(r, source) == r # NoRecord /\ r.code = 0 /\ ~r.timed /\ ~r.fatal /\ ~r.error /\ r.ran = source
Continued(p) ==
    identity[p] # NoIdentity /\ identity[p].base # "none" =>
      \A i \in 1 .. 8 : /\ rec[p][Reusable[i]] = rec[identity[p].base][Reusable[i]]
                        /\ Clean(rec[p][Reusable[i]], identity[p].source)

\* Sources only get newer while a child runs.
Watching ==
    /\ script.pc \in Capturing => script.before.source <= tree.source
    /\ script.pc \in {"after", "outer"} =>
         script.before.source <= script.child.ran /\ script.child.ran <= tree.source
    /\ script.pc \in {"child", "after"} /\ Now(script) \in Suites => script.outer.source <= script.before.source
Diagnosed ==
    /\ script.pc = "after" /\ Now(script) \notin Suites => ~script.child.fatal
    /\ script.pc = "outer" =>
         /\ rec[script.prefix][Native[Now(script)]] # NoRecord /\ ~script.child.fatal
         /\ script.child.code = ReturnCode(rec[script.prefix][Native[Now(script)]])
         /\ script.child.tested = rec[script.prefix][Native[Now(script)]].tested
TakenOver(i) ==
    /\ Succeeded(rec[script.prefix][Reusable[i]], script.before.source)
    /\ rec[script.prefix][Reusable[i]] = rec[script.base][Reusable[i]]
TakingOver ==
    /\ script.pc \in {"verify", "alias"} => \A i \in 1 .. 8 : i < script.at => TakenOver(i)
    /\ script.pc = "alias" => Succeeded(rec[script.base][Reusable[script.at]], script.before.source)
    /\ script.pc = "publish" => \A i \in 1 .. 8 : TakenOver(i)

TrueFiles == \A p \in Prefixes : Honest(p) /\ Continued(p)
TrueScript == script # Idle /\ script.kind # "seal" => Watching /\ Diagnosed /\ TakingOver
TrueInv == TrueFiles /\ TrueScript

LEMMA QuietTrue == ASSUME TrueFiles, UNCHANGED <<identity, rec>> PROVE TrueFiles'
BY DEF TrueFiles, Honest, Continued

LEMMA BetweenCaptures ==
    ASSUME script' = Idle \/ script'.kind = "seal" \/ script'.pc \in {"archive", "check", "begin", "returned"}
    PROVE  TrueScript'
BY DEF TrueScript, Watching, Diagnosed, TakingOver, Capturing

LEMMA NotTakingOver == ASSUME script'.pc \notin Claiming PROVE TakingOver'
BY DEF TakingOver, Claiming

LEMMA SourcesTyped ==
    ASSUME TypeInv
    PROVE  /\ tree.source \in {0, 1}
           /\ script # Idle /\ script.pc \in Capturing => script.before.source \in {0, 1}
           /\ script # Idle /\ script.pc \in {"after", "outer"} => script.child.ran \in {0, 1}
           /\ script # Idle /\ script.pc \in {"child", "after"} /\ Now(script) \in Suites =>
                script.outer.source \in {0, 1}
<1>1. tree \in Tree /\ ScriptTyped(script)
    BY DEF TypeInv, FilesTyped
<1>2. \A t \in Tree : t.source \in {0, 1}
    BY DEF Tree, Version
<1>3. \A o \in Outcome : o.ran \in {0, 1}
    BY DEF Outcome, Version
<1> QED BY <1>1, <1>2, <1>3 DEF ScriptTyped, Placed

LEMMA ContinuedStays ==
    ASSUME NamedInv, Adds, NEW p \in Prefixes, Continued(p), identity'[p] = identity[p] PROVE Continued(p)'
<1> SUFFICES ASSUME identity[p] # NoIdentity, identity[p].base # "none", NEW i \in 1 .. 8
             PROVE  /\ rec'[p][Reusable[i]] = rec'[identity[p].base][Reusable[i]]
                    /\ Clean(rec'[p][Reusable[i]], identity[p].source)
    BY DEF Continued
<1>1. identity[p].base \in Prefixes
    BY DEF NamedInv, Based
<1>2. Reusable[i] \in Captures
    BY ReusableNames
<1>3. /\ rec[p][Reusable[i]] = rec[identity[p].base][Reusable[i]]
      /\ Clean(rec[p][Reusable[i]], identity[p].source) /\ rec[p][Reusable[i]] # NoRecord
    BY DEF Continued, Clean
<1>4. rec'[p][Reusable[i]] = rec[p][Reusable[i]]
    BY <1>2, <1>3 DEF Adds
<1>5. rec'[identity[p].base][Reusable[i]] = rec[identity[p].base][Reusable[i]]
    BY <1>1, <1>2, <1>3 DEF Adds
<1> QED BY <1>3, <1>4, <1>5

LEMMA BeginTrue == ASSUME TypeInv, TrueInv, Begin PROVE TrueInv'
<1>1. TrueFiles'
    BY QuietTrue DEF Begin, TrueInv
<1>2. CASE script' = Idle
    BY <1>1, <1>2, BetweenCaptures DEF TrueInv
<1>3. CASE script' # Idle
    <2>1. script'.before = tree /\ script'.pc \in {"nested", "child"} /\ UNCHANGED tree
          /\ (script'.pc = "child" => Now(script') \notin Suites)
        BY <1>3, BeginMoves DEF Begin, Same, Now
    <2>2. tree.source <= tree.source
        BY SourcesTyped
    <2>3. Watching' /\ Diagnosed'
        BY <2>1, <2>2 DEF Watching, Diagnosed
    <2>4. TakingOver'
        BY <2>1, NotTakingOver DEF Claiming
    <2> QED BY <1>1, <2>3, <2>4 DEF TrueInv, TrueScript
<1> QED BY <1>2, <1>3

LEMMA BeginNestedTrue == ASSUME TypeInv, TrueInv, BeginNested PROVE TrueInv'
<1>1. TrueFiles'
    BY QuietTrue DEF BeginNested, TrueInv
<1>2. /\ script'.before = tree /\ script'.pc = "child" /\ script'.outer = script.before /\ UNCHANGED tree
      /\ script # Idle /\ script.kind # "seal" /\ script.pc = "nested"
    BY BeginNestedMoves DEF BeginNested, Chained
<1>3. tree.source <= tree.source
    BY SourcesTyped
<1>4. script.before.source <= tree.source
    BY <1>2 DEF TrueInv, TrueScript, Watching, Capturing
<1>5. Watching' /\ Diagnosed'
    BY <1>2, <1>3, <1>4 DEF Watching, Diagnosed
<1>6. TakingOver'
    BY <1>2, NotTakingOver DEF Claiming
<1> QED BY <1>1, <1>5, <1>6 DEF TrueInv, TrueScript

LEMMA ChildTrue == ASSUME TypeInv, FreeInv, TrueInv, Child PROVE TrueInv'
<1>1. TrueFiles'
    BY QuietTrue DEF Child, TrueInv
<1>2. /\ script'.before = script.before /\ script'.pc = "after" /\ script'.outer = script.outer
      /\ Now(script') = Now(script) /\ script # Idle /\ script.kind # "seal" /\ script.pc = "child"
      /\ script.at \in 1 .. LastStage(script.kind) /\ script \in Running
      /\ (Now(script) \notin Suites => script.capture = Now(script))
    BY ChildMoves DEF Now, Chained, Placed, Working, Capturing
<1>3. UNCHANGED tree
    BY DEF Child
<1>4. script'.child.ran = tree.source /\ (Now(script) \notin Suites => ~script'.child.fatal)
    <2>1. PICK o \in {Passed} \cup Failures(script.kind, script.capture) :
              script' = [script EXCEPT !.pc = "after",
                                       !.child = [o EXCEPT !.ran = tree.source, !.tested = Tested(script.capture)]]
        BY ChildMoves
    <2>2. o \in Outcome /\ (o.fatal => \E s \in Suites : Native[s] = script.capture)
        BY FailuresTyped
    <2>3. script'.child = [o EXCEPT !.ran = tree.source, !.tested = Tested(script.capture)]
        BY <1>2, <2>1 DEF Running
    <2>4. script'.child.ran = tree.source /\ script'.child.fatal = o.fatal
        BY <2>2, <2>3 DEF Outcome
    <2>5. Now(script) \notin Suites => ~o.fatal
        BY <1>2, <2>2, StageNames DEF Now
    <2> QED BY <2>4, <2>5
<1>5. tree.source <= tree.source
    BY SourcesTyped
<1>6. Watching
    BY <1>2 DEF TrueInv, TrueScript
<1>7. Watching' /\ Diagnosed'
    BY <1>2, <1>3, <1>4, <1>5, <1>6 DEF Watching, Diagnosed, Capturing
<1>8. TakingOver'
    BY <1>2, NotTakingOver DEF Claiming
<1> QED BY <1>1, <1>7, <1>8 DEF TrueInv, TrueScript

\* A new result that is true.
LEMMA NewTrue ==
    ASSUME FreeInv, TrueInv, Adds, NEW p \in Prefixes, NEW l \in Captures, rec[p][l] = NoRecord,
           NEW r, rec'[p][l] = r, Watched(r), r.fatal => \E s \in Suites : l = Native[s],
           \A q \in Prefixes, m \in Captures : q # p \/ m # l => rec'[q][m] = rec[q][m],
           l \in Suites /\ r.code = 0 /\ rec[p][Native[l]] # NoRecord => ReturnCode(rec[p][Native[l]]) = 0,
           \A s \in Suites : l = Native[s] => rec[p][s] = NoRecord,
           UNCHANGED identity
    PROVE  TrueFiles'
<1>1. ASSUME NEW q \in Prefixes PROVE Continued(q)'
    <2>1. Continued(q) /\ NamedInv
        BY DEF FreeInv, TrueInv, TrueFiles
    <2> QED BY <2>1, ContinuedStays
<1>2. \A s \in Suites : s \in Captures /\ Native[s] \in Captures /\ Native[s] \notin Suites
    BY SuiteNames, CaptureNames
<1>3. ASSUME NEW q \in Prefixes PROVE Honest(q)'
    <2>1. Honest(q)
        BY DEF TrueInv, TrueFiles
    <2>2. \A m \in Captures : Watched(rec'[q][m])
        BY <2>1 DEF Honest
    <2>3. \A m \in Captures : rec'[q][m] # NoRecord /\ rec'[q][m].fatal => \E s \in Suites : m = Native[s]
        BY <2>1 DEF Honest
    <2>4. ASSUME NEW s \in Suites, rec'[q][s] # NoRecord, rec'[q][s].code = 0, rec'[q][Native[s]] # NoRecord
          PROVE  ReturnCode(rec'[q][Native[s]]) = 0
        <3>1. CASE q = p /\ l = s
            <4>1. rec'[p][Native[s]] = rec[p][Native[s]]
                BY <1>2, <3>1
            <4> QED BY <2>4, <3>1, <4>1
        <3>2. CASE q = p /\ l = Native[s]
            <4>1. rec'[p][s] = rec[p][s] /\ rec[p][s] = NoRecord
                BY <1>2, <3>2
            <4> QED BY <2>4, <3>2, <4>1
        <3>3. CASE q # p \/ (l # s /\ l # Native[s])
            <4>1. rec'[q][s] = rec[q][s] /\ rec'[q][Native[s]] = rec[q][Native[s]]
                BY <1>2, <3>3
            <4> QED BY <2>1, <2>4, <4>1 DEF Honest
        <3> QED BY <3>1, <3>2, <3>3
    <2> QED BY <2>2, <2>3, <2>4 DEF Honest, Watched
<1> QED BY <1>1, <1>3 DEF TrueFiles

LEMMA AfterTrue == ASSUME TypeInv, FreeInv, FreeInv', Adds, TrueInv, After PROVE TrueInv'
<1> PICK p \in Prefixes : p = script.prefix
    BY AfterMoves DEF Chained
<1> PICK l \in Captures : l = script.capture
    BY AfterMoves
<1> PICK r : r = Record(script.child, script.before, l)
    OBVIOUS
<1>1. /\ script'.kind = script.kind /\ script'.prefix = p
      /\ script'.pc = (IF Now(script) \in Suites THEN "outer" ELSE "returned")
      /\ Now(script') = Now(script) /\ script # Idle /\ script.kind # "seal" /\ script.pc = "after"
      /\ Now(script) \in Captures /\ script.child \in Outcome /\ script.before \in Tree /\ P = p
      /\ (Now(script) \notin Suites => l = Now(script))
      /\ script.at \in 1 .. LastStage(script.kind)
    BY AfterMoves DEF Same, Now, Chained, Placed, Working, Capturing
<1>s. Now(script) \in Suites => /\ l = Native[Now(script)] /\ script'.before = script.outer
                                /\ script'.child = [Passed EXCEPT !.code = ReturnCode(r), !.ran = r.ran,
                                                                  !.tested = r.tested]
    BY AfterMoves
<1>2. r \in Result /\ r.ran = script.child.ran /\ r.fatal = script.child.fatal /\ r.source = script.before.source
      /\ r.sourceKept = (tree.source = script.before.source)
    BY <1>1, RecordTyped
<1>3. /\ rec'[p][l] = r /\ \A q \in Prefixes, m \in Captures : q # p \/ m # l => rec'[q][m] = rec[q][m]
    <2>1. rec \in [Prefixes -> [Captures -> Result \cup {NoRecord}]] /\ r \in Result \cup {NoRecord}
        BY <1>2 DEF TypeInv, FilesTyped
    <2>2. rec' = [rec EXCEPT ![p][l] = r]
        BY AfterMoves
    <2> QED BY <2>1, <2>2, PutTyped
<1>4. Watching /\ Diagnosed /\ Ahead
    BY <1>1 DEF TrueInv, TrueScript, FreeInv, Free
<1>5. /\ script.before.source <= script.child.ran /\ script.child.ran <= tree.source
      /\ script.before.source \in {0, 1} /\ script.child.ran \in {0, 1} /\ tree.source \in {0, 1}
    BY <1>1, <1>4, SourcesTyped DEF Watching, Capturing
<1>6. Watched(r)
    <2>1. r.sourceKept => tree.source = script.before.source
        BY <1>2, Zenon
    <2> QED BY <1>2, <1>5, <2>1 DEF Watched
<1>7. r.fatal => \E s \in Suites : l = Native[s]
    BY <1>1, <1>s, <1>2, <1>4 DEF Diagnosed
<1>8. rec[p][l] = NoRecord /\ (l \in Suites => FALSE) /\ \A s \in Suites : l = Native[s] => rec[p][s] = NoRecord
    <2>1. CASE Now(script) \in Suites
        <3>1. l \notin Suites /\ \A s \in Suites : l = Native[s] => s = Now(script)
            BY <1>s, <2>1, SuiteNames
        <3> QED BY <1>1, <1>s, <1>4, <2>1, <3>1 DEF Ahead, Capturing
    <2>2. CASE Now(script) \notin Suites
        <3>1. \A s \in Suites : l # Native[s]
            BY <1>1, <2>2, StageNames DEF Now
        <3> QED BY <1>1, <1>4, <2>2, <3>1 DEF Ahead, Capturing
    <2> QED BY <2>1, <2>2
<1>9. TrueFiles'
    <2>1. UNCHANGED identity
        BY DEF After
    <2> QED BY <1>3, <1>6, <1>7, <1>8, <2>1, NewTrue
<1>10. CASE Now(script) \notin Suites
    BY <1>1, <1>9, <1>10, BetweenCaptures DEF TrueInv
<1>11. CASE Now(script) \in Suites
    <2>1. script'.child.code = ReturnCode(r) /\ script'.child.ran = r.ran /\ script'.child.tested = r.tested
          /\ ~script'.child.fatal
        <3>1. PICK c : c = ReturnCode(r)
            OBVIOUS
        <3>2. script'.child = [Passed EXCEPT !.code = c, !.ran = r.ran, !.tested = r.tested]
            BY <1>s, <1>11, <3>1
        <3> QED BY <3>1, <3>2 DEF Passed
    <2>2. rec'[p][Native[Now(script)]] = r /\ r # NoRecord
        BY <1>2, <1>3, <1>s, <1>11, ResultIsNone
    <2>3. script.outer.source <= script.before.source /\ script.outer.source \in {0, 1}
        BY <1>1, <1>4, <1>11, SourcesTyped DEF Watching
    <2>4. script.outer.source <= tree.source /\ script.outer.source <= r.ran /\ r.ran <= tree.source
        BY <1>2, <1>5, <2>3
    <2>5. script'.pc = "outer" /\ script'.before = script.outer /\ UNCHANGED tree
        BY <1>1, <1>s, <1>11 DEF After
    <2>6. Watching'
        BY <2>1, <2>4, <2>5 DEF Watching
    <2>7. Diagnosed'
        BY <1>1, <2>1, <2>2, <2>5 DEF Diagnosed
    <2>8. TakingOver'
        BY <2>5, NotTakingOver DEF Claiming
    <2> QED BY <1>9, <2>6, <2>7, <2>8 DEF TrueInv, TrueScript
<1> QED BY <1>10, <1>11

LEMMA AfterNestedTrue == ASSUME TypeInv, FreeInv, Adds, TrueInv, AfterNested PROVE TrueInv'
<1> PICK p \in Prefixes : p = script.prefix
    BY AfterNestedMoves DEF Chained
<1> PICK l \in Captures : l = Now(script)
    BY AfterNestedMoves DEF Chained, Working, Capturing
<1>1. /\ script'.pc = "returned" /\ l \in Suites /\ script # Idle /\ script.kind # "seal" /\ script.pc = "outer"
      /\ script.child \in Outcome /\ script.before \in Tree /\ P = p
    BY AfterNestedMoves DEF Chained, Placed, Capturing
<1>2. PICK o \in {script.child, [script.child EXCEPT !.timed = TRUE], [script.child EXCEPT !.code = 1, !.error = TRUE]} :
          rec' = [rec EXCEPT ![p][l] = Record(o, script.before, l)]
    BY AfterNestedMoves
<1>3. o \in Outcome /\ o.ran = script.child.ran /\ o.fatal = script.child.fatal
      /\ (o.code = 0 => script.child.code = 0)
    <2>1. ASSUME NEW c \in Outcome, NEW d \in {c, [c EXCEPT !.timed = TRUE], [c EXCEPT !.code = 1, !.error = TRUE]}
          PROVE  d \in Outcome /\ d.ran = c.ran /\ d.fatal = c.fatal /\ (d.code = 0 => c.code = 0)
        <3>1. CASE d = c
            BY <3>1
        <3>2. CASE d = [c EXCEPT !.timed = TRUE]
            <4>1. d \in Outcome
                BY <3>2 DEF Outcome
            <4>2. d.ran = c.ran /\ d.fatal = c.fatal /\ d.code = c.code
                BY <3>2 DEF Outcome
            <4> QED BY <4>1, <4>2
        <3>3. CASE d = [c EXCEPT !.code = 1, !.error = TRUE]
            <4>1. d \in Outcome
                BY <3>3 DEF Outcome
            <4>2. d.ran = c.ran /\ d.fatal = c.fatal /\ d.code = 1
                BY <3>3 DEF Outcome
            <4> QED BY <4>1, <4>2
        <3> QED BY <3>1, <3>2, <3>3
    <2> QED BY <1>1, <1>2, <2>1
<1> PICK r : r = Record(o, script.before, l)
    OBVIOUS
<1>4. r \in Result /\ r.ran = script.child.ran /\ r.fatal = script.child.fatal /\ r.source = script.before.source
      /\ r.sourceKept = (tree.source = script.before.source) /\ (r.code = 0 => script.child.code = 0)
    <2>1. /\ r \in Result /\ r.code = o.code /\ r.fatal = o.fatal /\ r.ran = o.ran /\ r.source = script.before.source
          /\ r.sourceKept = (tree.source = script.before.source)
        BY <1>1, <1>3, RecordTyped
    <2> QED BY <1>3, <2>1
<1>5. /\ rec'[p][l] = r /\ \A q \in Prefixes, m \in Captures : q # p \/ m # l => rec'[q][m] = rec[q][m]
    <2>1. rec \in [Prefixes -> [Captures -> Result \cup {NoRecord}]] /\ r \in Result \cup {NoRecord}
        BY <1>4 DEF TypeInv, FilesTyped
    <2>2. rec' = [rec EXCEPT ![p][l] = r]
        BY <1>2
    <2> QED BY <2>1, <2>2, PutTyped
<1>6. Watching /\ Diagnosed /\ Ahead
    BY <1>1 DEF TrueInv, TrueScript, FreeInv, Free
<1>7. /\ script.before.source <= script.child.ran /\ script.child.ran <= tree.source
      /\ script.before.source \in {0, 1} /\ script.child.ran \in {0, 1} /\ tree.source \in {0, 1}
    BY <1>1, <1>6, SourcesTyped DEF Watching, Capturing
<1>8. Watched(r)
    <2>1. r.sourceKept => tree.source = script.before.source
        BY <1>4, Zenon
    <2> QED BY <1>4, <1>7, <2>1 DEF Watched
<1>9. ~r.fatal /\ (r.code = 0 => ReturnCode(rec[p][Native[l]]) = 0)
    BY <1>1, <1>4, <1>6 DEF Diagnosed
<1>10. rec[p][l] = NoRecord /\ \A s \in Suites : l # Native[s]
    BY <1>1, <1>6, SuiteNames DEF Ahead, Capturing
<1>11. TrueFiles'
    <2>1. UNCHANGED identity
        BY DEF AfterNested
    <2> QED BY <1>5, <1>8, <1>9, <1>10, <2>1, NewTrue
<1> QED BY <1>1, <1>11, BetweenCaptures DEF TrueInv

LEMMA VerifyTrue == ASSUME TypeInv, TrueInv, VerifyReused PROVE TrueInv'
<1>1. TrueFiles'
    BY QuietTrue DEF VerifyReused, TrueInv, files
<1>2. CASE script' = Idle
    BY <1>1, <1>2, BetweenCaptures DEF TrueInv
<1>3. CASE script' # Idle
    <2>1. /\ script'.prefix = script.prefix /\ script'.base = script.base /\ script'.at = script.at
          /\ script'.before = script.before /\ script'.pc = "alias"
          /\ script # Idle /\ script.kind # "seal" /\ script.pc = "verify" /\ UNCHANGED rec
          /\ Succeeded(rec[script.base][Reusable[script.at]], script.before.source)
        BY <1>3, VerifyMoves DEF Taking, Same, VerifyReused, files
    <2>2. TakingOver
        BY <2>1 DEF TrueInv, TrueScript
    <2>3. TakingOver'
        BY <2>1, <2>2 DEF TakingOver, TakenOver
    <2>4. Watching' /\ Diagnosed'
        BY <2>1 DEF Watching, Diagnosed, Capturing
    <2> QED BY <1>1, <2>3, <2>4 DEF TrueInv, TrueScript
<1> QED BY <1>2, <1>3

LEMMA AliasTrue == ASSUME TypeInv, FreeInv, Adds, TrueInv, Alias PROVE TrueInv'
<1> PICK p \in Prefixes : p = script.prefix
    BY AliasMoves DEF Taking
<1> PICK b \in Prefixes \ {p} : b = script.base
    BY AliasMoves DEF Taking
<1> PICK n \in 1 .. 8 : n = script.at
    BY AliasMoves
<1> PICK l \in Captures : l = Reusable[n]
    BY AliasMoves
<1>1. /\ script'.prefix = p /\ script'.base = b /\ script'.before = script.before
      /\ script # Idle /\ script.kind # "seal" /\ script.pc = "alias"
      /\ \/ n < 8 /\ script'.pc = "verify" /\ script'.at = n + 1
         \/ n = 8 /\ script'.pc = "publish"
    BY AliasMoves DEF Taking
<1>2. Claimed /\ TakingOver
    BY <1>1 DEF FreeInv, Free, TrueInv, TrueScript
<1>3. /\ rec'[p][l] = rec[b][l]
      /\ \A q \in Prefixes, m \in Captures : q # p \/ m # l => rec'[q][m] = rec[q][m]
    <2>1. rec \in [Prefixes -> [Captures -> Result \cup {NoRecord}]] /\ rec[b][l] \in Result \cup {NoRecord}
        BY DEF TypeInv, FilesTyped
    <2>2. rec' = [rec EXCEPT ![p][l] = rec[b][l]]
        BY AliasMoves
    <2> QED BY <2>1, <2>2, PutTyped
<1>4. \A i \in 1 .. 8 : Reusable[i] \in Captures /\ (i # n => Reusable[i] # l)
    BY ReusableNames
<1>5. TrueFiles'
    <2>1. ASSUME NEW q \in Prefixes PROVE Continued(q)'
        <3>1. UNCHANGED identity /\ Continued(q) /\ NamedInv
            BY DEF Alias, FreeInv, TrueInv, TrueFiles
        <3> QED BY <3>1, ContinuedStays
    <2>2. ASSUME NEW q \in Prefixes PROVE Honest(q)'
        <3>1. Honest(q) /\ Honest(b)
            BY DEF TrueInv, TrueFiles
        <3>2. \A m \in Captures : rec'[q][m] = rec[q][m] \/ rec'[q][m] = rec[b][m]
            BY <1>3
        <3>3. \A m \in Captures : Watched(rec'[q][m])
            BY <3>1, <3>2 DEF Honest
        <3>4. \A m \in Captures : rec'[q][m] # NoRecord /\ rec'[q][m].fatal => \E s \in Suites : m = Native[s]
            BY <3>1, <3>2 DEF Honest
        <3>5. ASSUME NEW s \in Suites, rec'[q][s] # NoRecord, rec'[q][s].code = 0, rec'[q][Native[s]] # NoRecord
              PROVE  ReturnCode(rec'[q][Native[s]]) = 0
            <4>1. s \in Captures /\ Native[s] \in Captures /\ s # Native[s]
                BY SuiteNames, CaptureNames
            <4>2. CASE q = p /\ l = Native[s]
                <5>1. n = 8 /\ s = Reusable[7]
                    BY <4>2, ReusableNames, ReusedSuite, SuiteNames
                <5>2. TakenOver(7)
                    BY <1>1, <1>2, <5>1 DEF TakingOver
                <5>3. rec'[q][s] = rec[b][s] /\ rec'[q][Native[s]] = rec[b][Native[s]]
                    BY <1>3, <4>1, <4>2, <5>1, <5>2 DEF TakenOver
                <5> QED BY <3>1, <3>5, <5>3 DEF Honest
            <4>3. CASE q = p /\ l = s
                <5>1. n = 7 /\ Native[s] = Reusable[8]
                    <6>1. Reusable[n] # "full-debug"
                        BY DEF Reusable
                    <6>2. s = "full-releasesafe"
                        BY <4>3, <6>1, SuiteNames
                    <6>3. \A j \in 1 .. 8 : j # n => Reusable[n] # Reusable[j]
                        BY ReusableNames
                    <6>4. n = 7
                        BY <4>3, <6>2, <6>3, ReusedSuite
                    <6> QED BY <6>2, <6>4, ReusedSuite, SuiteNames
                <5>2. rec[p][Native[s]] = NoRecord
                    BY <1>1, <1>2, <5>1 DEF Claimed
                <5>3. rec'[p][Native[s]] = rec[p][Native[s]]
                    BY <1>3, <4>1, <4>3
                <5> QED BY <3>5, <4>3, <5>2, <5>3
            <4>4. CASE q # p \/ (l # s /\ l # Native[s])
                <5>1. rec'[q][s] = rec[q][s] /\ rec'[q][Native[s]] = rec[q][Native[s]]
                    BY <1>3, <4>1, <4>4
                <5> QED BY <3>1, <3>5, <5>1 DEF Honest
            <4> QED BY <4>2, <4>3, <4>4
        <3> QED BY <3>3, <3>4, <3>5 DEF Honest, Watched
    <2> QED BY <2>1, <2>2 DEF TrueFiles
<1>6. TakingOver'
    <2>1. ASSUME NEW i \in 1 .. 8, i < n PROVE TakenOver(i)'
        <3>1. TakenOver(i)
            BY <1>1, <1>2, <2>1 DEF TakingOver
        <3>2. rec'[p][Reusable[i]] = rec[p][Reusable[i]] /\ rec'[b][Reusable[i]] = rec[b][Reusable[i]]
            BY <1>3, <1>4, <2>1
        <3> QED BY <1>1, <3>1, <3>2 DEF TakenOver
    <2>2. ASSUME NEW i \in 1 .. 8, i = n PROVE TakenOver(i)'
        <3>1. Succeeded(rec[b][l], script.before.source)
            BY <1>1, <1>2 DEF TakingOver
        <3>2. rec'[b][l] = rec[b][l]
            BY <1>3
        <3> QED BY <1>1, <1>3, <2>2, <3>1, <3>2 DEF TakenOver
    <2>3. \A i \in 1 .. 8 : i < n + 1 => TakenOver(i)'
        BY <2>1, <2>2
    <2>4. CASE n < 8 /\ script'.pc = "verify" /\ script'.at = n + 1
        BY <2>3, <2>4 DEF TakingOver
    <2>5. CASE n = 8 /\ script'.pc = "publish"
        <3>1. \A i \in 1 .. 8 : TakenOver(i)'
            BY <2>3, <2>5
        <3> QED BY <2>5, <3>1 DEF TakingOver
    <2> QED BY <1>1, <2>4, <2>5
<1>7. Watching' /\ Diagnosed'
    BY <1>1 DEF Watching, Diagnosed, Capturing
<1> QED BY <1>5, <1>6, <1>7 DEF TrueInv, TrueScript

\* What a continuation took over is clean, although it never looked at a
\* diagnosis: a crash that was diagnosed failed the capture around it.
LEMMA TakenOverIsClean ==
    ASSUME NEW p \in Prefixes, Honest(p), NEW source,
           \A i \in 1 .. 8 : Succeeded(rec[p][Reusable[i]], source)
    PROVE  \A i \in 1 .. 8 : Clean(rec[p][Reusable[i]], source)
<1> SUFFICES ASSUME NEW i \in 1 .. 8 PROVE Clean(rec[p][Reusable[i]], source)
    OBVIOUS
<1>1. Reusable[i] \in Captures
    BY ReusableNames
<1>2. /\ rec[p][Reusable[i]] # NoRecord /\ rec[p][Reusable[i]].code = 0
      /\ ~rec[p][Reusable[i]].timed /\ ~rec[p][Reusable[i]].error
      /\ rec[p][Reusable[i]].source = source /\ rec[p][Reusable[i]].sourceKept
    BY DEF Succeeded
<1>3. rec[p][Reusable[i]].ran = source
    BY <1>1, <1>2 DEF Honest, Watched
<1>4. ~rec[p][Reusable[i]].fatal
    <2> SUFFICES ASSUME rec[p][Reusable[i]].fatal PROVE FALSE
        OBVIOUS
    <2>1. PICK s \in Suites : Reusable[i] = Native[s]
        BY <1>1, <1>2 DEF Honest
    <2>2. s = Reusable[7]
        BY <2>1, ReusableNames, ReusedSuite, SuiteNames
    <2>3. rec[p][s] # NoRecord /\ rec[p][s].code = 0
        BY <2>2 DEF Succeeded
    <2>4. ReturnCode(rec[p][Native[s]]) = 0
        BY <1>2, <2>1, <2>3 DEF Honest
    <2> QED BY <1>2, <2>1, <2>4 DEF ReturnCode
<1> QED BY <1>2, <1>3, <1>4 DEF Clean

LEMMA PublishTrue == ASSUME TypeInv, FreeInv, TrueInv, Publish PROVE TrueInv'
<1> PICK p \in Prefixes : p = script.prefix
    BY PublishMoves DEF Taking
<1> PICK b \in Prefixes \ {p} : b = script.base
    BY PublishMoves DEF Taking
<1>1. /\ script # Idle /\ script.kind # "seal" /\ script.pc = "publish" /\ script'.pc = "archive"
    BY PublishMoves DEF Taking
<1>2. /\ identity'[p].base = b /\ identity'[p].source = script.before.source
      /\ \A q \in Prefixes : q # p => identity'[q] = identity[q]
    BY PublishMoves
<1>3. UNCHANGED rec
    BY DEF Publish
<1>4. \A i \in 1 .. 8 : TakenOver(i)
    BY <1>1 DEF TrueInv, TrueScript, TakingOver
<1>5. Continued(p)'
    <2>1. \A i \in 1 .. 8 : Clean(rec[p][Reusable[i]], script.before.source)
        <3>1. \A i \in 1 .. 8 : Succeeded(rec[p][Reusable[i]], script.before.source)
            BY <1>4 DEF TakenOver
        <3> QED BY <3>1, TakenOverIsClean DEF TrueInv, TrueFiles
    <2> QED BY <1>2, <1>3, <1>4, <2>1 DEF Continued, TakenOver
<1>6. TrueFiles'
    <2>1. ASSUME NEW q \in Prefixes PROVE Honest(q)'
        BY <1>3 DEF TrueInv, TrueFiles, Honest
    <2>2. ASSUME NEW q \in Prefixes, q # p PROVE Continued(q)'
        <3>1. Continued(q)
            BY DEF TrueInv, TrueFiles
        <3> QED BY <1>2, <1>3, <2>2, <3>1 DEF Continued
    <2> QED BY <1>5, <2>1, <2>2 DEF TrueFiles
<1> QED BY <1>1, <1>6, BetweenCaptures DEF TrueInv

LEMMA StartTrue ==
    ASSUME TypeInv, FreeInv, TrueInv, NEW p \in Prefixes,
           Run(p) \/ Seal(p) \/ \E b \in Prefixes \ {p} : Resume(b, p)
    PROVE  TrueInv'
<1>1. CASE Run(p)
    <2>1. UNCHANGED rec
        BY <1>1 DEF Run
    <2>2. /\ script'.pc = "archive" /\ identity'[p].base = "none"
          /\ \A q \in Prefixes : q # p => identity'[q] = identity[q]
        BY <1>1, RunMoves
    <2>3. TrueFiles'
        BY <2>1, <2>2 DEF TrueInv, TrueFiles, Honest, Continued
    <2> QED BY <2>2, <2>3, BetweenCaptures DEF TrueInv
<1>2. CASE Seal(p)
    <2>1. script'.kind = "seal"
        BY <1>2, SealMoves
    <2>2. TrueFiles'
        BY <1>2, QuietTrue DEF Seal, files, TrueInv
    <2> QED BY <2>1, <2>2, BetweenCaptures DEF TrueInv
<1>3. CASE \E b \in Prefixes \ {p} : Resume(b, p)
    <2>1. PICK b \in Prefixes \ {p} : Resume(b, p)
        BY <1>3
    <2>2. TrueFiles'
        BY <2>1, QuietTrue DEF Resume, files, TrueInv
    <2>3. script'.at = 1 /\ script'.pc = "verify"
        BY <2>1, ResumeMoves
    <2>4. TakingOver'
        <3>1. \A i \in 1 .. 8 : ~(i < 1)
            OBVIOUS
        <3> QED BY <2>3, <3>1 DEF TakingOver
    <2>5. Watching' /\ Diagnosed'
        BY <2>3 DEF Watching, Diagnosed, Capturing
    <2> QED BY <2>2, <2>4, <2>5 DEF TrueInv, TrueScript
<1> QED BY <1>1, <1>2, <1>3

LEMMA AroundTrue ==
    ASSUME TypeInv, TrueInv, Edit \/ TakeBack \/ Damage \/ Crash PROVE TrueInv'
<1>1. TrueFiles'
    BY QuietTrue DEF Edit, TakeBack, Damage, Crash, files, TrueInv
<1>2. CASE Edit \/ TakeBack
    <2>1. UNCHANGED <<script, rec>>
        BY <1>2 DEF Edit, TakeBack, files
    <2>2. CASE script = Idle \/ script.kind = "seal" \/ script.pc \notin Capturing
        <3>1. TrueScript'
            BY <2>1, <2>2 DEF TrueInv, TrueScript, Watching, Diagnosed, TakingOver, TakenOver, Capturing
        <3> QED BY <1>1, <3>1 DEF TrueInv
    <2>3. CASE ~(script = Idle \/ script.kind = "seal" \/ script.pc \notin Capturing)
        <3>1. script.kind \in {"run", "resume"}
            BY <2>3 DEF TypeInv, ScriptTyped, Running
        <3>2. Edit
            BY <1>2, <2>3, <3>1 DEF TakeBack, ChildRuns, Capturing
        <3>3. PICK thing \in DOMAIN tree : tree[thing] = 0 /\ tree' = [tree EXCEPT ![thing] = 1]
            BY <3>2 DEF Edit
        <3>4. tree \in Tree /\ DOMAIN tree = {"source", "producers"}
            BY DEF TypeInv, FilesTyped, Tree
        <3>5. tree'.source \in {0, 1} /\ tree.source \in {0, 1} /\ tree.source <= tree'.source
            BY <3>3, <3>4 DEF Tree, Version
        <3>6. Watching /\ Diagnosed /\ TakingOver
            BY <2>3 DEF TrueInv, TrueScript
        <3>7. Watching'
            <4>1. /\ script.pc \in Capturing => script.before.source \in {0, 1}
                  /\ script.pc \in {"after", "outer"} => script.child.ran \in {0, 1}
                BY <2>3, SourcesTyped
            <4> QED BY <2>1, <3>5, <3>6, <4>1 DEF Watching, Capturing
        <3>8. Diagnosed' /\ TakingOver'
            BY <2>1, <3>6 DEF Diagnosed, TakingOver, TakenOver
        <3> QED BY <1>1, <3>7, <3>8 DEF TrueInv, TrueScript
    <2> QED BY <2>2, <2>3
<1>3. CASE Damage
    BY <1>1, <1>3 DEF Damage, TrueInv, TrueScript, Watching, Diagnosed, TakingOver, TakenOver
<1>4. CASE Crash
    BY <1>1, <1>4, BetweenCaptures DEF Crash, TrueInv
<1> QED BY <1>2, <1>3, <1>4

LEMMA QuietActions ==
    ASSUME TypeInv, TrueInv, GoOn \/ Check \/ Archive \/ Finish \/ MakeHandoff \/ WriteManifest
    PROVE  TrueInv'
<1>1. TrueFiles'
    BY QuietTrue DEF GoOn, Check, Archive, Finish, MakeHandoff, WriteManifest, files, TrueInv
<1>2. script' = Idle \/ script'.kind = "seal" \/ script'.pc \in {"archive", "check", "begin", "returned"}
    BY GoOnMoves, CheckMoves, ArchiveMoves, FinishMoves, SealingMoves
<1> QED BY <1>1, <1>2, BetweenCaptures DEF TrueInv

LEMMA FirstTrue == ASSUME Init PROVE TrueInv
<1>1. TrueScript
    BY DEF Init, TrueScript
<1>2. \A s \in Suites : s \in Captures
    BY SuiteNames, CaptureNames
<1>3. ASSUME NEW p \in Prefixes PROVE Honest(p) /\ Continued(p)
    <2>1. identity[p] = NoIdentity /\ \A l \in Captures : rec[p][l] = NoRecord
        BY DEF Init
    <2> QED BY <1>2, <2>1 DEF Honest, Watched, Continued
<1> QED BY <1>1, <1>3 DEF TrueInv, TrueFiles

LEMMA StaysTrue == ASSUME TypeInv, FreeInv, TrueInv, [Next]_vars PROVE TrueInv'
<1>0. TypeInv' /\ FreeInv' /\ Adds
    BY StaysFree
<1>1. CASE Begin
    BY <1>1, BeginTrue
<1>2. CASE BeginNested
    BY <1>2, BeginNestedTrue
<1>3. CASE Child
    BY <1>3, ChildTrue
<1>4. CASE After
    BY <1>0, <1>4, AfterTrue
<1>5. CASE AfterNested
    BY <1>0, <1>5, AfterNestedTrue
<1>6. CASE GoOn \/ Check \/ Archive \/ Finish \/ MakeHandoff \/ WriteManifest
    BY <1>6, QuietActions
<1>7. CASE \E p \in Prefixes : Run(p) \/ Seal(p) \/ \E b \in Prefixes \ {p} : Resume(b, p)
    BY <1>7, StartTrue
<1>8. CASE VerifyReused
    BY <1>8, VerifyTrue
<1>9. CASE Alias
    BY <1>0, <1>9, AliasTrue
<1>10. CASE Publish
    BY <1>10, PublishTrue
<1>11. CASE Edit \/ TakeBack \/ Damage \/ Crash
    BY <1>11, AroundTrue
<1>12. CASE UNCHANGED vars
    <2>1. TrueFiles'
        BY <1>12, QuietTrue DEF vars, files, TrueInv
    <2>2. TrueScript'
        BY <1>12 DEF vars, files, TrueInv, TrueScript, Watching, Diagnosed, TakingOver, TakenOver
    <2> QED BY <2>1, <2>2 DEF TrueInv
<1> QED BY <1>1, <1>2, <1>3, <1>4, <1>5, <1>6, <1>7, <1>8, <1>9, <1>10, <1>11, <1>12 DEF Next

LEMMA AlwaysTrue == Spec => [](TypeInv /\ FreeInv /\ TrueInv)
<1>1. Init => TypeInv /\ FreeInv /\ TrueInv
    BY FirstFree, FirstTrue
<1>2. TypeInv /\ FreeInv /\ TrueInv /\ [Next]_vars => (TypeInv /\ FreeInv /\ TrueInv)'
    BY StaysFree, StaysTrue
<1> QED BY <1>1, <1>2, PTL DEF Spec

\* A continuation took over nothing that failed: resume-11-debug.py does not
\* look at a diagnosed crash, and need not, because run-10-command.py fails the
\* capture around the suite that crashed.
THEOREM ContinuationsReuseCleanResults == Spec => []ReusedIsClean
<1>1. TypeInv /\ TrueInv => ReusedIsClean
    <2> SUFFICES ASSUME TypeInv, TrueInv, NEW p \in Prefixes, identity[p].base \in Prefixes, NEW i \in 1 .. 8
                 PROVE  LET r == rec[p][Reusable[i]]
                        IN  r.code = 0 /\ ~r.timed /\ ~r.fatal /\ ~r.error /\ r.ran = identity[p].source
        BY Lists DEF ReusedIsClean
    <2>1. identity[p] # NoIdentity /\ identity[p].base # "none"
        BY IdentityIsNone, PrefixesAssumption
    <2> QED BY <2>1 DEF TrueInv, TrueFiles, Continued, Clean
<1> QED BY <1>1, AlwaysTrue, PTL

-----------------------------------------------------------------------------
(* Artifacts that were tested.                                             *)

Inspected(p) ==
    \A l \in DOMAIN Inspects : rec[p][l] # NoRecord =>
      rec[p][Inspects[l]] # NoRecord /\ rec[p][Inspects[l]].tested = rec[p][l].tested
SuitesOf(p) == IF identity[p].base = "none" THEN Suites ELSE {"full-debug"}
Listed(p) ==
    sums[p] # Nothing => \A s \in SuitesOf(p) :
      rec[p][Native[s]] # NoRecord /\ rec[p][Native[s]].tested = sums[p][Executes[Native[s]]]
Bounded == \A p \in Prefixes, a \in Artifacts : elf[p][a] <= 1 + troubles

\* The executable of the suite at hand: its digest was taken when it was built,
\* a later change has a later number.
Under(s) == Executes[Native[s]]
Done ==
    \A i \in 1 .. script.at - 1 : StageOf(script.kind, i) \in Suites =>
      LET s == StageOf(script.kind, i)
      IN  /\ rec[script.prefix][Native[s]] # NoRecord
          /\ rec[script.prefix][Native[s]].tested = script.digests[Under(s)]
Ready ==
    script.at \in 1 .. LastStage(script.kind) /\ Now(script) \in Suites =>
      script.digests[Under(Now(script))] <= elf[script.prefix][Under(Now(script))]
Judging ==
    /\ script.pc = "after" /\ Now(script) \in Suites =>
         /\ script.digests[Under(Now(script))] <= script.child.tested
         /\ script.child.tested <= elf[script.prefix][Under(Now(script))]
    /\ script.pc \in {"outer", "returned"} /\ Now(script) \in Suites =>
         LET r == rec[script.prefix][Native[Now(script)]]
         IN  /\ r # NoRecord /\ script.digests[Under(Now(script))] <= r.tested
             /\ r.tested <= elf[script.prefix][Under(Now(script))]
    /\ script.pc = "after" /\ script.capture \in DOMAIN Inspects =>
         LET r == rec[script.prefix][Inspects[script.capture]]
         IN  r # NoRecord /\ script.child.tested = r.tested
TestedFiles == Bounded /\ \A p \in Prefixes : Inspected(p) /\ Listed(p)
TestedScript ==
    script # Idle /\ script.kind # "seal" /\ (script.pc = "check" \/ script.pc \in Working) =>
      Done /\ Ready /\ Judging
TestedInv == TestedFiles /\ TestedScript

LEMMA NotAtStage ==
    ASSUME script' = Idle \/ script'.kind = "seal" \/ script'.pc \in {"archive", "verify", "alias", "publish"}
    PROVE  TestedScript'
BY DEF TestedScript, Working, Capturing

LEMMA UnderNames ==
    ASSUME NEW s \in Suites
    PROVE  /\ Under(s) \in Artifacts /\ Native[s] \in Captures /\ s \in Captures
           /\ Native[s] \in DOMAIN Executes /\ Native[s] \notin DOMAIN Inspects /\ Native[s] \notin DOMAIN Emits
           /\ Native[s] \notin Suites
BY SuiteNames, ExecutesNames, OtherNames, ArtifactNames, CaptureNames DEF Under

LEMMA InspectNames ==
    ASSUME NEW l \in DOMAIN Inspects
    PROVE  /\ l \in Captures /\ Inspects[l] \in Captures /\ l \notin Suites /\ Inspects[l] \notin DOMAIN Inspects
           /\ \A s \in Suites : Native[s] # l
BY SuiteNames, OtherNames, CaptureNames

\* What was listed and inspected stays so when results are added that are not
\* audits, and no list is written.
LEMMA AddedTested ==
    ASSUME TestedFiles, Adds, UNCHANGED sums,
           \A p \in Prefixes : sums[p] # Nothing => identity'[p] = identity[p],
           \A p \in Prefixes, l \in DOMAIN Inspects : rec'[p][l] = rec[p][l]
    PROVE  \A p \in Prefixes : Inspected(p)' /\ Listed(p)'
<1> TAKE p \in Prefixes
<1>1. Inspected(p)'
    <2> SUFFICES ASSUME NEW l \in DOMAIN Inspects, rec[p][l] # NoRecord
                 PROVE  /\ rec'[p][Inspects[l]] # NoRecord
                        /\ rec'[p][Inspects[l]].tested = rec[p][l].tested
        BY DEF Inspected
    <2>1. rec[p][Inspects[l]] # NoRecord /\ rec[p][Inspects[l]].tested = rec[p][l].tested
        BY DEF TestedFiles, Inspected
    <2> QED BY <2>1, InspectNames DEF Adds
<1>2. Listed(p)'
    <2> SUFFICES ASSUME sums[p] # Nothing, NEW s \in SuitesOf(p)
                 PROVE  /\ rec'[p][Native[s]] # NoRecord
                        /\ rec'[p][Native[s]].tested = sums[p][Executes[Native[s]]]
        BY DEF Listed, SuitesOf
    <2>1. s \in Suites
        BY SuiteNames DEF SuitesOf
    <2>2. rec[p][Native[s]] # NoRecord /\ rec[p][Native[s]].tested = sums[p][Executes[Native[s]]]
        BY DEF TestedFiles, Listed
    <2> QED BY <2>1, <2>2, UnderNames DEF Adds
<1> QED BY <1>1, <1>2

LEMMA QuietTested ==
    ASSUME TestedFiles, UNCHANGED <<rec, sums, identity>>
    PROVE  \A p \in Prefixes : Inspected(p)' /\ Listed(p)'
BY DEF TestedFiles, Inspected, Listed, SuitesOf

LEMMA StillBounded ==
    ASSUME TypeInv, Bounded, UNCHANGED elf, troubles' = troubles \/ troubles' = troubles + 1 PROVE Bounded'
<1>1. elf \in [Prefixes -> [Artifacts -> Nat]] /\ troubles \in Nat
    BY DEF TypeInv, FilesTyped, Digests
<1> QED BY <1>1 DEF Bounded

\* The stages before the present one, and the executable at hand.
LEMMA StillDone ==
    ASSUME Adds, Done, script \in Running, script.at - 1 <= LastStage(script.kind), UNCHANGED script.at,
           script'.prefix = script.prefix, script'.kind = script.kind, script'.digests = script.digests
    PROVE  Done'
<1> SUFFICES ASSUME NEW i \in 1 .. script.at - 1, NEW s \in Suites, s = StageOf(script.kind, i)
             PROVE  /\ rec'[script.prefix][Native[s]] # NoRecord
                    /\ rec'[script.prefix][Native[s]].tested = script.digests[Under(s)]
    BY DEF Done
<1>1. /\ rec[script.prefix][Native[s]] # NoRecord
      /\ rec[script.prefix][Native[s]].tested = script.digests[Under(s)]
    BY DEF Done
<1>2. script.prefix \in Prefixes
    BY DEF Running
<1> QED BY <1>1, <1>2, UnderNames DEF Adds

LEMMA StillReady ==
    ASSUME Ready, script'.at = script.at, script'.prefix = script.prefix, script'.kind = script.kind,
           script'.digests = script.digests, elf'[script.prefix] = elf[script.prefix]
    PROVE  Ready'
BY DEF Ready, Now

LEMMA AtStage ==
    ASSUME TestedInv, NEW pc, Chained(pc), pc \in Working \cup {"check"}
    PROVE  /\ script # Idle /\ script.kind # "seal" /\ script.pc = pc /\ script \in Running
           /\ script.prefix \in Prefixes /\ script.at \in Nat /\ LastStage(script.kind) \in Nat
           /\ script.at - 1 <= LastStage(script.kind)
           /\ Done /\ Ready /\ Judging
<1>1. /\ script # Idle /\ script.kind # "seal" /\ script.pc = pc /\ script \in Running
      /\ script.prefix \in Prefixes /\ Placed(script)
    BY DEF Chained
<1>2. script.at \in Nat /\ LastStage(script.kind) \in Nat /\ script.at - 1 <= LastStage(script.kind)
    BY <1>1 DEF Placed, LastStage
<1>3. Done /\ Ready /\ Judging
    BY <1>1 DEF TestedInv, TestedScript
<1> QED BY <1>1, <1>2, <1>3

LEMMA BeginsTested == ASSUME TypeInv, Adds, TestedInv, Begin \/ BeginNested \/ Check PROVE TestedInv'
<1>1. UNCHANGED <<rec, sums, identity, elf, troubles>>
    BY DEF Begin, BeginNested, Check, files
<1>2. TestedFiles'
    BY <1>1, QuietTested, StillBounded DEF TestedInv, TestedFiles
<1>3. CASE script' = Idle
    BY <1>2, <1>3, NotAtStage DEF TestedInv
<1>4. CASE script' # Idle
    <2>1. PICK pc \in {"begin", "nested", "check"} : Chained(pc)
        BY <1>4, BeginMoves, BeginNestedMoves, CheckMoves
    <2>2. pc \in Working \cup {"check"}
        BY <2>1 DEF Working, Capturing
    <2>3. Same(script, script') /\ script'.pc \in {"nested", "child", "begin"}
        BY <1>4, BeginMoves, BeginNestedMoves, CheckMoves
    <2>4. /\ script'.at = script.at /\ script'.prefix = script.prefix /\ script'.kind = script.kind
          /\ script'.digests = script.digests /\ elf'[script.prefix] = elf[script.prefix]
        BY <1>1, <2>3 DEF Same
    <2>5. Done'
        BY <2>1, <2>2, <2>4, AtStage, StillDone
    <2>6. Ready'
        BY <2>1, <2>2, <2>4, AtStage, StillReady
    <2>7. Judging'
        BY <2>3 DEF Judging
    <2> QED BY <1>2, <2>5, <2>6, <2>7 DEF TestedInv, TestedScript
<1> QED BY <1>3, <1>4

LEMMA ChildTested == ASSUME TypeInv, FreeInv, TrueInv, Adds, TestedInv, Child PROVE TestedInv'
<1> PICK p \in Prefixes : p = script.prefix
    BY ChildMoves DEF Chained
<1> PICK l \in Captures : l = script.capture
    BY ChildMoves
<1>1. Chained("child") /\ "child" \in Working \cup {"check"}
    BY ChildMoves DEF Working, Capturing
<1>2. /\ script'.at = script.at /\ script'.prefix = p /\ script'.kind = script.kind
      /\ script'.digests = script.digests /\ script'.pc = "after" /\ script'.capture = l
      /\ Now(script') = Now(script)
    BY ChildMoves DEF Now
<1>3. UNCHANGED <<rec, sums, identity>>
    BY DEF Child
<1>4. /\ script \in Running /\ script.at \in 1 .. LastStage(script.kind)
      /\ Now(script) \in Suites => l = Native[Now(script)]
      /\ Now(script) \notin Suites => l = Now(script)
    BY <1>1 DEF Chained, Placed, Working, Capturing
<1>5. elf \in [Prefixes -> [Artifacts -> Nat]] /\ 1 \in Nat /\ troubles \in Nat
    BY DEF TypeInv, FilesTyped, Digests
<1>6. script'.child.tested = Tested(l)
    <2>1. PICK o \in {Passed} \cup Failures(script.kind, l) :
              script' = [script EXCEPT !.pc = "after",
                                       !.child = [o EXCEPT !.ran = tree.source, !.tested = Tested(l)]]
        BY ChildMoves
    <2>2. o \in Outcome
        BY FailuresTyped
    <2>3. script'.child = [o EXCEPT !.ran = tree.source, !.tested = Tested(l)]
        BY <1>4, <2>1 DEF Running
    <2> QED BY <2>2, <2>3 DEF Outcome
<1>7. Bounded'
    <2>1. troubles' = troubles \/ troubles' = troubles + 1
        BY ChildMoves
    <2>2. CASE l \in DOMAIN Emits
        <3>1. Emits[l] \in Artifacts /\ elf' = [elf EXCEPT ![p][Emits[l]] = 1]
            BY <2>2, ChildMoves, OtherNames, ArtifactNames
        <3>2. \A q \in Prefixes, a \in Artifacts : elf'[q][a] = 1 \/ elf'[q][a] = elf[q][a]
            BY <1>5, <3>1, PutTyped
        <3>3. \A q \in Prefixes, a \in Artifacts : elf[q][a] \in Nat /\ elf[q][a] <= 1 + troubles
            BY <1>5 DEF TestedInv, TestedFiles, Bounded
        <3>4. 1 <= 1 + troubles' /\ \A n \in Nat : n <= 1 + troubles => n <= 1 + troubles'
            BY <1>5, <2>1
        <3> QED BY <3>2, <3>3, <3>4 DEF Bounded
    <2>3. CASE l \notin DOMAIN Emits
        <3>1. UNCHANGED elf
            BY <2>3, ChildMoves
        <3> QED BY <2>1, <3>1, StillBounded DEF TestedInv, TestedFiles
    <2> QED BY <2>2, <2>3
<1>8. TestedFiles'
    BY <1>3, <1>7, QuietTested DEF TestedInv, TestedFiles
<1>9. Done'
    BY <1>1, <1>2, AtStage, StillDone
<1>10. Now(script) \in Suites => UNCHANGED elf
    BY <1>4, ChildMoves, UnderNames
<1>11. Ready
    BY <1>1, AtStage
<1>12. Ready'
    BY <1>2, <1>10, <1>11 DEF Ready
<1>13. Judging'
    <2>1. ASSUME Now(script) \in Suites
          PROVE  /\ script.digests[Under(Now(script))] <= Tested(l)
                 /\ Tested(l) <= elf'[p][Under(Now(script))]
        <3>1. Tested(l) = elf[p][Under(Now(script))]
            BY <1>4, <2>1, UnderNames DEF Tested, Under, P
        <3>2. elf[p][Under(Now(script))] \in Nat
            BY <1>5, <2>1, UnderNames
        <3> QED BY <1>4, <1>10, <1>11, <2>1, <3>1, <3>2 DEF Ready
    <2>2. ASSUME l \in DOMAIN Inspects
          PROVE  rec[p][Inspects[l]] # NoRecord /\ Tested(l) = rec[p][Inspects[l]].tested
        <3>1. PICK b : b = IF identity[p].base = "none" THEN p ELSE identity[p].base
            OBVIOUS
        <3>2. Now(script) = l /\ b \in Prefixes /\ Inspects[l] \in Captures /\ rec[b][Inspects[l]] \in Result
            BY <1>1, <2>2, <3>1, InspectedIsThere
        <3>3. Tested(l) = rec[b][Inspects[l]].tested /\ rec[b][Inspects[l]] # NoRecord
            BY <2>2, <3>1, <3>2, ResultIsNone DEF Tested, P
        <3>4. rec[p][Inspects[l]] = rec[b][Inspects[l]]
            <4>1. CASE identity[p].base = "none"
                BY <3>1, <4>1
            <4>2. CASE identity[p].base # "none"
                <5>1. identity[p] # NoIdentity
                    BY <1>1, WorkerNamed DEF Chained, Claiming
                <5>2. PICK j \in 1 .. 8 : Reusable[j] = Inspects[l]
                    BY <1>4, <2>2, <3>2, InspectedBefore DEF Now
                <5> QED BY <3>1, <4>2, <5>1, <5>2 DEF TrueInv, TrueFiles, Continued
            <4> QED BY <4>1, <4>2
        <3> QED BY <3>3, <3>4
    <2> QED BY <1>2, <1>3, <1>6, <2>1, <2>2 DEF Judging
<1> QED BY <1>8, <1>9, <1>12, <1>13 DEF TestedInv, TestedScript

LEMMA AfterTested == ASSUME TypeInv, FreeInv, Adds, TestedInv, After PROVE TestedInv'
<1> PICK p \in Prefixes : p = script.prefix
    BY AfterMoves DEF Chained
<1> PICK l \in Captures : l = script.capture
    BY AfterMoves
<1>1. Chained("after") /\ "after" \in Working \cup {"check"}
    BY AfterMoves DEF Working, Capturing
<1>2. /\ script'.at = script.at /\ script'.prefix = p /\ script'.kind = script.kind
      /\ script'.digests = script.digests /\ script'.pc \in {"outer", "returned"} /\ Now(script') = Now(script)
    BY AfterMoves DEF Same, Now
<1>3. UNCHANGED <<elf, sums, identity, troubles>>
    BY DEF After
<1>4. /\ script \in Running /\ script.at \in 1 .. LastStage(script.kind)
      /\ Now(script) \in Suites => l = Native[Now(script)]
      /\ Now(script) \notin Suites => l = Now(script)
      /\ script.child \in Outcome /\ script.before \in Tree /\ P = p
    BY <1>1 DEF Chained, Placed, Working, Capturing
<1> PICK r : r = Record(script.child, script.before, l)
    OBVIOUS
<1>5. r \in Result /\ r.tested = script.child.tested /\ r # NoRecord
    BY <1>4, RecordTyped, ResultIsNone
<1>6. /\ rec'[p][l] = r /\ \A q \in Prefixes, m \in Captures : q # p \/ m # l => rec'[q][m] = rec[q][m]
    <2>1. rec \in [Prefixes -> [Captures -> Result \cup {NoRecord}]] /\ r \in Result \cup {NoRecord}
        BY <1>5 DEF TypeInv, FilesTyped
    <2>2. rec' = [rec EXCEPT ![p][l] = r]
        BY AfterMoves
    <2> QED BY <2>1, <2>2, PutTyped
<1>7. Done /\ Ready /\ Judging
    BY <1>1, AtStage
<1>8. Done'
    BY <1>1, <1>2, AtStage, StillDone
<1>9. Ready'
    BY <1>2, <1>3, <1>7, StillReady
<1>10. Judging'
    <2>1. ASSUME Now(script) \in Suites
          PROVE  /\ rec'[p][Native[Now(script)]] = r /\ script.digests[Under(Now(script))] <= r.tested
                 /\ r.tested <= elf[p][Under(Now(script))]
        <3>1. script.pc = "after"
            BY <1>1 DEF Chained
        <3> QED BY <1>4, <1>5, <1>6, <1>7, <2>1, <3>1 DEF Judging
    <2> QED BY <1>2, <1>3, <1>5, <2>1 DEF Judging
<1>11. \A q \in Prefixes : Inspected(q)' /\ Listed(q)'
    <2>1. CASE l \notin DOMAIN Inspects
        <3>1. \A q \in Prefixes, m \in DOMAIN Inspects : rec'[q][m] = rec[q][m]
            BY <1>6, <2>1, InspectNames
        <3> QED BY <1>3, <3>1, AddedTested DEF TestedInv
    <2>2. CASE l \in DOMAIN Inspects
        <3>1. rec[p][Inspects[l]] # NoRecord /\ r.tested = rec[p][Inspects[l]].tested
            BY <1>1, <1>5, <1>7, <2>2 DEF Judging, Chained
        <3>2. ASSUME NEW q \in Prefixes PROVE Inspected(q)'
            <4> SUFFICES ASSUME NEW m \in DOMAIN Inspects, rec'[q][m] # NoRecord
                         PROVE  /\ rec'[q][Inspects[m]] # NoRecord
                                /\ rec'[q][Inspects[m]].tested = rec'[q][m].tested
                BY DEF Inspected
            <4>1. m \in Captures /\ Inspects[m] \in Captures /\ Inspects[m] # l
                BY <2>2, InspectNames
            <4>2. rec'[q][Inspects[m]] = rec[q][Inspects[m]]
                BY <1>6, <4>1
            <4>3. CASE q = p /\ m = l
                BY <1>6, <3>1, <4>2, <4>3
            <4>4. CASE q # p \/ m # l
                <5>1. rec'[q][m] = rec[q][m]
                    BY <1>6, <4>1, <4>4
                <5> QED BY <4>2, <5>1 DEF TestedInv, TestedFiles, Inspected
            <4> QED BY <4>3, <4>4
        <3>3. ASSUME NEW q \in Prefixes PROVE Listed(q)'
            <4>1. Listed(q)
                BY DEF TestedInv, TestedFiles
            <4>2. ASSUME NEW s \in SuitesOf(q) PROVE rec'[q][Native[s]] = rec[q][Native[s]]
                <5>1. s \in Suites
                    BY SuiteNames DEF SuitesOf
                <5> QED BY <1>6, <2>2, <5>1, UnderNames
            <4> QED BY <1>3, <4>1, <4>2 DEF Listed, SuitesOf
        <3> QED BY <3>2, <3>3
    <2> QED BY <2>1, <2>2
<1>12. Bounded'
    BY <1>3, StillBounded DEF TestedInv, TestedFiles
<1> QED BY <1>8, <1>9, <1>10, <1>11, <1>12 DEF TestedInv, TestedFiles, TestedScript

LEMMA AfterNestedTested == ASSUME TypeInv, FreeInv, Adds, TestedInv, AfterNested PROVE TestedInv'
<1> PICK p \in Prefixes : p = script.prefix
    BY AfterNestedMoves DEF Chained
<1> PICK l \in Captures : l = Now(script)
    BY AfterNestedMoves DEF Chained, Working, Capturing
<1>1. Chained("outer") /\ "outer" \in Working \cup {"check"} /\ l \in Suites
    BY AfterNestedMoves DEF Working, Capturing
<1>2. /\ script'.at = script.at /\ script'.prefix = p /\ script'.kind = script.kind
      /\ script'.digests = script.digests /\ script'.pc = "returned" /\ Now(script') = l
    BY AfterNestedMoves DEF Same, Now
<1>3. UNCHANGED <<elf, sums, identity>> /\ (troubles' = troubles \/ troubles' = troubles + 1)
    <2>1. troubles' = troubles \/ troubles' = troubles + 1
        BY AfterNestedMoves
    <2> QED BY <2>1 DEF AfterNested
<1>4. PICK r : rec' = [rec EXCEPT ![p][l] = r]
    BY AfterNestedMoves
<1>5. Done /\ Ready /\ Judging
    BY <1>1, AtStage
<1>6. \A q \in Prefixes, m \in Captures : m # l => rec'[q][m] = rec[q][m]
    BY <1>4 DEF TypeInv, FilesTyped
<1>7. \A q \in Prefixes, m \in DOMAIN Inspects : rec'[q][m] = rec[q][m]
    BY <1>1, <1>6, InspectNames
<1>8. Done'
    BY <1>1, <1>2, AtStage, StillDone
<1>9. Ready'
    BY <1>2, <1>3, <1>5, StillReady
<1>10. Judging'
    <2>1. rec'[p][Native[l]] = rec[p][Native[l]]
        BY <1>1, <1>6, UnderNames
    <2>2. script.pc = "outer"
        BY <1>1 DEF Chained
    <2> QED BY <1>1, <1>2, <1>3, <1>5, <2>1, <2>2 DEF Judging
<1>11. \A q \in Prefixes : Inspected(q)' /\ Listed(q)'
    BY <1>3, <1>7, AddedTested DEF TestedInv
<1>12. Bounded'
    BY <1>3, StillBounded DEF TestedInv, TestedFiles
<1> QED BY <1>8, <1>9, <1>10, <1>11, <1>12 DEF TestedInv, TestedFiles, TestedScript

\* The digest that is taken or compared between two stages.
LEMMA GoOnTested == ASSUME TypeInv, FreeInv, Adds, TestedInv, GoOn PROVE TestedInv'
<1>1. UNCHANGED <<rec, sums, identity, elf, troubles>>
    BY DEF GoOn, files
<1>2. TestedFiles'
    BY <1>1, QuietTested, StillBounded DEF TestedInv, TestedFiles
<1>3. CASE script' = Idle
    BY <1>2, <1>3, NotAtStage DEF TestedInv
<1>4. CASE script' # Idle
    <2> PICK p \in Prefixes : p = script.prefix
        BY <1>4, GoOnMoves DEF Chained
    <2> PICK l \in Captures : l = Now(script)
        BY <1>4, GoOnMoves DEF Chained, Working
    <2>1. Chained("returned") /\ "returned" \in Working \cup {"check"}
        BY <1>4, GoOnMoves DEF Working
    <2>2. /\ script'.at = script.at + 1 /\ script'.prefix = p /\ script'.kind = script.kind
          /\ script'.pc = "check"
        BY <1>4, GoOnMoves
    <2>3. script'.digests = IF l \in DOMAIN Emits THEN [script.digests EXCEPT ![Emits[l]] = elf[p][Emits[l]]]
                            ELSE script.digests
        BY <1>4, GoOnMoves
    <2>4. l \in Suites => elf[p][Under(l)] = script.digests[Under(l)]
        BY <1>4, GoOnMoves DEF Under
    <2>5. script.digests \in [Artifacts -> Nat] /\ elf[p] \in [Artifacts -> Nat]
        BY <2>1 DEF Chained, Running, TypeInv, FilesTyped, Digests
    <2>6. Done /\ Ready /\ Judging /\ script.at \in 1 .. LastStage(script.kind) /\ LastStage(script.kind) \in Nat
        <3>1. Done /\ Ready /\ Judging
            BY <2>1, AtStage
        <3> QED BY <2>1, <3>1 DEF Chained, Placed, Working, LastStage
    <2>7. Done'
        <3> SUFFICES ASSUME NEW i \in 1 .. script.at, NEW s \in Suites, s = StageOf(script.kind, i)
                     PROVE  /\ rec[p][Native[s]] # NoRecord
                            /\ rec[p][Native[s]].tested = script'.digests[Under(s)]
            BY <1>1, <2>2, <2>6 DEF Done
        <3>1. script'.digests[Under(s)] = script.digests[Under(s)]
            <4>1. i \in 1 .. LastStage(script.kind) /\ script.at \in i .. LastStage(script.kind)
                BY <2>6
            <4>2. l \in DOMAIN Emits => Emits[l] # Under(s)
                BY <4>1, SuiteBuilt DEF Now, Under
            <4> QED BY <2>3, <2>5, <4>2, UnderNames
        <3>2. CASE i = script.at
            <4>1. s = l /\ script.pc = "returned"
                BY <2>1, <3>2 DEF Now, Chained
            <4>2. /\ rec[p][Native[s]] # NoRecord /\ script.digests[Under(s)] <= rec[p][Native[s]].tested
                  /\ rec[p][Native[s]].tested <= elf[p][Under(s)]
                BY <2>6, <4>1 DEF Judging
            <4>3. rec[p][Native[s]].tested \in Nat /\ script.digests[Under(s)] \in Nat
                <5>1. rec \in [Prefixes -> [Captures -> Result \cup {NoRecord}]] /\ Native[s] \in Captures
                    BY UnderNames DEF TypeInv, FilesTyped
                <5>2. rec[p][Native[s]] \in Result
                    BY <4>2, <5>1
                <5> QED BY <2>5, <5>2, UnderNames DEF Result
            <4> QED BY <2>4, <3>1, <4>1, <4>2, <4>3
        <3>3. CASE i # script.at
            <4>1. i \in 1 .. script.at - 1
                BY <2>6, <3>3
            <4> QED BY <2>6, <3>1, <4>1 DEF Done
        <3> QED BY <3>2, <3>3
    <2>8. Ready'
        <3> SUFFICES ASSUME NEW s \in Suites, s = StageOf(script.kind, script.at + 1),
                            script.at + 1 \in 1 .. LastStage(script.kind)
                     PROVE  script'.digests[Under(s)] <= elf[p][Under(s)]
            BY <1>1, <2>2 DEF Ready, Now
        <3> PICK j \in 1 .. LastStage(script.kind) : j = script.at + 1
            OBVIOUS
        <3>1. j - 1 = script.at
            BY <2>6
        <3>2. StageOf(script.kind, j - 1) \in DOMAIN Emits /\ Emits[StageOf(script.kind, j - 1)] = Under(s)
            BY SuiteBuilt DEF Under
        <3>l. l \in DOMAIN Emits /\ Emits[l] = Under(s)
            BY <3>1, <3>2 DEF Now
        <3>3. script'.digests[Under(s)] = elf[p][Under(s)] /\ elf[p][Under(s)] \in Nat
            BY <2>3, <2>5, <3>l, UnderNames
        <3> QED BY <3>3
    <2>9. Judging'
        BY <2>2 DEF Judging
    <2> QED BY <1>2, <2>7, <2>8, <2>9 DEF TestedInv, TestedScript
<1> QED BY <1>3, <1>4

LEMMA ArchiveTested == ASSUME TypeInv, TestedInv, Archive PROVE TestedInv'
<1>1. TestedFiles'
    BY QuietTested, StillBounded DEF Archive, TestedInv, TestedFiles
<1>2. script'.at = 1 /\ script'.pc = "check"
    BY ArchiveMoves
<1>3. Done'
    BY <1>2 DEF Done
<1>4. Ready'
    <2> SUFFICES ASSUME 1 \in 1 .. LastStage(script'.kind), StageOf(script'.kind, 1) \in Suites PROVE FALSE
        BY <1>2 DEF Ready, Now
    <2>1. 1 > 1
        BY SuiteBuilt
    <2> QED BY <2>1
<1>5. Judging'
    BY <1>2 DEF Judging
<1> QED BY <1>1, <1>3, <1>4, <1>5 DEF TestedInv, TestedScript

\* The suites of a script are among its stages.
LEMMA SuiteStages ==
    /\ \A s \in Suites : \E i \in 1 .. LastStage("run") : StageOf("run", i) = s
    /\ \A kind : kind # "run" => \E i \in 1 .. LastStage(kind) : StageOf(kind, i) = "full-debug"
<1>1. LastStage("run") = 11 /\ StageOf("run", 9) = "full-releasesafe" /\ StageOf("run", 11) = "full-debug"
    BY DEF StageOf, LastStage, Chain
<1>2. \A kind : kind # "run" => LastStage(kind) = 4 /\ StageOf(kind, 4) = "full-debug"
    BY DEF StageOf, LastStage, Rest
<1> QED BY <1>1, <1>2, SuiteNames

LEMMA FinishTested == ASSUME TypeInv, FreeInv, TestedInv, Finish PROVE TestedInv'
<1> PICK p \in Prefixes : p = script.prefix
    BY FinishMoves DEF Chained
<1>1. UNCHANGED <<rec, identity, elf, troubles>>
    BY DEF Finish
<1>2. /\ Chained("check") /\ "check" \in Working \cup {"check"} /\ script' = Idle
      /\ script.at \notin 1 .. LastStage(script.kind)
      /\ sums' = sums \/ sums' = [sums EXCEPT ![p] = script.digests]
    BY FinishMoves
<1>3. script.at = LastStage(script.kind) + 1 /\ LastStage(script.kind) \in Nat
    BY <1>2 DEF Chained, Placed, LastStage
<1>4. Done /\ Unused /\ script.pc = "check"
    BY <1>2, AtStage DEF Chained, FreeInv, Free
<1>5. \A s \in SuitesOf(p) : /\ rec[p][Native[s]] # NoRecord
                             /\ rec[p][Native[s]].tested = script.digests[Under(s)]
    <2> SUFFICES ASSUME NEW s \in SuitesOf(p)
                 PROVE  rec[p][Native[s]] # NoRecord /\ rec[p][Native[s]].tested = script.digests[Under(s)]
        OBVIOUS
    <2>1. s \in Suites
        BY SuiteNames DEF SuitesOf
    <2>2. PICK i \in 1 .. LastStage(script.kind) : StageOf(script.kind, i) = s
        <3>1. CASE script.kind = "run"
            BY <2>1, <3>1, SuiteStages
        <3>2. CASE script.kind # "run"
            <4>1. s = "full-debug"
                BY <1>4, <3>2 DEF Unused, Claiming, SuitesOf
            <4> QED BY <3>2, <4>1, SuiteStages
        <3> QED BY <3>1, <3>2
    <2>3. i \in 1 .. script.at - 1
        BY <1>3, <2>2
    <2> QED BY <1>4, <2>1, <2>2, <2>3 DEF Done
<1>6. ASSUME NEW q \in Prefixes PROVE Inspected(q)' /\ Listed(q)'
    <2>1. Inspected(q) /\ Listed(q)
        BY DEF TestedInv, TestedFiles
    <2>2. Inspected(q)'
        BY <1>1, <2>1 DEF Inspected
    <2>3. Listed(q)'
        <3>1. sums'[q] = sums[q] \/ (q = p /\ sums'[q] = script.digests)
            BY <1>2 DEF TypeInv, FilesTyped
        <3>2. CASE sums'[q] = sums[q]
            BY <1>1, <2>1, <3>2 DEF Listed, SuitesOf
        <3>3. CASE q = p /\ sums'[q] = script.digests
            BY <1>1, <1>5, <3>3 DEF Listed, SuitesOf, Under
        <3> QED BY <3>1, <3>2, <3>3
    <2> QED BY <2>2, <2>3
<1>7. Bounded'
    BY <1>1, StillBounded DEF TestedInv, TestedFiles
<1> QED BY <1>2, <1>6, <1>7, NotAtStage DEF TestedInv, TestedFiles

LEMMA ClaimsTested ==
    ASSUME TypeInv, FreeInv, Adds, TestedInv, VerifyReused \/ Alias \/ Publish PROVE TestedInv'
<1>1. TestedScript'
    <2>1. script' = Idle \/ script'.pc \in {"archive", "verify", "alias", "publish"}
        BY VerifyMoves, AliasMoves, PublishMoves
    <2> QED BY <2>1, NotAtStage
<1>2. CASE VerifyReused
    <2>1. UNCHANGED <<rec, sums, identity, elf, troubles>>
        BY <1>2 DEF VerifyReused, files
    <2> QED BY <1>1, <2>1, QuietTested, StillBounded DEF TestedInv, TestedFiles
<1>3. CASE Alias
    <2>1. UNCHANGED <<sums, identity, elf, troubles>>
        BY <1>3 DEF Alias
    <2>2. \A q \in Prefixes, m \in DOMAIN Inspects : rec'[q][m] = rec[q][m]
        <3> PICK n \in 1 .. 8 : n = script.at
            BY <1>3, AliasMoves
        <3>1. rec' = [rec EXCEPT ![script.prefix][Reusable[n]] = rec[script.base][Reusable[n]]]
            BY <1>3, AliasMoves
        <3>2. Reusable[n] \notin DOMAIN Inspects
            BY OtherNames DEF Reusable
        <3> QED BY <3>1, <3>2, InspectNames DEF TypeInv, FilesTyped
    <2>3. \A q \in Prefixes : Inspected(q)' /\ Listed(q)'
        BY <2>1, <2>2, AddedTested DEF TestedInv
    <2> QED BY <1>1, <2>1, <2>3, StillBounded DEF TestedInv, TestedFiles
<1>4. CASE Publish
    <2> PICK p \in Prefixes : p = script.prefix
        BY <1>4, PublishMoves DEF Taking
    <2> PICK b \in Prefixes : b = script.base
        BY <1>4, PublishMoves DEF Taking
    <2>1. UNCHANGED <<rec, sums, troubles>>
        BY <1>4 DEF Publish
    <2>2. /\ \A q \in Prefixes : q # p => identity'[q] = identity[q] /\ elf'[q] = elf[q]
          /\ \A a \in Artifacts : elf'[p][a] \in {0, elf[b][a]}
        BY <1>4, PublishMoves
    <2>3. sums[p] = Nothing
        BY <1>4, PublishMoves DEF Taking, FreeInv, Free, Unused
    <2>4. \A q \in Prefixes : Inspected(q)' /\ Listed(q)'
        BY <2>1, <2>2, <2>3, AddedTested DEF TestedInv
    <2>5. Bounded'
        <3>1. Bounded /\ troubles \in Nat
            BY DEF TestedInv, TestedFiles, TypeInv, FilesTyped
        <3>2. 0 <= 1 + troubles
            BY <3>1
        <3> QED BY <2>1, <2>2, <3>1, <3>2 DEF Bounded
    <2> QED BY <1>1, <2>4, <2>5 DEF TestedInv, TestedFiles
<1> QED BY <1>2, <1>3, <1>4

LEMMA StartTested ==
    ASSUME TypeInv, FreeInv, Adds, TestedInv, NEW p \in Prefixes,
           Run(p) \/ Seal(p) \/ \E b \in Prefixes \ {p} : Resume(b, p)
    PROVE  TestedInv'
<1>1. CASE Run(p)
    <2>1. UNCHANGED <<rec, sums, elf, troubles>>
        BY <1>1 DEF Run
    <2>2. /\ script'.pc = "archive" /\ identity[p] = NoIdentity
          /\ \A q \in Prefixes : q # p => identity'[q] = identity[q]
        BY <1>1, RunMoves
    <2>3. sums[p] = Nothing
        BY <2>2 DEF FreeInv, NamedInv, Blank
    <2>4. \A q \in Prefixes : Inspected(q)' /\ Listed(q)'
        BY <2>1, <2>2, <2>3, AddedTested DEF TestedInv
    <2> QED BY <2>1, <2>2, <2>4, StillBounded, NotAtStage DEF TestedInv, TestedFiles
<1>2. CASE Seal(p)
    <2>1. script'.kind = "seal"
        BY <1>2, SealMoves
    <2>2. UNCHANGED <<rec, sums, identity, elf, troubles>>
        BY <1>2 DEF Seal, files
    <2> QED BY <2>1, <2>2, QuietTested, StillBounded, NotAtStage DEF TestedInv, TestedFiles
<1>3. CASE \E b \in Prefixes \ {p} : Resume(b, p)
    <2>1. PICK b \in Prefixes \ {p} : Resume(b, p)
        BY <1>3
    <2>2. script'.pc = "verify"
        BY <2>1, ResumeMoves
    <2>3. UNCHANGED <<rec, sums, identity, elf, troubles>>
        BY <2>1 DEF Resume, files
    <2> QED BY <2>2, <2>3, QuietTested, StillBounded, NotAtStage DEF TestedInv, TestedFiles
<1> QED BY <1>1, <1>2, <1>3

LEMMA SealingTested == ASSUME TypeInv, TestedInv, MakeHandoff \/ WriteManifest PROVE TestedInv'
<1>1. UNCHANGED <<rec, sums, identity, elf, troubles>>
    BY DEF MakeHandoff, WriteManifest, files
<1>2. script' = Idle \/ script'.kind = "seal"
    BY SealingMoves
<1> QED BY <1>1, <1>2, QuietTested, StillBounded, NotAtStage DEF TestedInv, TestedFiles

\* A changed executable has a number of its own.
LEMMA AroundTested ==
    ASSUME TypeInv, TestedInv, Edit \/ TakeBack \/ Damage \/ Crash PROVE TestedInv'
<1>1. UNCHANGED <<rec, sums, identity>> /\ (troubles' = troubles \/ troubles' = troubles + 1)
    BY DEF Edit, TakeBack, Damage, Crash, Trouble, files
<1>2. \A q \in Prefixes : Inspected(q)' /\ Listed(q)'
    BY <1>1, QuietTested DEF TestedInv
<1>3. CASE Edit \/ TakeBack
    <2>1. UNCHANGED <<script, elf>>
        BY <1>3 DEF Edit, TakeBack, files
    <2>2. TestedScript'
        BY <1>1, <2>1 DEF TestedInv, TestedScript, Done, Ready, Judging
    <2> QED BY <1>1, <1>2, <2>1, <2>2, StillBounded DEF TestedInv, TestedFiles
<1>4. CASE Crash
    <2>1. UNCHANGED elf /\ script' = Idle
        BY <1>4 DEF Crash, files
    <2> QED BY <1>1, <1>2, <2>1, StillBounded, NotAtStage DEF TestedInv, TestedFiles
<1>5. CASE Damage
    <2>1. troubles' = troubles + 1 /\ UNCHANGED script
        BY <1>5 DEF Damage, Trouble
    <2>2. elf \in [Prefixes -> [Artifacts -> Nat]] /\ troubles \in Nat /\ 2 + troubles \in Nat
        BY DEF TypeInv, FilesTyped, Digests
    <2>3. Bounded
        BY DEF TestedInv, TestedFiles
    <2>4. \A q \in Prefixes, a \in Artifacts : elf'[q][a] = elf[q][a] \/ elf'[q][a] = 2 + troubles
        <3>1. CASE UNCHANGED elf
            BY <3>1
        <3>2. CASE ~UNCHANGED elf
            <4>1. PICK p \in Prefixes, a \in Artifacts : elf' = [elf EXCEPT ![p][a] = 2 + troubles]
                BY <1>5, <3>2 DEF Damage
            <4> QED BY <2>2, <4>1, PutTyped
        <3> QED BY <3>1, <3>2
    <2>5. \A q \in Prefixes, a \in Artifacts :
             elf[q][a] \in Nat /\ elf'[q][a] \in Nat /\ elf[q][a] <= elf'[q][a] /\ elf'[q][a] <= 1 + troubles'
        <3> SUFFICES ASSUME NEW q \in Prefixes, NEW a \in Artifacts
                     PROVE  elf[q][a] \in Nat /\ elf'[q][a] \in Nat /\ elf[q][a] <= elf'[q][a]
                            /\ elf'[q][a] <= 1 + troubles'
            OBVIOUS
        <3>1. elf[q][a] \in Nat /\ elf[q][a] <= 1 + troubles
            BY <2>2, <2>3 DEF Bounded
        <3> QED BY <2>1, <2>2, <2>4, <3>1
    <2>6. TestedScript'
        <3> SUFFICES ASSUME script # Idle, script.kind # "seal", script.pc = "check" \/ script.pc \in Working
                     PROVE  Done' /\ Ready' /\ Judging'
            BY <2>1 DEF TestedScript
        <3>1. Done /\ Ready /\ Judging
            BY DEF TestedInv, TestedScript
        <3>2. script \in Running /\ Placed(script)
            BY DEF TypeInv, ScriptTyped
        <3>3. Done'
            BY <1>1, <2>1, <3>1 DEF Done
        <3>4. ASSUME Now(script) \in Suites, NEW u \in Artifacts, u = Under(Now(script))
              PROVE  /\ script.digests[u] \in Nat /\ elf[script.prefix][u] \in Nat /\ elf'[script.prefix][u] \in Nat
                     /\ elf[script.prefix][u] <= elf'[script.prefix][u]
            BY <2>5, <3>2 DEF Running, Digests
        <3>5. Ready'
            <4> SUFFICES ASSUME Now(script) \in Suites, script.at \in 1 .. LastStage(script.kind),
                                NEW u \in Artifacts, u = Under(Now(script))
                         PROVE  script.digests[u] <= elf'[script.prefix][u]
                BY <2>1, UnderNames DEF Ready
            <4>1. script.digests[u] <= elf[script.prefix][u]
                BY <3>1 DEF Ready
            <4> QED BY <3>4, <4>1
        <3>6. Judging'
            <4>1. ASSUME Now(script) \in Suites, NEW t \in Nat, t <= elf[script.prefix][Under(Now(script))]
                  PROVE  t <= elf'[script.prefix][Under(Now(script))]
                <5> PICK u \in Artifacts : u = Under(Now(script))
                    BY <4>1, UnderNames
                <5> QED BY <3>4, <4>1
            <4>2. script.pc = "after" => script.child.tested \in Nat
                BY <3>2 DEF Placed, Outcome
            <4>3. Now(script) \in Suites /\ rec[script.prefix][Native[Now(script)]] # NoRecord
                    => rec[script.prefix][Native[Now(script)]].tested \in Nat
                <5> SUFFICES ASSUME Now(script) \in Suites, NEW l \in Captures, l = Native[Now(script)],
                                    rec[script.prefix][l] # NoRecord
                             PROVE  rec[script.prefix][l].tested \in Nat
                    BY UnderNames
                <5>1. script.prefix \in Prefixes /\ rec \in [Prefixes -> [Captures -> Result \cup {NoRecord}]]
                    BY <3>2 DEF Running, TypeInv, FilesTyped
                <5> QED BY <5>1 DEF Result
            <4> QED BY <1>1, <2>1, <3>1, <4>1, <4>2, <4>3 DEF Judging
        <3> QED BY <3>3, <3>5, <3>6
    <2> QED BY <1>2, <2>5, <2>6 DEF TestedInv, TestedFiles, Bounded
<1> QED BY <1>3, <1>4, <1>5

LEMMA FirstTested == ASSUME Init PROVE TestedInv
<1>1. Bounded
    BY DEF Init, Bounded, Nothing
<1>2. ASSUME NEW p \in Prefixes PROVE Inspected(p) /\ Listed(p)
    <2>1. sums[p] = Nothing /\ \A l \in Captures : rec[p][l] = NoRecord
        BY DEF Init
    <2> QED BY <2>1, InspectNames DEF Inspected, Listed
<1>3. TestedScript
    BY DEF Init, TestedScript
<1> QED BY <1>1, <1>2, <1>3 DEF TestedInv, TestedFiles

LEMMA StaysTested == ASSUME TypeInv, FreeInv, TrueInv, TestedInv, [Next]_vars PROVE TestedInv'
<1>0. Adds
    BY StaysFree
<1>1. CASE Begin \/ BeginNested \/ Check
    BY <1>0, <1>1, BeginsTested
<1>2. CASE Child
    BY <1>0, <1>2, ChildTested
<1>3. CASE After
    BY <1>0, <1>3, AfterTested
<1>4. CASE AfterNested
    BY <1>0, <1>4, AfterNestedTested
<1>5. CASE GoOn
    BY <1>0, <1>5, GoOnTested
<1>6. CASE \E p \in Prefixes : Run(p) \/ Seal(p) \/ \E b \in Prefixes \ {p} : Resume(b, p)
    BY <1>0, <1>6, StartTested
<1>7. CASE Archive
    BY <1>7, ArchiveTested
<1>8. CASE Finish
    BY <1>8, FinishTested
<1>9. CASE VerifyReused \/ Alias \/ Publish
    BY <1>0, <1>9, ClaimsTested
<1>10. CASE MakeHandoff \/ WriteManifest
    BY <1>10, SealingTested
<1>11. CASE Edit \/ TakeBack \/ Damage \/ Crash
    BY <1>11, AroundTested
<1>12. CASE UNCHANGED vars
    <2>1. TestedFiles'
        BY <1>12, QuietTested, StillBounded DEF vars, files, TestedInv, TestedFiles
    <2>2. TestedScript'
        BY <1>12 DEF vars, files, TestedInv, TestedScript, Done, Ready, Judging
    <2> QED BY <2>1, <2>2 DEF TestedInv
<1> QED BY <1>1, <1>2, <1>3, <1>4, <1>5, <1>6, <1>7, <1>8, <1>9, <1>10, <1>11, <1>12 DEF Next

-----------------------------------------------------------------------------
(* What an audit has approved.                                             *)

Approved(p) ==
    /\ \A l \in Captures : rec[p][l] # NoRecord /\ rec[p][l].ran = identity[p].source
    /\ sums[p] # Nothing /\ TestedHolds(p)
AuditInv ==
    /\ \A p \in Prefixes : handoff[p] # "none" => Approved(p)
    /\ \A p \in Prefixes : handoff[p] = "sealed" => ArchiveHolds(p)
    /\ script # Idle /\ script.pc = "manifest" => ArchiveHolds(script.prefix)

\* No script touches the identity, the list or the archive of a prefix that
\* has been audited.
LEMMA Settled ==
    ASSUME TypeInv, FreeInv, [Next]_vars, NEW p \in Prefixes, handoff[p] # "none"
    PROVE  identity'[p] = identity[p] /\ sums'[p] = sums[p] /\ archive'[p] = archive[p]
<1>1. CASE \/ Begin \/ BeginNested \/ Child \/ After \/ AfterNested \/ GoOn \/ Check
           \/ VerifyReused \/ Alias \/ MakeHandoff \/ WriteManifest
           \/ Edit \/ TakeBack \/ Damage \/ Crash \/ UNCHANGED vars
    <2>1. UNCHANGED <<identity, sums, archive>>
        BY <1>1 DEF Begin, BeginNested, Child, After, AfterNested, GoOn, Check, VerifyReused, Alias,
                    MakeHandoff, WriteManifest, Edit, TakeBack, Damage, Crash, vars, files
    <2> QED BY <2>1
<1>2. CASE Archive
    <2>1. Chained("archive") /\ archive' = [archive EXCEPT ![script.prefix] = tree]
        BY <1>2, ArchiveMoves
    <2>2. script.prefix # p
        BY <2>1, WorkerNamed DEF Chained, Claiming
    <2> QED BY <1>2, <2>1, <2>2 DEF Archive, Chained, TypeInv, FilesTyped
<1>3. CASE Finish
    <2>1. Chained("check") /\ (sums' = sums \/ sums' = [sums EXCEPT ![script.prefix] = script.digests])
        BY <1>3, FinishMoves
    <2>2. script.prefix # p
        BY <2>1, WorkerNamed DEF Chained, Claiming
    <2> QED BY <1>3, <2>1, <2>2 DEF Finish, Chained, TypeInv, FilesTyped
<1>4. CASE Publish
    <2>1. script # Idle /\ script.kind = "resume"
        BY <1>4, PublishMoves DEF Taking
    <2>2. script.prefix # p
        BY <2>1 DEF FreeInv, Free, Unused
    <2>3. UNCHANGED <<sums, archive>>
        BY <1>4 DEF Publish
    <2> QED BY <1>4, <2>2, <2>3, PublishMoves
<1>5. CASE \E q \in Prefixes : Run(q) \/ Seal(q) \/ \E b \in Prefixes \ {q} : Resume(b, q)
    <2>1. PICK q \in Prefixes : Run(q) \/ Seal(q) \/ \E b \in Prefixes \ {q} : Resume(b, q)
        BY <1>5
    <2>2. CASE Run(q)
        <3>1. p # q
            BY <2>2, RunMoves DEF FreeInv, NamedInv, Blank
        <3>2. UNCHANGED <<sums, archive>>
            BY <2>2 DEF Run
        <3> QED BY <2>2, <3>1, <3>2, RunMoves
    <2>3. CASE Seal(q) \/ \E b \in Prefixes \ {q} : Resume(b, q)
        BY <2>3 DEF Seal, Resume, files
    <2> QED BY <2>1, <2>2, <2>3
<1> QED BY <1>1, <1>2, <1>3, <1>4, <1>5 DEF Next

\* How far a prefix is only changes by the script that seals it.
LEMMA Promoted ==
    ASSUME TypeInv, FreeInv, [Next]_vars, NEW p \in Prefixes
    PROVE  \/ handoff'[p] = handoff[p]
           \/ AuditHolds(p) /\ handoff'[p] = "audited" /\ UNCHANGED <<identity, rec, sums>>
           \/ /\ handoff[p] # "none" /\ handoff'[p] \in {"partial", "sealed"}
              /\ handoff'[p] = "sealed" =>
                    handoff[p] = "sealed" \/ (script # Idle /\ script.pc = "manifest" /\ script.prefix = p)
<1>1. CASE ~(MakeHandoff \/ WriteManifest \/ \E q \in Prefixes : Seal(q))
    BY <1>1 DEF Next, vars, Begin, BeginNested, Child, After, AfterNested, GoOn, Run, Resume, Archive, Check, Finish,
                VerifyReused, Alias, Publish, Edit, TakeBack, Damage, Crash
<1>2. CASE \E q \in Prefixes : Seal(q)
    <2>1. PICK q \in Prefixes : Seal(q)
        BY <1>2
    <2>2. AuditHolds(q) /\ handoff' = [handoff EXCEPT ![q] = "audited"]
        BY <2>1, SealMoves
    <2>3. UNCHANGED <<identity, rec, sums>>
        BY <2>1 DEF Seal, files
    <2> QED BY <2>2, <2>3 DEF TypeInv, FilesTyped
<1>3. CASE MakeHandoff \/ WriteManifest
    <2>1. /\ script # Idle /\ script.kind = "seal" /\ script.prefix \in Prefixes
          /\ \A q \in Prefixes : q # script.prefix => handoff'[q] = handoff[q]
          /\ handoff'[script.prefix] \in {"partial", "sealed", handoff[script.prefix]}
          /\ handoff'[script.prefix] = "sealed" => handoff[script.prefix] = "sealed" \/ script.pc = "manifest"
        BY <1>3, SealingMoves
    <2>2. handoff[script.prefix] # "none"
        BY <2>1 DEF FreeInv, Free
    <2> QED BY <2>1, <2>2
<1> QED BY <1>1, <1>2, <1>3

\* The manifest is only written by a script that has compared the archive.
LEMMA Compared ==
    ASSUME TypeInv, FreeInv, [Next]_vars, script' # Idle, script'.pc = "manifest"
    PROVE  /\ script'.prefix \in Prefixes /\ handoff[script'.prefix] # "none" /\ script # Idle
           /\ script'.prefix = script.prefix
           /\ ArchiveHolds(script'.prefix) \/ script.pc = "manifest"
<1>1. ScriptTyped(script')
    BY StaysFree DEF TypeInv
<1>2. script'.kind = "seal" /\ script'.prefix \in Prefixes
    BY <1>1 DEF ScriptTyped, Placed, Running
<1>3. ASSUME MakeHandoff \/ WriteManifest
      PROVE  script'.prefix = script.prefix /\ script # Idle /\ script.kind = "seal" /\ ArchiveHolds(script'.prefix)
    BY <1>3, SealingMoves
<1>4. ASSUME ~(MakeHandoff \/ WriteManifest) PROVE UNCHANGED script
    <2>1. ~(Begin \/ BeginNested \/ Child \/ After \/ AfterNested \/ GoOn \/ Archive \/ Check \/ Finish)
        BY <1>2, BeginMoves, BeginNestedMoves, ChildMoves, AfterMoves, AfterNestedMoves, GoOnMoves, ArchiveMoves,
           CheckMoves, FinishMoves DEF Same, Chained
    <2>2. ~(VerifyReused \/ Alias \/ Publish)
        BY VerifyMoves, AliasMoves, PublishMoves
    <2>3. ASSUME NEW q \in Prefixes PROVE ~(Run(q) \/ Seal(q) \/ \E b \in Prefixes \ {q} : Resume(b, q))
        BY RunMoves, SealMoves, ResumeMoves
    <2> QED BY <1>4, <2>1, <2>2, <2>3 DEF Next, vars, Edit, TakeBack, Damage, Crash
<1>5. handoff[script'.prefix] # "none"
    BY <1>2, <1>3, <1>4 DEF FreeInv, Free
<1> QED BY <1>2, <1>3, <1>4, <1>5

LEMMA AuditApproves ==
    ASSUME TrueInv, NEW p \in Prefixes, AuditHolds(p)
    PROVE  Approved(p)
<1>1. /\ \A l \in Captures : Succeeded(rec[p][l], identity[p].source)
      /\ sums[p] # Nothing /\ TestedHolds(p)
    BY DEF AuditHolds, FinalHolds, CaptureHolds
<1>2. \A l \in Captures : Watched(rec[p][l])
    BY DEF TrueInv, TrueFiles, Honest
<1> QED BY <1>1, <1>2 DEF Approved, Succeeded, Watched

LEMMA StaysAudited == ASSUME TypeInv, FreeInv, TrueInv, AuditInv, [Next]_vars PROVE AuditInv'
<1>0. Adds
    BY StaysFree
<1>1. ASSUME NEW p \in Prefixes, Approved(p), identity'[p] = identity[p], sums'[p] = sums[p] PROVE Approved(p)'
    <2>1. \A l \in Captures : rec'[p][l] = rec[p][l] /\ rec[p][l] # NoRecord
        BY <1>0, <1>1 DEF Approved, Adds
    <2>2. {"adapter-syscalls", "app-audit", "cli-audit"} \subseteq Captures
        BY CaptureNames
    <2> QED BY <1>1, <2>1, <2>2 DEF Approved, TestedHolds
<1>2. ASSUME NEW p \in Prefixes, handoff'[p] # "none" PROVE Approved(p)'
    <2>1. CASE handoff[p] # "none"
        BY <1>1, <2>1, Settled DEF AuditInv
    <2>2. CASE handoff[p] = "none"
        <3>1. AuditHolds(p) /\ UNCHANGED <<identity, rec, sums>>
            BY <1>2, <2>2, Promoted
        <3>2. Approved(p)
            BY <3>1, AuditApproves
        <3> QED BY <1>1, <3>1, <3>2
    <2> QED BY <2>1, <2>2
<1>3. ASSUME NEW p \in Prefixes, ArchiveHolds(p), handoff[p] # "none" PROVE ArchiveHolds(p)'
    BY <1>3, Settled DEF ArchiveHolds
<1>4. ASSUME NEW p \in Prefixes, handoff'[p] = "sealed" PROVE ArchiveHolds(p)'
    <2>1. handoff[p] # "none"
          /\ (handoff[p] = "sealed" \/ (script # Idle /\ script.pc = "manifest" /\ script.prefix = p))
        BY <1>4, Promoted
    <2>2. ArchiveHolds(p)
        BY <2>1 DEF AuditInv
    <2> QED BY <1>3, <2>1, <2>2
<1>5. ASSUME script' # Idle, script'.pc = "manifest" PROVE ArchiveHolds(script.prefix)'
    <2> PICK p \in Prefixes : p = script'.prefix
        BY <1>5, Compared
    <2>1. handoff[p] # "none" /\ p = script.prefix /\ script # Idle
          /\ (ArchiveHolds(p) \/ script.pc = "manifest")
        BY <1>5, Compared
    <2>a. ArchiveHolds(p)
        BY <2>1 DEF AuditInv
    <2>2. ArchiveHolds(p)'
        BY <1>3, <2>1, <2>a
    <2> QED BY <2>2 DEF ArchiveHolds
<1> QED BY <1>2, <1>4, <1>5 DEF AuditInv, ArchiveHolds

LEMMA AlwaysAudited == Spec => [](TypeInv /\ FreeInv /\ TrueInv /\ TestedInv /\ AuditInv)
<1>1. Init => TypeInv /\ FreeInv /\ TrueInv /\ TestedInv /\ AuditInv
    <2>1. Init => AuditInv
        BY DEF Init, AuditInv
    <2> QED BY <2>1, FirstFree, FirstTrue, FirstTested
<1>2. TypeInv /\ FreeInv /\ TrueInv /\ TestedInv /\ AuditInv /\ [Next]_vars
        => (TypeInv /\ FreeInv /\ TrueInv /\ TestedInv /\ AuditInv)'
    BY StaysFree, StaysTrue, StaysTested, StaysAudited
<1> QED BY <1>1, <1>2, PTL DEF Spec

\* Every capture of an audited prefix ran on the frozen source, also when an
\* edit was made under it and taken back: run-10-command.py compares before and
\* after each capture, and no result is replaced after the audit has read it.
THEOREM AuditedRunsAreFrozen == Spec => []AuditedRanFrozen
<1>1. AuditInv => AuditedRanFrozen
    BY DEF AuditInv, AuditedRanFrozen, Audited, Approved
<1> QED BY <1>1, AlwaysAudited, PTL

\* The artifact list of an audited prefix names the executables its processes
\* and its suites ran: what each stage tested is tied to the list either by the
\* audit itself or by the digests `main' compares around a suite.  The property
\* leaves out the ReleaseSafe suite a continuation took over, whose digest the
\* failed chain never wrote.
THEOREM AuditedListsAreTested == Spec => []AuditedTestedArtifacts
<1>1. TypeInv /\ FreeInv /\ TestedInv /\ AuditInv => AuditedTestedArtifacts
    <2> SUFFICES ASSUME TestedInv, AuditInv, NEW p \in Prefixes, handoff[p] # "none", NEW l \in DOMAIN Executes,
                        identity[p].base # "none" => l # "native-full-releasesafe"
                 PROVE  rec[p][l].tested = sums[p][Executes[l]]
        BY DEF AuditedTestedArtifacts, Audited
    <2>1. Approved(p) /\ Inspected(p) /\ Listed(p)
        BY DEF AuditInv, TestedInv, TestedFiles
    <2>2. CASE l = "adapter-syscalls"
        BY <2>1, <2>2, ExecutesNames DEF Approved, TestedHolds
    <2>3. CASE l \in {"app-processes", "cli-processes"}
        <3>1. rec[p]["app-audit"] # NoRecord /\ rec[p]["cli-audit"] # NoRecord
            BY <2>1, CaptureNames DEF Approved
        <3>2. /\ rec[p]["app-processes"].tested = rec[p]["app-audit"].tested
              /\ rec[p]["cli-processes"].tested = rec[p]["cli-audit"].tested
            BY <2>1, <3>1, OtherNames DEF Inspected
        <3> QED BY <2>1, <2>3, <3>2, ExecutesNames DEF Approved, TestedHolds
    <2>4. CASE \E s \in SuitesOf(p) : l = Native[s]
        BY <2>1, <2>4 DEF Approved, Listed
    <2>5. \/ l \in {"adapter-syscalls", "app-processes", "cli-processes"}
          \/ \E s \in SuitesOf(p) : l = Native[s]
        BY ExecutesNames, SuiteNames DEF SuitesOf
    <2> QED BY <2>2, <2>3, <2>4, <2>5
<1> QED BY <1>1, AlwaysAudited, PTL

\* The archive of a sealed handoff holds the frozen files, although both scripts
\* make it from the files as they are after the freeze: seal-11-evidence.py
\* compares it before it makes the directory, and nothing writes it again.
THEOREM SealedArchivesAreFrozen == Spec => []SealedArchiveIsFrozen
<1>1. AuditInv => SealedArchiveIsFrozen
    <2> SUFFICES ASSUME AuditInv, NEW p \in Prefixes, handoff[p] = "sealed"
                 PROVE  archive[p].source = identity[p].source /\ archive[p].producers = identity[p].producers
        BY DEF SealedArchiveIsFrozen
    <2>1. archive[p] = [source |-> identity[p].source, producers |-> identity[p].producers]
        BY DEF AuditInv, ArchiveHolds
    <2> QED BY <2>1
<1> QED BY <1>1, AlwaysAudited, PTL
=============================================================================

--------------------------- MODULE EvidenceChain ---------------------------
(* The chain of scripts that turns runs of the application into a sealed
   handoff (src/.scratch/core-continuous-capacity): run-11-final.py captures the
   stages one after another with run-10-command.py, resume-11-debug.py continues
   a chain whose Debug suite crashed under a new prefix, audit-11-final.py and
   audit-11-continuation.py re-read everything, seal-11-evidence.py seals.

   One operator starts one script at a time.  Meanwhile somebody may edit the
   tree and take the edit back, a stored file may change, a child may fail in
   every way a capture distinguishes, and a script may be killed.

   A digest is the content it was computed from: 0 for no file, 1 for what the
   chain wrote, and one more for every later change.  Result files are not
   among the files that change: nothing in the chain holds a digest of them
   before it is sealed. *)
EXTENDS Integers, Sequences, FiniteSets, TLC

CONSTANTS Prefixes,    \* the prefixes the operator may use
          Fragile,     \* the captures whose output files may change
          MaxTroubles  \* edits, changed files, failing children and killed scripts in one behaviour

ASSUME PrefixesAssumption == "none" \notin Prefixes /\ "no identity" \notin Prefixes

VARIABLES tree,      \* the source files and the producer scripts as they are now
          script,    \* the script that runs, if one does
          identity,  \* prefix-identity.json
          archive,   \* what prefix-source.zip was made of
          rec,       \* the .result.json of every capture
          log,       \* its output files
          elf,       \* the executables
          reused,    \* the digests of the aliases a continuation made
          sums,      \* prefix-artifacts.json
          handoff,   \* how far the prefix is: audited, its directory made, its manifest written
          troubles   \* how much has gone wrong so far

files == <<identity, archive, rec, log, elf, reused, sums>>
vars == <<tree, script, files, handoff, troubles>>

-----------------------------------------------------------------------------
\* The stages, in the order of `main', and what they emit, run and inspect.

Chain == <<"app-build", "adapter-syscalls", "cli-build", "app-processes", "app-audit", "cli-processes",
           "cli-audit", "full-releasesafe-build", "full-releasesafe", "full-debug-build", "full-debug">>
Rest == <<"app-audit", "cli-audit", "full-debug-build", "full-debug">>
Native == [l \in {"full-releasesafe", "full-debug"} |->
             IF l = "full-debug" THEN "native-full-debug" ELSE "native-full-releasesafe"]
Captures == {Chain[i] : i \in DOMAIN Chain} \cup {Native[l] : l \in DOMAIN Native}

Emits == [l \in {"app-build", "cli-build", "full-releasesafe-build", "full-debug-build"} |->
            CASE l = "app-build" -> "app" [] l = "cli-build" -> "cli"
              [] l = "full-releasesafe-build" -> "full-releasesafe" [] OTHER -> "full-debug"]
Executes == [l \in {"adapter-syscalls", "app-processes", "cli-processes"} \cup {Native[s] : s \in DOMAIN Native} |->
               CASE l = "cli-processes" -> "cli" [] l = "native-full-releasesafe" -> "full-releasesafe"
                 [] l = "native-full-debug" -> "full-debug" [] OTHER -> "app"]
Inspects == [l \in {"app-audit", "cli-audit"} |-> IF l = "app-audit" THEN "app-processes" ELSE "cli-processes"]
Artifacts == {Emits[l] : l \in DOMAIN Emits}

\* What a continuation takes over, in the order of its loop.
Reusable == <<"app-build", "adapter-syscalls", "cli-build", "app-processes", "cli-processes",
              "full-releasesafe-build", "full-releasesafe", "native-full-releasesafe">>
ReusedArtifacts == {"app", "cli", "full-releasesafe"}

-----------------------------------------------------------------------------
\* State.

NoRecord == [code |-> -1]
NoIdentity == [base |-> "no identity"]
NoTree == [source |-> -1, producers |-> -1]
Nothing == [a \in Artifacts |-> 0]

ASSUME FragileAssumption == Fragile \subseteq Captures

Idle == [kind |-> "none"]
Script(kind, p, pc) == [kind |-> kind, prefix |-> p, base |-> "none", at |-> 1, pc |-> pc, capture |-> "none",
                        before |-> NoTree, outer |-> NoTree, child |-> NoRecord, digests |-> Nothing]

Init ==
    /\ tree = [source |-> 0, producers |-> 0]
    /\ script = Idle
    /\ identity = [p \in Prefixes |-> NoIdentity]
    /\ archive = [p \in Prefixes |-> NoTree]
    /\ rec = [p \in Prefixes |-> [l \in Captures |-> NoRecord]]
    /\ log = [p \in Prefixes |-> [l \in Captures |-> 0]]
    /\ elf = [p \in Prefixes |-> Nothing]
    /\ reused = [p \in Prefixes |-> [log |-> <<>>, elf |-> <<>>]]
    /\ sums = [p \in Prefixes |-> Nothing]
    /\ handoff = [p \in Prefixes |-> "none"]
    /\ troubles = 0

P == script.prefix
At(kinds, pc) == script.kind \in kinds /\ script.pc = pc
Stages == IF script.kind = "run" THEN Chain ELSE Rest
Stage == Stages[script.at]
Trouble == troubles < MaxTroubles /\ troubles' = troubles + 1

-----------------------------------------------------------------------------
\* The bytes a continuation took over are still those of the original.
ReuseIntact(p) ==
    LET b == identity[p].base
    IN  b # "none" =>
            /\ \A l \in DOMAIN reused[p].log : reused[p].log[l] = log[p][l] /\ reused[p].log[l] = log[b][l]
            /\ \A a \in DOMAIN reused[p].elf : reused[p].elf[a] = elf[p][a] /\ reused[p].elf[a] = elf[b][a]

\* `check' of run-11-final.py and of resume-11-debug.py.
Unchanged ==
    /\ tree.source = identity[P].source
    /\ tree.producers = identity[P].producers
    /\ ReuseIntact(P)

-----------------------------------------------------------------------------
\* capture of run-10-command.py.

\* How a child may end: the exit code, and what the capture noticed.  Only
\* run-11-final.py has the capture of a native suite watch for a fatal marker,
\* and a child may still end by itself with 0 when it is told to terminate.
Passed == [code |-> 0, timed |-> FALSE, fatal |-> FALSE, error |-> FALSE, segfault |-> FALSE,
           ran |-> 0, tested |-> 0]
Failures(kind, l) ==
    LET suite == \E s \in DOMAIN Native : Native[s] = l
    IN  {[Passed EXCEPT !.code = 1], [Passed EXCEPT !.code = 1, !.error = TRUE],
         [Passed EXCEPT !.timed = TRUE], [Passed EXCEPT !.code = 1, !.timed = TRUE]}
        \cup (IF suite THEN {[Passed EXCEPT !.code = 1, !.segfault = TRUE]} ELSE {})
        \cup (IF suite /\ kind = "run"
              THEN {[Passed EXCEPT !.code = c, !.fatal = TRUE, !.segfault = TRUE] : c \in {0, 1}}
              ELSE {})

\* Mutant of ReturnCode: a diagnosed crash is only recorded.
ReturnCodeOfChild(r) == IF r.code # 0 THEN r.code ELSE IF r.timed \/ ~r.producersKept THEN 124 ELSE 0

\* A source that changed under the child is recorded and does not count here.
ReturnCode(r) ==
    IF r.code # 0 THEN r.code ELSE IF r.fatal THEN 125 ELSE IF r.timed \/ ~r.producersKept THEN 124 ELSE 0

Record(child, before, l) ==
    [code |-> child.code, timed |-> child.timed, fatal |-> child.fatal, error |-> child.error,
     segfault |-> child.segfault, ran |-> child.ran, tested |-> child.tested,
     source |-> before.source, sourceKept |-> tree.source = before.source,
     producersKept |-> tree.producers = before.producers, log |-> log[P][l]]

\* Mutant of New: evidence of the same name is overwritten.
OverExisting(l) == TRUE

New(l) == rec[P][l] = NoRecord /\ log[P][l] = 0

Abort == script' = Idle

\* The manifest is taken and the output files are opened; a suite starts a
\* capture of its own inside.
Begin ==
    /\ At({"run", "resume"}, "begin")
    /\ IF ~New(Stage) THEN Abort /\ UNCHANGED log
       ELSE /\ log' = [log EXCEPT ![P][Stage] = 1]
            /\ script' = [script EXCEPT !.before = tree, !.capture = Stage,
                                        !.pc = IF Stage \in DOMAIN Native THEN "nested" ELSE "child"]
    /\ UNCHANGED <<tree, identity, archive, rec, elf, reused, sums, handoff, troubles>>

\* The names of the inner capture are free when those of the outer one are.
BeginNested ==
    /\ At({"run", "resume"}, "nested")
    /\ log' = [log EXCEPT ![P][Native[Stage]] = 1]
    /\ script' = [script EXCEPT !.pc = "child", !.outer = script.before, !.before = tree, !.capture = Native[Stage]]
    /\ UNCHANGED <<tree, identity, archive, rec, elf, reused, sums, handoff, troubles>>

\* What a stage needs of the files it reads before it can pass: the processes
\* verify the digest they were given, the physical audit reads the results of
\* the processes where they ran and the tree they ran on.
CanPass(l) ==
    /\ l \in {"app-processes", "cli-processes"} => elf[P][Executes[l]] = script.digests[Executes[l]]
    /\ l \in DOMAIN Inspects =>
        LET o == IF identity[P].base = "none" THEN P ELSE identity[P].base
            r == rec[o][Inspects[l]]
        IN  /\ elf[o][Executes[Inspects[l]]] = r.tested
            /\ tree = [source |-> r.source, producers |-> identity[o].producers]

\* The artifact whose digest the stage's own evidence names.
Tested(l) ==
    IF l \in DOMAIN Inspects
    THEN rec[IF identity[P].base = "none" THEN P ELSE identity[P].base][Inspects[l]].tested
    ELSE IF l \in DOMAIN Executes THEN elf[P][Executes[l]] ELSE 0

Child ==
    /\ At({"run", "resume"}, "child")
    /\ LET l == script.capture
       IN  \E o \in {Passed} \cup Failures(script.kind, l) :
            /\ IF o = Passed
               THEN CanPass(l) /\ UNCHANGED troubles
               ELSE IF CanPass(l) THEN Trouble ELSE o = [Passed EXCEPT !.code = 1] /\ UNCHANGED troubles
            /\ script' = [script EXCEPT !.pc = "after", !.child = [o EXCEPT !.ran = tree.source, !.tested = Tested(l)]]
            /\ elf' = IF l \in DOMAIN Emits THEN [elf EXCEPT ![P][Emits[l]] = 1] ELSE elf
    /\ UNCHANGED <<tree, identity, archive, rec, log, reused, sums, handoff>>

After ==
    /\ At({"run", "resume"}, "after")
    /\ LET l == script.capture
           r == Record(script.child, script.before, l)
       IN  /\ rec' = [rec EXCEPT ![P][l] = r]
           /\ script' = IF l = Stage THEN [script EXCEPT !.pc = "returned"]
                        ELSE [script EXCEPT !.pc = "outer", !.capture = Stage, !.before = script.outer,
                                            !.child = [Passed EXCEPT !.code = ReturnCode(r),
                                                                     !.ran = r.ran, !.tested = r.tested]]
    /\ UNCHANGED <<tree, identity, archive, log, elf, reused, sums, handoff, troubles>>

\* The capture around a nested one: its child is the inner capture, which it
\* may have given up on, or failed to watch, while the inner one was finishing.
AfterNested ==
    /\ At({"run", "resume"}, "outer")
    /\ \E o \in {script.child, [script.child EXCEPT !.timed = TRUE], [script.child EXCEPT !.code = 1, !.error = TRUE]} :
        LET r == Record(o, script.before, Stage)
        IN  /\ IF o = script.child THEN UNCHANGED troubles ELSE Trouble
            /\ rec' = [rec EXCEPT ![P][Stage] = r]
    /\ script' = [script EXCEPT !.pc = "returned"]
    /\ UNCHANGED <<tree, identity, archive, log, elf, reused, sums, handoff>>

\* `run' goes on when the capture returned 0 and nothing drifted; the callers
\* of `run' then take or compare the digest of the executable of the stage.
GoOn ==
    /\ At({"run", "resume"}, "returned")
    /\ LET built == Stage \in DOMAIN Emits
           again == IF Stage \in DOMAIN Inspects /\ script.kind = "run" THEN {Executes[Inspects[Stage]]}
                    ELSE IF Stage \in DOMAIN Native THEN {Executes[Native[Stage]]} ELSE {}
       IN  IF ReturnCode(rec[P][Stage]) = 0 /\ Unchanged /\ \A a \in again : elf[P][a] = script.digests[a]
           THEN script' = [Script(script.kind, P, "check") EXCEPT
                               !.at = script.at + 1,
                               !.digests = IF built THEN [script.digests EXCEPT ![Emits[Stage]] = elf[P][Emits[Stage]]]
                                           ELSE script.digests]
           ELSE Abort
    /\ UNCHANGED <<tree, files, handoff, troubles>>

-----------------------------------------------------------------------------
\* `main' of run-11-final.py, up to and after its stages.

NoFiles(p) ==
    /\ identity[p] = NoIdentity /\ archive[p] = NoTree /\ elf[p] = Nothing
    /\ \A l \in Captures : rec[p][l] = NoRecord /\ log[p][l] = 0

\* Bound: chains that start from nothing share nothing but the tree, so one is
\* enough; a second run may start over what a killed continuation left.
OneChain(p) == NoFiles(p) => \A q \in Prefixes : NoFiles(q)

Run(p) ==
    /\ script = Idle /\ identity[p] = NoIdentity /\ OneChain(p)
    /\ identity' = [identity EXCEPT ![p] = [base |-> "none", source |-> tree.source, producers |-> tree.producers]]
    /\ script' = Script("run", p, "archive")
    /\ UNCHANGED <<tree, archive, rec, log, elf, reused, sums, handoff, troubles>>

\* Both scripts make a new archive from the files as they are by now.
Archive ==
    /\ At({"run", "resume"}, "archive")
    /\ archive' = [archive EXCEPT ![P] = tree]
    /\ script' = [script EXCEPT !.pc = "check", !.at = 1]
    /\ UNCHANGED <<tree, identity, rec, log, elf, reused, sums, handoff, troubles>>

\* `run' checks before it captures; a native suite also compares its executable.
Check ==
    /\ At({"run", "resume"}, "check") /\ script.at \in DOMAIN Stages
    /\ IF /\ Unchanged
          /\ script.kind = "run" /\ Stage \in DOMAIN Native =>
                LET a == Executes[Native[Stage]] IN elf[P][a] = script.digests[a]
       THEN script' = [script EXCEPT !.pc = "begin"]
       ELSE Abort
    /\ UNCHANGED <<tree, files, handoff, troubles>>

\* Mutant of Finish: the digests are computed when the list is written.
FinishAfresh ==
    /\ At({"run", "resume"}, "check") /\ script.at \notin DOMAIN Stages
    /\ sums' = IF Unchanged THEN [sums EXCEPT ![P] = elf[P]] ELSE sums
    /\ script' = Idle
    /\ UNCHANGED <<tree, identity, archive, rec, log, elf, reused, handoff, troubles>>

Finish ==
    /\ At({"run", "resume"}, "check") /\ script.at \notin DOMAIN Stages
    /\ sums' = IF Unchanged THEN [sums EXCEPT ![P] = script.digests] ELSE sums
    /\ script' = Idle
    /\ UNCHANGED <<tree, identity, archive, rec, log, elf, reused, handoff, troubles>>

-----------------------------------------------------------------------------
\* `main' of resume-11-debug.py.

\* What resume-11-debug.py and audit-11-continuation.py ask of a result file.
Succeeded(r, source) ==
    /\ r # NoRecord
    /\ r.code = 0 /\ ~r.timed /\ ~r.error
    /\ r.source = source /\ r.sourceKept /\ r.producersKept

Resume(b, p) ==
    /\ script = Idle /\ identity[b] # NoIdentity /\ NoFiles(p)
    /\ tree = [source |-> identity[b].source, producers |-> identity[b].producers]
    /\ script' = [Script("resume", p, "verify") EXCEPT !.base = b, !.before = tree]
    /\ UNCHANGED <<tree, files, handoff, troubles>>

VerifyReused ==
    /\ At({"resume"}, "verify")
    /\ LET l == Reusable[script.at]
           r == rec[script.base][l]
       IN  script' = IF Succeeded(r, script.before.source) /\ r.log = log[script.base][l]
                     THEN [script EXCEPT !.pc = "alias"] ELSE Idle
    /\ UNCHANGED <<tree, files, handoff, troubles>>

Alias ==
    /\ At({"resume"}, "alias")
    /\ LET l == Reusable[script.at]
           b == script.base
       IN  /\ rec' = [rec EXCEPT ![P][l] = rec[b][l]]
           /\ log' = [log EXCEPT ![P][l] = log[b][l]]
           /\ reused' = [reused EXCEPT ![P].log = (l :> log[b][l]) @@ reused[P].log]
    /\ script' = IF script.at < Len(Reusable) THEN [script EXCEPT !.pc = "verify", !.at = script.at + 1]
                 ELSE [script EXCEPT !.pc = "publish"]
    /\ UNCHANGED <<tree, identity, archive, elf, sums, handoff, troubles>>

\* The executables are aliased by their present bytes: the digests they were
\* tested with were never written by a chain that failed.
Publish ==
    /\ At({"resume"}, "publish")
    /\ LET kept == [a \in Artifacts |-> IF a \in ReusedArtifacts THEN elf[script.base][a] ELSE 0]
       IN  /\ elf' = [elf EXCEPT ![P] = kept]
           /\ reused' = [reused EXCEPT ![P].elf = [a \in ReusedArtifacts |-> kept[a]]]
           /\ script' = [script EXCEPT !.pc = "archive", !.digests = kept]
    /\ identity' = [identity EXCEPT ![P] = [base |-> script.base, source |-> script.before.source,
                                            producers |-> script.before.producers]]
    /\ UNCHANGED <<tree, archive, rec, log, sums, handoff, troubles>>

-----------------------------------------------------------------------------
\* The audits.

Frozen(p) == tree = [source |-> identity[p].source, producers |-> identity[p].producers]

\* Mutant of CaptureHolds: a changed source is left to the scripts that ran.
CaptureHoldsByReturnCode(p, l) ==
    LET r == rec[p][l]
    IN  /\ r # NoRecord
        /\ ReturnCode(r) = 0 /\ ~r.error
        /\ r.source = identity[p].source
        /\ r.log = log[p][l]

CaptureHolds(p, l) ==
    /\ Succeeded(rec[p][l], identity[p].source) /\ ~rec[p][l].fatal
    /\ rec[p][l].log = log[p][l]

TestedHolds(p) ==
    /\ \A l \in {"adapter-syscalls", "app-audit"} : rec[p][l].tested = sums[p]["app"]
    /\ rec[p]["cli-audit"].tested = sums[p]["cli"]

\* audit-11-final.py.
FinalHolds(p) ==
    /\ Frozen(p)
    /\ sums[p] # Nothing /\ sums[p] = elf[p]
    /\ \A l \in Captures : CaptureHolds(p, l)
    /\ TestedHolds(p)

\* The original Debug run is still there, and it crashed.
FailureRetained(b) ==
    LET r == rec[b]["native-full-debug"]
    IN  r # NoRecord /\ r.code # 0 /\ r.segfault /\ r.source = identity[b].source /\ r.log = log[b]["native-full-debug"]

\* audit-11-continuation.py, before it runs the final audit.
ContinuationHolds(p) ==
    LET b == identity[p].base
    IN  /\ identity[p].source = identity[b].source
        /\ identity[p].producers = identity[b].producers /\ identity[p].producers = tree.producers
        /\ ReuseIntact(p)
        /\ \A i \in DOMAIN Reusable : Succeeded(rec[b][Reusable[i]], identity[p].source)
        /\ FailureRetained(b)

AuditHolds(p) ==
    /\ identity[p] # NoIdentity
    /\ identity[p].base # "none" => ContinuationHolds(p)
    /\ FinalHolds(p)

-----------------------------------------------------------------------------
\* seal-11-evidence.py: it audits again, compares artifacts and archive with
\* the identity, makes the directory and writes its files, the manifest last.

Seal(p) ==
    /\ script = Idle /\ handoff[p] \in {"none", "audited"} /\ AuditHolds(p)
    /\ handoff' = [handoff EXCEPT ![p] = "audited"]
    /\ script' = Script("seal", p, "compare")
    /\ UNCHANGED <<tree, files, troubles>>

\* Mutant of ArchiveHolds: the members are listed and not hashed.
ArchiveListed(p) == archive[p] # NoTree

ArchiveHolds(p) == archive[p] = [source |-> identity[p].source, producers |-> identity[p].producers]

MakeHandoff ==
    /\ At({"seal"}, "compare")
    /\ IF sums[P] = elf[P] /\ ArchiveHolds(P)
       THEN handoff' = [handoff EXCEPT ![P] = "partial"] /\ script' = [script EXCEPT !.pc = "manifest"]
       ELSE Abort /\ UNCHANGED handoff
    /\ UNCHANGED <<tree, files, troubles>>

WriteManifest ==
    /\ At({"seal"}, "manifest")
    /\ handoff' = [handoff EXCEPT ![P] = "sealed"]
    /\ script' = Idle
    /\ UNCHANGED <<tree, files, troubles>>

-----------------------------------------------------------------------------
\* What happens around the scripts.

\* Somebody edits the source or a producer script, and may take it back.
\* Edits made while a child runs last until it has ended: no capture can see
\* one that does not.
ChildRuns == script.kind \in {"run", "resume"} /\ script.pc \in {"nested", "child", "after", "outer"}

Edit == \E thing \in DOMAIN tree :
    /\ tree[thing] = 0 /\ Trouble
    /\ tree' = [tree EXCEPT ![thing] = 1]
    /\ UNCHANGED <<script, files, handoff>>

TakeBack == \E thing \in DOMAIN tree :
    /\ tree[thing] = 1 /\ ~ChildRuns
    /\ tree' = [tree EXCEPT ![thing] = 0]
    /\ UNCHANGED <<script, files, handoff, troubles>>

\* The bytes of a stored output or executable change.
Damage == \E p \in Prefixes :
    /\ Trouble
    /\ \/ \E l \in Fragile : log[p][l] # 0 /\ log' = [log EXCEPT ![p][l] = 2 + troubles] /\ UNCHANGED elf
       \/ \E a \in Artifacts : elf[p][a] # 0 /\ elf' = [elf EXCEPT ![p][a] = 2 + troubles] /\ UNCHANGED log
    /\ UNCHANGED <<tree, script, identity, archive, rec, reused, sums, handoff>>

\* A script is killed, or raises where nothing handles it.
Crash ==
    /\ script # Idle /\ Trouble
    /\ script' = Idle
    /\ UNCHANGED <<tree, files, handoff>>

Next ==
    \/ Begin \/ BeginNested \/ Child \/ After \/ AfterNested \/ GoOn
    \/ \E p \in Prefixes : Run(p) \/ Seal(p) \/ \E b \in Prefixes \ {p} : Resume(b, p)
    \/ Archive \/ Check \/ Finish
    \/ VerifyReused \/ Alias \/ Publish
    \/ MakeHandoff \/ WriteManifest
    \/ Edit \/ TakeBack \/ Damage \/ Crash

Spec == Init /\ [][Next]_vars

-----------------------------------------------------------------------------
\* Properties.

Audited == {p \in Prefixes : handoff[p] # "none"}

\* What passed an audit really ran on the frozen source: not one child of the
\* thirteen captures, taken over or new, saw a file of another version, also
\* when an edit was made under it and taken back before anybody looked again.
AuditedRanFrozen ==
    \A p \in Audited : \A l \in Captures : rec[p][l].ran = identity[p].source

\* The artifact list of an audited prefix names what was tested: the application
\* and the tool that the processes ran, under this prefix or before, and the
\* suites this prefix ran.  The ReleaseSafe suite of a continuation is left out:
\* nothing ties its capture to the executable beside it (resume-11-debug.py:68).
AuditedTestedArtifacts ==
    \A p \in Audited : \A l \in DOMAIN Executes :
        (identity[p].base # "none" => l # "native-full-releasesafe") => rec[p][l].tested = sums[p][Executes[l]]

\* The archive of a sealed handoff holds the frozen source and producers,
\* although it is written from the files as they are after the freeze.
SealedArchiveIsFrozen ==
    \A p \in Prefixes : handoff[p] = "sealed" =>
        archive[p].source = identity[p].source /\ archive[p].producers = identity[p].producers

\* A continuation that gets as far as its identity took over nothing that
\* failed, not even a suite whose crash was diagnosed and whose exit code was 0:
\* resume-11-debug.py does not look at the diagnosis.
ReusedIsClean ==
    \A p \in Prefixes : identity[p].base \in Prefixes =>
        \A i \in DOMAIN Reusable :
            LET r == rec[p][Reusable[i]]
            IN  r.code = 0 /\ ~r.timed /\ ~r.fatal /\ ~r.error /\ r.ran = identity[p].source

\* No script ever replaces a result: not a second run under the same prefix, not
\* a run over what a killed continuation left, not a continuation.
ResultsStay ==
    [][\A p \in Prefixes : \A l \in Captures : rec[p][l] # NoRecord => rec'[p][l] = rec[p][l]]_vars

=============================================================================

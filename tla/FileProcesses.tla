--------------------------- MODULE FileProcesses ---------------------------
(* The process recovery driver of the capacity evidence
   (src/.scratch/core-continuous-capacity/run-10-file-processes.py): it starts
   the application over and over on datasets of its own, kills it at a marker,
   lets it recover, compares what each process reports, and only then writes a
   summary; and the audit of what it left behind (audit-11-processes.py).

   The process is the application's capacity mode
   (windows_capacity_acceptance.zig), which here may also do wrong: the question
   is what a summary is worth.  A dataset is what the four shards hold durably;
   `round' and `mark' stand for every barrier and digest that moves with them. *)
EXTENDS Integers, Sequences, FiniteSets, TLC

CONSTANTS Rounds,      \* archive rounds: 1 in a smoke run, 10 otherwise
          MaxEdits,    \* changes of the tree while the driver runs
          MaxDefects,  \* wrongs the processes do in one behaviour
          MaxTroubles  \* crashes, hangs and processes that outlive their kill

ASSUME RoundsAssumption == Rounds \in Nat \ {0}

VARIABLES at,       \* the step of Plan the driver is at
          phase,    \* how far it is with the step: "next", "checked", "running",
                    \* "recorded", or "stuck" with a process that outlived its kill
          outcome,  \* "open", "passed" or "failed"
          store,    \* the datasets
          before,   \* the dataset of the step, before its process
          child,    \* the process
          kept,     \* the reports that later ones are compared with
          records,  \* the steps that have a result file
          files,    \* what else is in the evidence directory
          drifted,  \* what in the tree is no longer what the driver froze
          edits,    \* how often it was changed
          unfrozen, \* <<step, thing>>: a process that ran over a drifted thing
          undone,   \* <<step, thing, at>>: and the step at which that was taken
                    \* back, before the driver looked at it in that step
          defects,  \* <<what, mode>>: what processes did wrong so far
          troubles  \* how many crashed, hung or outlived their kill

evidence == <<kept, records, files>>
tree == <<drifted, edits, unfrozen, undone>>
vars == <<at, phase, outcome, store, before, child, evidence, tree, defects, troubles>>

Thing == {"source", "producers", "artifact", "host_metadata"}
Dataset == {"store", "step-golden", "hold-before-step", "hold-after-step", "observation"}

Empty == [seeded |-> 0, round |-> 0, mark |-> 0, economic |-> 0, other |-> 0, junk |-> 0]
Authority(d) == [seeded |-> d.seeded, round |-> d.round, mark |-> d.mark, economic |-> d.economic, other |-> d.other]

-----------------------------------------------------------------------------
\* The steps of `main'.

Run(mode, dataset, like, n) == [op |-> "run", mode |-> mode, dataset |-> dataset, like |-> like, round |-> n]
Copy(to) == [op |-> "copy", dataset |-> to]
Write(file) == [op |-> "write", file |-> file]

\* Mutant of Interruption: both processes should have the authority of the seed.
InterruptionOfSeed(mode, like) ==
    <<Copy(mode), Run(mode, mode, "seeded", 0), Run("recover", mode, like, 0)>>

Interruption(mode, like) ==
    <<Copy(mode), Run(mode, mode, like, 0), Run("recover", mode, like, 0)>>

AllRounds ==
    [i \in 1 .. 2 * Rounds |->
       Run(IF i % 2 = 1 THEN "advance" ELSE "recover", "store", "previous", (i + 1) \div 2)]

Plan ==
    <<Write("identity"), Run("seed", "store", "seeded", 0), Run("recover", "store", "seeded", 0),
      Copy("step-golden"), Run("step", "step-golden", "golden", 0), Run("recover", "step-golden", "golden", 0)>>
    \o Interruption("hold-before-step", "seeded") \o Interruption("hold-after-step", "golden")
    \o <<Write("faults")>> \o AllRounds
    \o <<Write("reports"), Run("seed", "observation", "observed", 0), Run("recover", "observation", "observed", 0),
         Write("observation-reports"), Write("workload"), Write("samples"), Write("summary")>>

Step == Plan[at]
Runs == {i \in DOMAIN Plan : Plan[i].op = "run"}
Holding == Step.mode \in {"hold-before-step", "hold-after-step"}

-----------------------------------------------------------------------------
\* The process: what its mode does to the dataset and what it then reports.

Fresh == [alive |-> TRUE, did |-> FALSE, said |-> "nothing", code |-> 0, sends |-> 0, resent |-> 0,
          authority |-> Authority(Empty), wellformed |-> TRUE]
Gone == [Fresh EXCEPT !.alive = FALSE]

Worked(d) ==
    CASE Step.mode = "seed" -> [d EXCEPT !.seeded = 1]
      [] Step.mode = "advance" -> [d EXCEPT !.round = @ + 1]
      [] Step.mode \in {"step", "hold-after-step"} -> [d EXCEPT !.mark = @ + 1]
      [] OTHER -> d

Sends == CASE Step.mode = "seed" -> 12 [] Step.mode = "advance" -> 6 [] OTHER -> 0

Says(d) ==
    [child EXCEPT !.did = TRUE, !.said = IF Holding THEN "marker" ELSE "report",
                  !.sends = Sends, !.authority = Authority(d)]

Wrong(what) ==
    /\ Cardinality(defects) < MaxDefects
    /\ defects' = defects \cup {<<what, Step.mode>>}

Lasts(d) == store' = [store EXCEPT ![Step.dataset] = d]
Held == store[Step.dataset]

WorksRight == Lasts(Worked(Held)) /\ child' = Says(Worked(Held)) /\ UNCHANGED defects

\* It reports, or marks, work that is not durable.
LosesWork == Step.mode # "recover" /\ Worked(Held) # Held
             /\ Wrong("lost") /\ child' = Says(Worked(Held)) /\ UNCHANGED store

\* It works once more than it reports, or works although it should hold.
WorksAhead ==
    /\ Step.mode \in {"advance", "step", "hold-before-step", "hold-after-step"} /\ Wrong("ahead")
    /\ LET d == [Worked(Held) EXCEPT !.mark = @ + 1] IN Lasts(d) /\ child' = Says(Worked(Held))

\* It reports twice the work, which it did.
WorksTwice ==
    /\ Step.mode \in {"advance", "step", "hold-after-step"} /\ Wrong("twice")
    /\ LET d == Worked(Worked(Held)) IN Lasts(d) /\ child' = Says(d)

\* An advance takes a step besides, and reports it.
StepsBeside ==
    /\ Step.mode = "advance" /\ Wrong("beside")
    /\ LET d == [Worked(Held) EXCEPT !.mark = @ + 1] IN Lasts(d) /\ child' = Says(d)

\* It touches a shard or the economics that its mode leaves alone.
Strays ==
    /\ Step.mode # "seed" /\ Wrong("strayed")
    /\ \E d \in {[Worked(Held) EXCEPT !.other = @ + 1], [Worked(Held) EXCEPT !.economic = @ + 1]} :
         Lasts(d) /\ child' = Says(d)

\* It writes what changes no authority.
Scribbles == Wrong("scribbled") /\ Lasts([Worked(Held) EXCEPT !.junk = @ + 1]) /\ child' = Says(Worked(Held))

\* It sends again what was sent before.
Resends ==
    /\ Step.mode # "seed" /\ Wrong("resent")
    /\ Lasts(Worked(Held)) /\ child' = [Says(Worked(Held)) EXCEPT !.resent = 1]

Garbles == Wrong("garbled") /\ Lasts(Worked(Held)) /\ child' = [Says(Worked(Held)) EXCEPT !.wellformed = FALSE]

ChildWorks ==
    /\ phase = "running" /\ child.alive /\ ~child.did
    /\ \/ WorksRight \/ LosesWork \/ WorksAhead \/ WorksTwice \/ StepsBeside
       \/ Strays \/ Scribbles \/ Resends \/ Garbles
    /\ UNCHANGED <<at, phase, outcome, before, evidence, tree, troubles>>

\* It exits once it reported; after a marker it sleeps.
ChildExits ==
    /\ phase = "running" /\ child.alive /\ child.said = "report"
    /\ child' = [child EXCEPT !.alive = FALSE]
    /\ UNCHANGED <<at, phase, outcome, store, before, evidence, tree, defects, troubles>>

ChildCrashes ==
    /\ phase = "running" /\ child.alive /\ troubles < MaxTroubles
    /\ child' = [child EXCEPT !.alive = FALSE, !.code = 1, !.said = "nothing"]
    /\ troubles' = troubles + 1
    /\ UNCHANGED <<at, phase, outcome, store, before, evidence, tree, defects>>

ChildHangs ==
    /\ phase = "running" /\ child.alive /\ troubles < MaxTroubles
    /\ child' = [child EXCEPT !.did = TRUE, !.said = "hung"] /\ troubles' = troubles + 1
    /\ UNCHANGED <<at, phase, outcome, store, before, evidence, tree, defects>>

\* Somebody works in the tree, under a process or not.
Edit ==
    /\ outcome # "failed" /\ "audit" \notin files
    /\ edits < MaxEdits /\ edits' = edits + 1
    /\ \E t \in Thing \ drifted :
         /\ drifted' = drifted \cup {t}
         /\ unfrozen' = IF phase = "running" THEN unfrozen \cup {<<at, t>>} ELSE unfrozen
    /\ UNCHANGED <<at, phase, outcome, store, before, child, evidence, undone, defects, troubles>>

\* And takes a change back.
TakeBack ==
    /\ outcome # "failed" /\ "audit" \notin files
    /\ \E t \in drifted :
         /\ drifted' = drifted \ {t}
         /\ undone' = undone \cup {<<i, t, at>> : i \in {i \in DOMAIN Plan :
                                        <<i, t>> \in unfrozen /\ (i = at \/ phase = "next")}}
    /\ UNCHANGED <<at, phase, outcome, store, before, child, evidence, edits, unfrozen, defects, troubles>>

-----------------------------------------------------------------------------
\* The driver's `run'.

Fail == outcome' = "failed"

\* verify_artifact and the checks of producers, host metadata and source; then
\* the inventory.
Check ==
    /\ outcome = "open" /\ phase = "next" /\ Step.op = "run"
    /\ IF drifted # {} THEN Fail /\ UNCHANGED <<phase, before>>
       ELSE phase' = "checked" /\ before' = Held /\ UNCHANGED outcome
    /\ UNCHANGED <<at, store, child, evidence, tree, defects, troubles>>

Spawn ==
    /\ outcome = "open" /\ phase = "checked"
    /\ phase' = "running" /\ child' = Fresh
    /\ unfrozen' = unfrozen \cup {<<at, t>> : t \in drifted}
    /\ UNCHANGED <<at, outcome, store, before, evidence, drifted, edits, undone, defects, troubles>>

\* The inventory after the process and its result file.
Recorded(end) ==
    /\ phase' = "recorded" /\ child' = end
    /\ records' = records \cup {[step |-> at, end |-> end, changed |-> Held # before, after |-> Held,
                                 artifact |-> "artifact" \notin drifted, spoiled |-> FALSE]}
    /\ UNCHANGED <<at, outcome, store, before, kept, files, tree, defects, troubles>>

Interrupted == [child EXCEPT !.alive = FALSE, !.code = 137]
TimedOut == [child EXCEPT !.alive = FALSE, !.code = 143, !.said = "timed_out"]

SeesExit == phase = "running" /\ outcome = "open" /\ ~child.alive /\ Recorded(child)

\* The marker names the barrier and the digest that shard 0 should have.
MarkerSeen ==
    /\ phase = "running" /\ outcome = "open" /\ child.alive /\ child.said = "marker"
    /\ child.wellformed /\ [child.authority EXCEPT !.other = 0] = kept[Step.like].authority

SeesMarker == MarkerSeen /\ Recorded(Interrupted)

\* Mutant of Overdue: the time is only looked at when a marker came.
OverdueMarked ==
    /\ phase = "running" /\ outcome = "open" /\ child.alive
    /\ child.said = "marker" /\ ~MarkerSeen

\* 300 s without an exit or the marker.
Overdue ==
    /\ phase = "running" /\ outcome = "open" /\ child.alive
    /\ \/ child.said = "hung"
       \/ child.said = "marker" /\ ~MarkerSeen

\* Mutant of TimesOut: the exception is raised before the result is written.
TimesOutUnrecorded ==
    /\ Overdue /\ Fail /\ child' = TimedOut
    /\ UNCHANGED <<at, phase, store, before, evidence, tree, defects, troubles>>

TimesOut == Overdue /\ Recorded(TimedOut)

\* It does not end within 30 s of its kill: the exception leaves no result file.
Sticks ==
    /\ MarkerSeen \/ Overdue
    /\ troubles < MaxTroubles /\ troubles' = troubles + 1
    /\ phase' = "stuck" /\ Fail
    /\ UNCHANGED <<at, store, before, child, evidence, tree, defects>>

-----------------------------------------------------------------------------
\* What `main' makes of a report.

Valid == child.wellformed /\ child.resent = 0 /\ child.authority.round = Step.round
         /\ (Step.mode = "recover" => child.sends = 0)

SameAuthority == child.authority = kept[Step.like].authority

\* Mutant of AdvancedOnce: the economic digests are not compared.
AdvancedOnceUneconomic ==
    /\ child.sends = 6
    /\ [child.authority EXCEPT !.mark = 0, !.economic = 0]
         = [kept.previous.authority EXCEPT !.round = @ + 1, !.mark = 0, !.economic = 0]

\* One order further, economics and the fourth shard as before; of barrier and
\* digest it asks that they moved, which they do with the order.
AdvancedOnce ==
    /\ child.sends = 6
    /\ [child.authority EXCEPT !.mark = 0] = [kept.previous.authority EXCEPT !.round = @ + 1, !.mark = 0]

\* The step moves shard 0, but not its economics, and none of the others.
SteppedOnce ==
    /\ child.sends = 0
    /\ child.authority.mark > kept.seeded.authority.mark
    /\ child.authority = [kept.seeded.authority EXCEPT !.mark = child.authority.mark]

Satisfied ==
    /\ Valid
    /\ CASE Step.mode = "seed" -> Step.like = "observed" \/ child.sends = 12
         [] Step.mode = "recover" -> SameAuthority
         [] Step.mode = "step" -> SteppedOnce
         [] Step.mode = "advance" -> AdvancedOnce

\* Mutant of Passes: the source is not looked at after the process.
PassesAnySource ==
    /\ "producers" \notin drifted
    /\ child.said # "timed_out"
    /\ IF Holding THEN child.code = 137
       ELSE child.code = 0 /\ (Step.mode = "recover" => Held = before) /\ Satisfied

\* The checks after the result file, in the order of `run', then those of `main'.
Passes ==
    /\ "producers" \notin drifted
    /\ child.said # "timed_out"
    /\ IF Holding THEN child.code = 137
       ELSE /\ child.code = 0
            /\ Step.mode = "recover" => Held = before
            /\ "source" \notin drifted
            /\ Satisfied

\* The names under which the report is kept for later comparisons.
Kept == IF Holding \/ Step.mode = "recover" THEN {}
        ELSE {Step.like} \cup (IF Step.mode = "seed" THEN {"previous"} ELSE {})

Judge ==
    /\ outcome = "open" /\ phase = "recorded"
    /\ IF Passes
       THEN /\ phase' = "next" /\ at' = at + 1
            /\ kept' = [k \in DOMAIN kept |-> IF k \in Kept THEN child ELSE kept[k]]
            /\ UNCHANGED outcome
       ELSE Fail /\ UNCHANGED <<at, phase, kept>>
    /\ UNCHANGED <<store, before, child, records, files, tree, defects, troubles>>

NextStep == phase' = "next" /\ at' = at + 1

CopyStore ==
    /\ outcome = "open" /\ phase = "next" /\ Step.op = "copy"
    /\ store' = [store EXCEPT ![Step.dataset] = store["store"]]
    /\ NextStep
    /\ UNCHANGED <<outcome, before, child, evidence, tree, defects, troubles>>

WriteFile ==
    /\ outcome = "open" /\ phase = "next" /\ Step.op = "write"
    /\ files' = files \cup {Step.file}
    /\ IF at = Len(Plan) THEN outcome' = "passed" /\ UNCHANGED <<at, phase>> ELSE NextStep /\ UNCHANGED outcome
    /\ UNCHANGED <<store, before, child, kept, records, tree, defects, troubles>>

-----------------------------------------------------------------------------
\* audit-11-processes.py, some time after the summary.

\* A dataset or the output of a process changes before it is audited.
Tamper ==
    /\ outcome = "passed" /\ "audit" \notin files
    /\ troubles < MaxTroubles /\ troubles' = troubles + 1
    /\ \/ /\ \E d \in Dataset : \E s \in {[store[d] EXCEPT !.junk = @ + 1], [store[d] EXCEPT !.other = @ + 1]} :
               store' = [store EXCEPT ![d] = s]
          /\ UNCHANGED records
       \/ /\ \E r \in records : records' = (records \ {r}) \cup {[r EXCEPT !.spoiled = TRUE]}
          /\ UNCHANGED store
    /\ UNCHANGED <<at, phase, outcome, before, child, kept, files, tree, defects>>

\* The result of the process that worked on a dataset last.
LastOn(d) ==
    CHOOSE r \in records : /\ Plan[r.step].dataset = d
                           /\ \A q \in records : Plan[q.step].dataset = d => q.step <= r.step

\* The reports are checked once more, as in `Passes': outputs that still have
\* their digests give the same answers.
AuditHolds ==
    /\ drifted = {}
    /\ \A r \in records :
         /\ ~r.spoiled /\ r.artifact /\ r.end.said # "timed_out"
         /\ r.end.code = IF Plan[r.step].mode \in {"hold-before-step", "hold-after-step"} THEN 137 ELSE 0
         /\ Plan[r.step].mode = "recover" => ~r.changed
    /\ \A d \in Dataset : store[d] = LastOn(d).after

Audit ==
    /\ outcome = "passed" /\ "audit" \notin files /\ AuditHolds
    /\ files' = files \cup {"audit"}
    /\ UNCHANGED <<at, phase, outcome, store, before, child, kept, records, tree, defects, troubles>>

Init ==
    /\ at = 1 /\ phase = "next" /\ outcome = "open"
    /\ store = [d \in Dataset |-> Empty] /\ before = Empty /\ child = Gone
    /\ kept = [seeded |-> Fresh, golden |-> Fresh, previous |-> Fresh, observed |-> Fresh]
    /\ records = {} /\ files = {} /\ defects = {} /\ troubles = 0
    /\ drifted = {} /\ edits = 0 /\ unfrozen = {} /\ undone = {}

Driver ==
    \/ Check \/ Spawn \/ SeesExit \/ SeesMarker \/ TimesOut \/ Sticks
    \/ Judge \/ CopyStore \/ WriteFile
Process == ChildWorks \/ ChildExits \/ ChildCrashes \/ ChildHangs
Next == Driver \/ Process \/ Edit \/ TakeBack \/ Tamper \/ Audit

Spec == Init /\ [][Next]_vars
\* The driver and its process run; the process may still hang.
FairSpec == Spec /\ WF_vars(Driver) /\ WF_vars(ChildWorks \/ ChildExits)

-----------------------------------------------------------------------------
\* Properties.

\* What no report can show: sends of a process that is killed at its marker, and
\* meaningless bytes written by a process that may write.
NotShown(w) ==
    \/ w[1] = "resent" /\ w[2] \in {"hold-before-step", "hold-after-step"}
    \/ w[1] = "scribbled" /\ w[2] # "recover"

\* What the reports show and the driver does not ask: how far a barrier moved.
\* An advance may take a step besides, and the step that is kept and the one
\* that is repeated under a kill may both be taken twice, and agree.
Unasked(w) ==
    \/ w = <<"beside", "advance">>
    \/ LET both == {<<"twice", "step">>, <<"twice", "hold-after-step">>}
       IN w \in both /\ both \subseteq defects

\* A summary is written only if no process lost, repeated, resent or mixed up
\* anything, but for the two exceptions above (run-10-file-processes.py main).
\* When it is audited, every dataset holds what was last reported of it.
SummaryMeansRecovered ==
    /\ outcome = "passed" => \A w \in defects : NotShown(w) \/ Unasked(w)
    /\ "audit" \in files =>
         \A d \in Dataset : Authority(store[d]) = LastOn(d).end.authority

\* A driver that fails does so because something went wrong: processes that do
\* right in a tree nobody touches always get their summary (run and main).
FailureHasCause ==
    outcome = "failed" => defects # {} \/ drifted # {} \/ troubles > 0

\* What process `i' ran over was taken back before its checks.
UndoneWithin(i, t) == <<i, t, i>> \in undone

\* Or, if its checks do not look at it, before those of the next process.
UndoneBefore(i, t) == \A k \in Runs : k > i => \E j \in i + 1 .. k : <<i, t, j>> \in undone

\* Whether the checks after a process look at `t': not at artifact and host
\* metadata, and at the source only if it was not to be killed.
LookedAt(i, t) ==
    \/ t = "producers"
    \/ t = "source" /\ Plan[i].mode \notin {"hold-before-step", "hold-after-step"}

\* The processes a summary is about ran on the sources, producers, artifact and
\* host metadata its identity names, but for what somebody took back before the
\* driver looked at it again; of the last process only the audit sees the rest,
\* and in the artifact's digest whatever was still there when a process ended
\* (run-10-file-processes.py run, audit-11-processes.py).
SummaryIsOfFrozen ==
    /\ outcome = "passed" =>
         \A u \in unfrozen :
           UndoneWithin(u[1], u[2]) \/ (~LookedAt(u[1], u[2]) /\ UndoneBefore(u[1], u[2]))
    /\ "audit" \in files =>
         \A u \in unfrozen : /\ \E j \in DOMAIN Plan : <<u[1], u[2], j>> \in undone
                             /\ u[2] = "artifact" => UndoneWithin(u[1], u[2])

\* However the driver ends, and whatever crashed or hung, every process that was
\* started has its result file and is gone; only one that outlived its kill has
\* none (run).
ResultsKept ==
    outcome # "open" =>
      /\ phase # "stuck" => ~child.alive
      /\ \A i \in Runs : (i < at \/ (i = at /\ phase \in {"running", "recorded"})) => \E r \in records : r.step = i

\* The driver comes to an end.
Ends == <>(outcome # "open")
=============================================================================

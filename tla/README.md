# Ringwin: models and proofs

Ringwin is a deterministic trading engine written in Zig. Strategies propose
groups of order intents; a trading shard qualifies them against risk and
reserves margin; an order management system (OMS) turns them into commands; an
execution gateway journals every command before a venue adapter may see it;
venue answers flow back as canonical events. All state is rebuilt from a journal
and from snapshots, and what is finished moves to an append-only business
history so that resident tables stay bounded. A strategy may run in a Python
process of its own, fed and supervised over pipes; and the evidence that all this
recovers as it should is produced by Python scripts, which are programs too.

This directory holds TLA+ modules translated from that code, the TLC
configurations that check them and proofs checked by TLAPS. Paths are relative to
the repository root.

## 1. Inventory

| Component | State | Operations | Interacts with |
|---|---|---|---|
| Execution gateway `src/execution/execution_gateway.zig` | accepted and uncertain dispatch rows, archive bindings, authority facts, reservations and positions observed at a barrier, per-account latch, the durable dispatch stream | `sendFromShard`, `reconcileRecoveredDispatch`, `observeAuthorityFromShard`, `observeAdapterOutput`, `completePreviousOrderArchive`, `reclaimOrderDispatchEvidence`, `acknowledgeEconomicHistory`, `checkpointDurableDispatch`, `attachRecoveredDurableDispatch` | reads the decision owner's shard; calls the venue adapter; appends to the durable store |
| OMS `src/execution/oms.zig` | orders, command outbox, report / reconciliation / intent histories, tombstones, identity counters | `applyQualifiedGroup`, `applyIntent`, `applyDispatch`, `applyReport`, `applyReconciliation`, `confirmReplacement`, `discardReplacement`, `cancelOpenOrders`, `cancelStrategyOrders`, `commitOrderArchive` | owned by the trading shard; its outbox is what the gateway sends |
| Trading shard `src/trading/trading_shard.zig` | OMS, ledger, registries, operational state, canonical deduplication, trace, archive root | `handle` (one canonical or core event), group admission, dispatch batches, reports, fills, reconciliation, archive commits | journal, gateway, coordinator |
| Operational modes `src/trading/operational.zig` | mode, gates, latches, current lifecycle operation, command records | `applyCommand`, `applyGate`, `applyRiskWarning`, `applyProgress`, `recoveryCompleted` | decides what the shard may admit |
| Risk `src/risk/risk.zig` | none | qualification of one proposal | called by the shard |
| Account coordinator `src/portfolio/account_coordinator.zig` | shard summaries, risk leases, account facts, forced-execution allocation and its delivery mask, margin gate, gateway ownership | `publishSummary`, `allocateLeases`, `tightenLeases`, `expireLeases`, `acceptAccountFact`, `allocateForcedExecution`, `ackForcedDeliveryFromShard`, `reconcileMargin`, `resolveMarginGate`, recovery | at most four shards of one exchange account; its own durable stream |
| Economics `src/portfolio/economics.zig` | portfolios, positions, fills seen, funding windows, suspense | fill, funding and mark application, archive windows | called by the shard |
| Durable store `src/persistence/durable_store.zig` | per stream: open segment, committed barrier, sealed segments, snapshots; a safety gate | `append`, `commit`, `seal`, `publish`, `rotate`, `recover` | all owners |
| Business history `src/persistence/business_history.zig` | chain of receipts (roots) | publish a batch, verify a receipt, look up archived rows | archive owner, gateway |
| Archive owner `src/runtime/demo/demo_authority.zig` | the decision shard, its stream, its stage | `archiveTerminalOrder`, `resumeOrderArchive`, economic archives, `committedSnapshot` | shard, gateway, business history |
| Failover `src/runtime/failover.zig` | fencing tokens per domain, lease, node fence, standby position | `acquire`, `renew`, `revoke`, `releaseFencedOwner`, `GatewayLeaseGuard.check`, `FailoverEngine.attempt` | gateway (lease guard) |
| Recovery and cutover `src/runtime/recovery_cutover.zig` | recovery stage, cutover stage | `reconcile`, `prepare`, `catchUp…`, `quiesce…`, `drain`, `activateStable` | shard, strategy host |
| Strategy host, Zig end `src/strategy/` | supervisor state, generation, deadlines, sequence numbers; gateway: published batches, identities seen, activation | `acceptHostFrame`, `poll`, `restart`, `processExited`, `beginSession`, `beginRecovery`, `sendInput`, `activate`, `ingest`, `requestCheckpoint` | Python process over pipes; the shard's `host_activated` and `host_activation_revoked` |
| Strategy host, Python end `python/strategy_host.py` | session, both sequence numbers, cursor, next intent number, state | one loop per `--mode`: `trade_once`, `recovery_once`, `portable_once`, `benchmark_once` | supervisor over stdin and stdout |
| Strategy state `python/strategy_state.py` | pairs with model, predictions, cycle, intents | `encode`, `decode`, `validate` | checkpoints of the Python end |
| Prototype host `.scratch/quant-trading-system/prototypes/python-strategy-host/` | two rings in shared memory, status, cursor; producer's history and pending queue | `Ring.put`, `Ring.get`, `Ring.clear`, `drain`, `host_process`, `run_benchmark`, `run_demo` | two processes without a lock |
| Process recovery driver `.scratch/core-continuous-capacity/run-10-file-processes.py`, `audit-11-processes.py` | five datasets, result files, reports kept for comparison | `run`, `validate`, `same_authority`, `advanced_once`, the physical audit | starts and kills the application |
| Evidence chain `.scratch/core-continuous-capacity/` `run-10-command.py`, `run-11-final.py`, `resume-11-debug.py`, `audit-11-*.py`, `seal-11-evidence.py` | files per prefix: identity, archive, results, outputs, executables, digests, handoff | capture, freeze, run, continue, audit, seal | each reads what the others left |
| Market projection `src/market/` | book, sequence, health per instrument | snapshot, delta, gap, rule activation | adapters, shard |
| Venue adapters `src/adapters/` | session, outstanding requests, reconciliation passes | `send`, `drain`, `start`, `stop` | gateway, venues |
| Raw ingress, codecs, credential store, tools | see `PROJECT.json` | | |


How they interact: the runtime hands canonical and core events to one shard at a
time (`TradingShard.apply*`); a handler works on a candidate copy, which replaces
the shard only if the handler succeeds. Commands leave through the OMS outbox;
the execution role reads a committed decision snapshot and calls the gateway
synchronously; the gateway appends to its own durable stream and calls the
adapter. Adapters push events back asynchronously: dispatch results, reports,
fills, reconciliation results. The archive owner moves finished orders from the
shard and the gateway to the business history, one at a time.

## 2. What is hard, and what correct means

`PROJECT.json` lists each hazard at its line. By component:

* **Execution gateway.** One process, but it may die between any two durable
  steps, a write may fail after its bytes reached the file, and the command is
  checked against a snapshot of another owner's state. Correct: a command reaches
  the adapter at most once; what reached it can be proved from durable storage
  alone; an answer given to a caller stays the answer; an archived order is never
  sent again; the log its writers produce is one its reader accepts.
* **OMS.** Answers, reports and reconciliation results about one order arrive in
  any order, late, repeated or not at all, around amends that change revision and
  quantity and cancellations from several sources. Correct: nothing is believed
  that the venue did not do; what an order may still cost stays reserved; no two
  uncertain orders overlap with a new send; a replacement exists only once its
  predecessor is closed with the fills that were known; a group that has to stop
  stops; asking the venue settles an order.
* **Trading shard.** Handlers are all or nothing except for the faults that must
  survive a refused input. Correct: no error path leaves half of a handler; gates
  are at least as closed as the worst thing seen.
* **Operational modes.** Gates latch and clear in any order during a lifecycle
  operation. Correct: trading is authorised only if no gate holds and recovery is
  complete; a latched gate is cleared only by the command meant for it.
* **Account coordinator.** Several shards, each with its own journal, and a
  coordinator with another; messages are repeated after crashes. Correct: leases
  in force together stay below the limits; a forced execution is booked once per
  shard; a margin gate is not lifted by an older observation.
* **Failover.** Owners of a domain take over from each other while commands are
  under way. Correct: of two token holders only the latest can send; a lease is
  checked late enough.
* **Recovery and cutover.** Crash at any stage. Correct: one active version,
  cancels of the old one neither lost nor repeated.
* **Strategy host.** Two processes that count each other's frames; either may
  stop at any point, and a restarted host begins from some older checkpoint.
  Correct: output of an older generation is not taken and its authority is gone
  before the next one's opens; replay emits nothing and counts everything; a hung
  host is removed.
* **Strategy state.** Rules that compare neighbours and recompute rounded targets,
  applied under another cursor than the one the state was built at. Correct: what
  they let through is sound; what was written can be restored.
* **Prototype host.** Counters in shared memory that both sides write. Correct: a
  strategy's state stays the function of the batches up to its cursor, no identity
  is issued twice, no loss goes unnoticed.
* **Process recovery driver, evidence chain.** Children that hang, crash or do
  wrong, files and sources that change between two looks at them, scripts killed
  and started again. Correct: what is finally written is true of what was run.
* **Market projection.** Gaps and rule changes. Correct: a healthy book equals
  the venue's at its sequence.
* **Economics.** Fills before, after and without their orders, twice, or after
  an archive. Correct: every fill is booked once.
* **Durable store, business history, raw ingress.** Crashes between file
  operations. Correct: recovery yields a prefix that contains everything
  committed.

## 3. Structure

| Module | Composition, abstraction | Main questions | Theorems |
|---|---|---|---|
| `DispatchGateway` | with the parts of shard, store and archive owner it depends on; implements `DispatchContract` | at most once, durable proof, answers, archives, recovery | `DispatchGatewayProofs` |
| `Oms`, `OmsVenue` | `OmsVenue` composes the OMS with gateway, network and venue | evidence, reservations, replacements, groups, reconciliation | `OmsVenueProofs` |
| `HostState`, `StrategyHost` | both ends of the host, the pipes, and the shard's authority; implements `HostAuthority` | numbering over restarts, silence before activation, both ends in step, reaping | `StrategyHostProofs`, `HostAuthorityProofs` |
| `StrategyState` | one state between a host and a file | soundness of what is accepted, and that it stays accepted | `StrategyStateProofs` |
| `HostModel`, `PrototypeHost` | both processes of the prototype, and its demonstration | state, identities and losses across recoveries | `PrototypeHostProofs` |
| `FileProcesses` | driver, its processes, the tree and the audit | what a summary and an audit are worth | `FileProcessesProofs` |
| `EvidenceChain` | all scripts of one chain, the tree, the files | what a sealed handoff is worth | `EvidenceChainProofs` |

Modules are written to be proved about: parameters are constants with named
assumptions, an action per operation, a handler with several durable steps is one
action per step, and no recursive operator is declared.

What a continuation of this work would take first: modules for the
account coordinator (exactly-once delivery of forced executions), the operational
gates, failover leases and the files of the durable store.

## 4. Modules and the code

### `DispatchGateway`

| TLA+ | Code |
|---|---|
| `mem`, `cand` | the gateway's `accepted_dispatches`, `uncertain_dispatches`, `archive_binding`, latched accounts; the copy a recovery or an archive handler works on |
| `disk` | the durable dispatch stream: published snapshot, records of the open segment, committed barrier, sealed flag |
| `gate` | the store's safety gate, which only a restart opens again |
| `shard`, `old` | what the gateway reads of the decision owner's shard: current, and an earlier committed snapshot the execution role still holds |
| `history` | the dispatch rows in the business history |
| `pc`, `rec` | the step a handler has reached, the record it writes |
| `wire`, `told`, `faults` | ghosts: hand-overs to the adapter, answers given, faults so far |

`sendFromShard` is `BeginSend`, `AppendRecord`/`AppendFails`,
`CommitRecord`/`CommitFails`, then one of `AdapterAccepts` (which goes on to
journal the acceptance), `AdapterDeclines`, `AdapterFails`, `Refuse`.
`reconcileRecoveredDispatch` is `BeginResolve` and the same writing steps.
`archiveTerminalOrder` and its siblings are `ArchiveOrder`, `ArchiveEconomic`,
then `Reclaim` or `Acknowledge`, writing, and `Seal`, `Publish`, `Rotate`;
`completePreviousOrderArchive` is `Reclaim` from `idle` or `FinishCheckpoint`.
`attachRecoveredDurableDispatch` is `Recover`, `ReplayRecord`, `Attach`. `Crash`
is possible everywhere. `DispatchContract` says what callers may rely on, and
`ImplementsContract` that the gateway keeps it (`answer` maps to the state of the
row behind each caller's answer).

Things the model keeps because the code has them: a tail beyond the committed
barrier makes every later attach fail (fail closed; `Recovers` is conditional on
it); a crash between seal and rotate lets the next append meet a sealed segment,
which closes the gate; a checkpoint at a barrier whose snapshot differs (the latch
has changed meanwhile) is a conflict; the latch is not journalled, so a restart may
lose it; an order that was confirmed absent is not archivable.

Left out: accounts, origins and routes other than one (rows of different keys
never meet), `not_sent` results, the in-memory send path without a durable
stream, record and snapshot bytes. History publication and the shard's archive
commit are one step (`ArchiveOrder`): nothing of the gateway runs between them.
Steps of the shard are taken between handlers only, which loses nothing because a
handler reads the shard in its first step alone.

Environment assumption: a decision snapshot taken before the process started is
not used after a restart (`SnapshotsSurvive = FALSE`). In the code this is the
business of the lease token (`src/runtime/failover.zig`, `acquire`) and of
the authenticated snapshot barrier. With `SnapshotsSurvive = TRUE` a command of an
archived order that was never sent can be sent from an old snapshot between the
shard's archive commit and the gateway's binding of that root, and
`AnswersSurvive`, `DurableProof` and `NoSendAfterArchive` fail; `AtMostOnce`,
`RecoverableLog` and `LagAtMostOne` hold either way, and are proved for both.

### `Oms` and `OmsVenue`

`Oms` is a library of state changes of `src/execution/oms.zig` as the shard's
canonical path uses them; `OmsVenue` extends it with the venue and the network
and has the `Init` and `Next`.

| TLA+ | Code |
|---|---|
| `orders[i]` | `Order` with what the histories say of it: `cmds` its commands, `last` its last report, `totals` the quantity each revision had, `settled` whether a resolved reconciliation is remembered; `res`/`active`, `cres`/`cqty`/`basis`, `pres`/`pbasis` the reservation, the confirmed specification and the pending one |
| `recovery_only`, `capacity_pressure` | the flags of `Oms` |
| `ApplyGroup` | `applyGroupInPlace` |
| `ApplyDispatch` | `applyDispatch`, one result (with `rejectCommand`, `cancelGroup`) |
| `ApplyReport`, `Settle`, `Break` | `applyCanonicalReport`: the report, the replacement that becomes due in the same event, and the fault that closes a gate and sets `recovery_only` |
| `ApplyReconciliation`, `ApplyLateReconciliation` | the `order_reconciliation_result` branch and `applyReconciliationInPlace` |
| `CancelOpenOrders`, `GateCloses` | `cancelOpenOrders` and `cancelStrategyOrders`: called elsewhere with any scope, or by the gate this very event closes |
| `venue`, `reports`, `query` | external: the order at the venue, every report it made, a reconciliation answer under way |
| `wire`, `answered` | the gateway and network: where each command is, which results were applied |

Every report ever made may be delivered any number of times and in any order. A
command may be sent while it is still its order's current command
(`sendFromShard`), refused, or taken; a loss is a refusal whose answer is
`unknown`. An answer to a question shows the venue when it was asked and is
applied later, unchanged, as `unresolved`, or under an identity below the last.

A group that is refused leaves nothing: the shard discards the copy it worked on
(`trading_shard.zig:1177`), and with it the pressure a full table raises in
`createOrder`. Groups have up to four members (`max_group_members`). The pressure that
remains, of a report or a replacement, needs more orders than a run has; the proofs
cover it. `canConfirmAbsent` also asks for the place's session and for no applied fill
(`CanConfirmAbsent` leaves that out): a claim that fails it becomes unresolved, which the
model allows of every answer.

What the environment is assumed to do: the venue is honest; an amend sets the
total quantity (OKX and the simulated venue; Binance and Bybit adapters here have
no amends); adapters answer a refused amend or cancel by a dispatch result, and a
`rejected` report is about a place (`ApplyReport` has the other branches, no run
reaches them); the risk layer may refuse a replacement.

Left out: identities of intents, reports and results (an exact duplicate is a
no-op; the same content under another identity is processed in full and is
modelled); capacities of command, fact and intent histories; the order archive,
whose protocol is in `DispatchGateway`; `definite_reject` and other inputs only
the core test path produces.

### `StrategyHost`, `HostState` and `HostAuthority`

| TLA+ | Code |
|---|---|
| `facts` | the journal: whether the strategy answers the fact |
| `host` | the Python process: mode, place in its loops (`pc`), `zig_sequence`, `control_sequence`, cursor, next intent number, barrier, exit code |
| `toHost`, `toZig` | the frames in the two pipes |
| `sup` | `HostSupervisor` and `ManagedHost`: state, generation, sequence numbers, the recovery asked for and reported, the checkpoint request under way |
| `gateway` | `Gateway`: session, activation, ends of the published batches, identities seen |
| `shard`, `proposed`, `admitted` | `host_activation_*` of the shard and its submitted intents; intents on the way to it; those it admitted |
| `outputs` | ghost: which fact each recovered intent answers |

The host makes one step per frame it reads. `ReadPlan`, `SendHeartbeat` are the
start of `main`; `ReadBeginRecovery`, `Replay`, `FinishReplay`, `ReadActivation`,
`CatchUp`, `Live` are `recovery_once`; `ReadPortableRecovery`, `Serve` are
`portable_once`; `ReadDirectActivation`, `AnswerTrade`, `AnswerBenchmark` the other
modes; `ReadShutdown` its end. An exception is `Dies`, a `RecoveryNeeded` is
`RequireRecovery` (exit code 24). A host in mode `strategy-fault` writes and counts its
fault before it looks into the batch, and may then refuse the batch (`RefuseLive`) or die
of an event it cannot apply; the last frame of a host that ends so is judged by `InStep`
too, since the supervisor takes whatever is in the pipe. The owner's steps are the rest, named after the
functions of the supervisor, the gateway and the shard. `Kill`, `NoticeExit` and
`MissDeadline` are `deinit`, `processExited` and `poll`: a deadline may pass at any
time, time itself is not modelled. The owner chooses mode, barriers, checkpoints,
batches and when to shut down, within what the code checks.

A state of the strategy is its cursor and its next intent number: the fixture
strategy's state is a function of the facts it applied, and digests are compared
as these two. Only the first intent of a batch is published
(`strategy_host.py:560`). Left out: the capacity of 64 published batches, the
ring buffers of `strategy_host_ipc.zig`, checkpoint files.

`HostAuthority` says what the shard promises: authority is opened under a fresh
identity by a fact of the journal, closed by another, and an intent is admitted only
while authority is open and only if it was computed from a later fact.

### `StrategyState`

The schema is given as sets of records, `Encodable` is the rules of
`validate` (one named operator per rule), `Decodable` what `decode` asks besides.
`Consume` and `Emit` move cursor and next number past a state the strategy leaves
alone, `Checkpoint` writes it if what it wrote can be decoded again (`Storable`, the
check at the end of `encode_checkpoint`), `Rewrite` replaces the file by one another
program wrote, `Restore` is the next host. That a written state can be restored is thus
what the code tests, and no property here. `MCStrategyState` gives TLC about 4000 states: a
base state and every state that differs from it in one part. Canonical form, and the
bytes of JSON, are not modelled beyond `Decodable`.

Seen while modelling, and kept: with `phase` and `before_reconciling` both
`reconciling`, the rules for holding and exiting do not apply; the same intent may
stand in two pairs.

### `HostModel` and `PrototypeHost`

`HostModel` is `model.py`, an operator per method. `PrototypeHost` has the two
processes: the child's loop is `Start`, `BeginGet`, `EndGet`, `Reply`,
`PublishStatus`, `PublishCursor`, `Stop`; the producer's is `Produce`, `drain`,
`Drained` (the last look at the output, after which the host may write on), `Feed`,
`Flush`, `FlushDone`, `Finish`, `Again`, `Converge`, `GiveUp`; `DemoNext`, `DemoGap`,
`DemoRecover` are the keys of the demonstration. A ring read takes two steps, since
`Ring.get` reads the counter, copies and then stores the counter, while `Ring.clear`
stores the same counter; what is copied from a slot rewritten meanwhile is one of
`Copies`. One host of four is modelled: they share only the producer's clock.
`race` is history: whether a mixture of two snapshots was copied, and whether the
reader stored its counter behind the place the producer had meanwhile cleared the ring
to. Section 6 says what either leads to.

### `FileProcesses`

`Plan` is the sequence of processes, copies and files of `main`. `Check`, `Spawn`,
`SeesExit`, `SeesMarker`, `TimesOut`, `Sticks` are `run` up to its result file,
`Judge` what comes after it; `CopyStore` and `WriteFile` are the other steps.
`ChildWorks` is a process that does right or one of eight wrongs (it loses work, works
ahead or twice, steps beside its advance, strays, scribbles, resends, garbles its
report); it may also crash, hang or outlive its kill. `Edit` changes the tree and
`TakeBack` undoes a change; `Tamper` changes a dataset or an output that waits for its
audit, and `Audit` is `audit-11-processes.py`.

What a summary does not say, though one might expect it to, stands in the properties as
an exception:

* `NotShown`: sends of a process killed at its marker, and meaningless bytes from a
  process that may write, are in no report.
* `Unasked`: the driver asks of a barrier that it moved (`run-10-file-processes.py:334`,
  `:162`), not how far. If `step` and `hold-after-step`, which run the same code of the
  application, both step twice, they agree with each other and a summary is written; so it
  is if an advance takes a step besides.
* `UndoneWithin`, `UndoneBefore`: a change of the tree that is taken back before the next
  look leaves no trace. After a process that was to be killed nobody looks at the source
  (`:310` returns before `:316`), and after no process at artifact and host metadata; the
  next look is then the one before the next process (`:243`).
* A process that outlives its kill has no result file: the second exception of `run`
  leaves before it is written.

Left out: sizes and memory samples; the self-test with a wrong digest, which always
rejects. The audit repeats the checks of the reports on outputs whose digests are
unchanged; in the model that is `~r.spoiled`.

### `EvidenceChain`

`script` is the script that runs and how far it is. `Begin`, `BeginNested`, `Child`,
`After`, `AfterNested` are `capture` (nested for the native suites), `Run`, `Archive`,
`Check`, `GoOn`, `Finish` are `run-11-final.py`; `Resume`, `VerifyReused`, `Alias`,
`Publish` are `resume-11-debug.py`; `AuditHolds` is the audits, `Seal`, `MakeHandoff`,
`WriteManifest` the sealing. A digest is the content it was computed from. `Edit`,
`TakeBack`, `Damage`, `Crash` are what happens around the scripts; a damaged result
file is not, since nothing holds a digest of one before the seal.

One operator starts one script at a time. An edit made while a child runs lasts until
the child ended. Audits started by hand are not actions of their own: the seal audits
again. Two gaps remain and are not claimed: the continuation takes the ReleaseSafe
executable by the bytes it has by then (`resume-11-debug.py:68`), because the digest of
a chain that failed was never written (`run-11-final.py:125`); and a file damaged
between the audit of the seal and the hashing of references is recorded as it is. A
crash between making the handoff directory and its manifest leaves a directory that
blocks a second seal.

## 5. Runs

`tlc -workers 2 -config X.cfg M`. All runs set `CHECK_DEADLOCK FALSE`: the bounds
(faults, roots, commands, facts, batches) stop every instance in the end, as the
system itself stops when nothing is asked of it.

| Run | Checks | Bounds, and why they are enough |
|---|---|---|
| `dispatch_crash` | types, `DurableProof`, `AnswersSurvive`, `NoSendAfterArchive`, `Recovers`, `ImplementsContract` | a place and a cancel of one order, one fault at any step, one archive; results of a dispatch come before the order's end (`LateResults` is FALSE; the next run has the others): each handler is cut at each of its steps, and the recovery after it runs on every log it can leave |
| `dispatch_archive` | `LagAtMostOne`, `RecoverableLog`, `AtMostOnce` | a place and a native amend that compete for a dispatch budget of one row, surviving snapshots, three history roots (an order archive before, between and after economic ones), two faults (a recovery that is cut again), results of a dispatch at any time before the archive |
| `oms_orders` | types, `ReservationCovers`, `EvidenceTrue`, `TruthResolves` | one order of one or two lots at two prices, two commands among place, amend and cancel, one question under way, safety cancellations, late answers. With a third an old answer may take a revision back (section 6), and with a fourth `oms_second_amend` shows `ReservationCovers` false |
| `oms_replace` | `SuccessorAfterClose`, `StopsUnsent`, `SendsAlone` | groups of up to two intents under `cancel_remaining`, a table of two live orders, two lots each so that a partial fill can fall between decision and cancellation, at most four commands emitted: a group can meet an order that is uncertain. A replacement that falls due beside a third, uncertain order needs three; the theorem has it |
| `oms_second_amend` | `ReservationCovers`, violated | one order of one lot at two prices, four commands: place, amend, a safety cancellation that is refused, a cheaper amend |
| `host_modes` | types, `InStep`, `RecoveredAtBarrier`, `HungIsReaped` | all nine modes, one session, three facts in batches of one or two, two checkpoint requests, one fault (a batch that cannot be read or applied, stale output) besides deadlines and shutdowns at any time: every frame of either side is met in every state of the other |
| `host_recovery` | `ContinuousNumbering`, `QuietUntilActivated`, `ImplementsAuthority` | recovery mode, two generations, four facts: a checkpoint, a replayed fact, an activation and a fact behind it, with every choice of which are answered |
| `host_first_intent` | `FirstIntentContinues`, violated | the same with one generation |
| `prototype` | `CountsTrue`, `NeverTwice`, `NothingLostQuietly` | a ring of two slots and one of three, seven batches, intents at every batch and checkpoints at every other one, so that a recovery replays batches that were answered, two late batches: long enough to fill, drop, clear under a read, recover, and fall behind again. The two races of section 6 take a ring that holds a whole recovery beside the next one's snapshot, and more batches; there the theorems stand |
| `strategy_state` | types, `AcceptedIsSound`, `StaysAccepted` | the candidate states above, cursor up to 2, next number up to 3: each rule has a state just inside and just outside it |
| `file_processes` | `SummaryMeansRecovered`, `FailureHasCause`, `SummaryIsOfFrozen`, `ResultsKept`, `Ends` | two of the ten archive rounds, so that a round follows another; two wrongs, which might make up for each other; one edit, at any step and perhaps taken back at any later one; one trouble |
| `evidence` | `AuditedRanFrozen`, `AuditedTestedArtifacts`, `SealedArchiveIsFrozen`, `ReusedIsClean`, `ResultsStay` | two prefixes (a chain and its continuation, symmetric), two troubles of any kind at any step; outputs of two captures, one taken over and one not, may change |

Each property of a passing run has a mutant in `PROJECT.json`: a change of one
mapped definition, of the kind a slip in that code would make, with which the run
finds the property violated. The mutants stand beside what they mutate, each
marked as one.

## 6. Disagreements between code and documents

| Run | Statement | What the code does |
|---|---|---|
| `host_first_intent` | the first intent after activation equals that of a run that never crashed (`.scratch/archive/python-strategy-host-productization/issues/01-freeze-product-contract.md:442`) | catch-up applies whole batches without output until the cursor has reached the activation barrier (`strategy_host.py:529`); the intents of facts behind the barrier that share a batch with it are counted and never emitted |
| `oms_second_amend` | every amend path covers the worst possible outcome first and releases after a definite end; an amend that lowers the risk releases the difference only once the venue confirmed it (`.scratch/quant-trading-system/issues/37-cross-venue-order-capability-degradation.md:171` and `:172`) | a refused cancel makes its order live although an amend of it is unanswered (`rejectCommand`, `.cancel`); the next native amend is accepted and overwrites `pending_reservation` (`oms.zig:790`), the only trace of what the first one reserved, which the venue may still take |

Behaviour worth knowing, which the models keep:

* A dispatch result is applied whatever state its order is in: `unknown` after
  `rejected` makes it unknown again, a cancel answered `not_sent` after `filled` makes
  it partially filled.
* A member of a group that is on the wire, but whose own result has not been applied,
  is given up as unsent, without a cancel.
* `blocksNewSend` is asked once per group: `[cancel A, place B]` emits the place after
  A became PendingCancel. `SendsAlone` therefore judges a group by the state before
  it.
* A place answered `unknown` after a safety cancel was emitted, and that cancel
  refused: `rejectCommand(.cancel)` makes the order live.
* A partially filled report after the canceled one, at the same quantity, is a
  conflict: the shard may then only recover.
* A place that was answered `not_sent` keeps `reservation.atoms`; its order
  counts as live for ever and cannot be archived.
* A refused cancel leaves the pending replacement in the order; a later cancel of
  the order, for whatever reason, then triggers it if revision and fills still match.
* `cancelGroup` leaves a replacement in place too: `StopsUnsent` leaves
  replacements out for that reason.
* While an amend is unanswered, a reconciliation result about the old revision
  with another total is taken for unresolved and makes the order unknown.
* A `found_live` observed before an amend, with the same total, applied after it
  takes the revision back, and the next amend uses the number again. An answer about
  that number then promotes the second amend for the first, whose larger reservation
  is gone; and an order that is asked about after its end is not settled by the answer.
  This needs a place and two amends. The OKX adapter reads the revision when
  the answer comes, and may not produce it; the OMS does not refuse it.
* An order cancelled for safety before its place was sent is live once that cancel
  is refused, though it never was at the venue; `canConfirmAbsent` no longer
  applies because its last command is the cancel. `TruthResolves` is stated for
  orders with a place only.
* A strategy host that waits for input when SHUTDOWN comes answers
  RECOVERY_REQUIRED and exits with 24; it sends one heartbeat in its life, so an
  active one is in the end taken for hung.
* The prototype drops a request for a snapshot that comes while a recovery is under
  way, and may end the recovery on a status of before the snapshot; it then does not
  converge, but loses nothing quietly in the middle. Batches dropped at the end of a
  run are not noticed by the host.
* The same stale status lets the prototype recover once more than it has to, and of two
  recoveries in a row the second can overtake the reader of the first. `Ring.clear` stores
  the reader's counter (`main.py:75`) and `Ring.get` stores it again when it has copied
  (`main.py:71`). While the host is between reading its counter and storing it, at the
  snapshot of a recovery that fills the ring exactly, the producer clears and writes the
  next recovery; its snapshot falls on the slot the host is copying. If the host copies
  the header of the new snapshot with the rows of the old one, it counts from a number
  that is not its cursor's (`CountsTrue` without its exception is false). If it copies the
  new snapshot whole, it stores its counter behind the clear, reads the recovery through
  the old slots, answers what follows it, comes upon the same recovery again and answers
  the same batches again (`NeverTwice` without its exception is false); `drain` then
  raises "duplicate OrderIntent identity" (`main.py:235`), where
  `prototypes/python-strategy-host/README.md:42` reports no repeated identity (也没有重复身份).
  `PrototypeHost` has this behaviour with an input ring of seven slots, an output ring of
  six, up to twenty batches, and checkpoints and intents at every batch; TLC found it after
  some 250 steps along a given schedule. A plain search does not get that far, so no run
  shows it, and the two properties except what `race` records. The real ring has 64 slots
  and a checkpoint every 250 batches: there the schedule needs a recovery of 64 items.

## 7. Fairness

Three liveness properties.

* `Recovers` (`DispatchGateway`, `FairSpec`): weak fairness of `Recover \/ ReplayRecord
  \/ Attach`, because `attachRecoveredDurableDispatch` is one synchronous call of the
  starting process, which either runs to its end or is cut by a crash. Nothing is
  assumed of adapters, the shard, or callers.
* `HungIsReaped` (`StrategyHost`, `FairSpec`): weak fairness of the host's steps, and of
  the owner's receiving, polling (`MissDeadline`), noticing an exit and killing. The
  owner's loop does these in turn; a deadline that is never reset passes, and no phase
  of a hung host resets it. What the owner sends is its choice and not fair.
* `Ends` (`FileProcesses`, `FairSpec`): weak fairness of the driver, which polls its
  child every few milliseconds and has a clock of its own, and of a process that can
  go on. A process may hang; the 300 s and the kill are what the property is about.

## 8. Proofs

Eight modules hold theorems; each is proved from the named assumptions on the
constants alone, four of `DispatchGatewayProofs` from `~SnapshotsSurvive` too.

`DispatchGatewayProofs`, for every set of commands and orders, every budget and
bound (with results that come after the order's end and without):

* `TypeCorrect == Spec => []TypeOK`. The induction carries `TypeInv`: besides the
  types, a handler that writes holds a record, the committed barrier lies within
  the tail, and the shard's last archive names an order.
* `SendsAtMostOnce == Spec => []AtMostOnce`. `AtMostOnce` is not inductive: why
  may a command not be begun again after a restart, or after its rows were
  forgotten? `SendInv` answers. A command that was handed over is *covered* in
  every place the next sender could look: in memory (`MemCovers`), in the tables a
  recovery is building or those still to be replayed (`ReplayCovers`), in the
  candidate a checkpoint will install (`CandCovers`), and on disk, in the snapshot
  or as a committed record (`DiskCovers`). Covered means that a row exists or that
  its order is archived under a root the tables have bound; in the second case no
  view that the binding admits still has the command (`ArchivedForgotten`,
  `RootsOrdered`, `LastArchived`, `RecordTrue`, `TailTrue`). Between commit and
  adapter call the record is the last of the tail and committed (`AtTail`), and a
  command being sent was never sent before (`FirstAttempt`).

The other theorems of the module need `SendInv` and one more invariant, `JournalInv`:

* `LogRecovers` (`RecoverableLog`) and `LagsAtMostOne`. What a recovery builds from the
  stream is a recursive function of it. The invariant does not define that function but
  says that there is one: a sequence of tables, one for the snapshot and each record,
  each accepting the next record (`Trace`). While the gate is open the last of them is
  the gateway's memory but for the latch, up to the record that is being written, and a
  record is written only where the last table accepts it (`InMemory`, `Committing`).
  Every table from the committed barrier on, the memory and the candidate are at most
  one root behind the shard (`Near`).
* `AnswersKept` (`AnswersSurvive`), `AttemptsProved` (`DurableProof`), `ArchivedNotSent`
  (`NoSendAfterArchive`) and `GatewayKeepsContract` (`ImplementsContract`), where no
  snapshot survives a restart (section 4). All those tables hold every answer that was
  given and whose order is not archived (`Holds`); the history holds the others
  (`HistoryTrue`); a snapshot that still has commands of an archived order is older than
  the root any sender compares it with (`StaleRefused`); and what is being sent or
  settled is unanswered (`Attempted`). An attempt that was settled has its answer from a
  later reconciliation than it knew of, also in the tables of a recovery (`Holds`).

`OmsVenueProofs`, for any number of orders, lots, prices and commands, and groups of up to
four members:

* `Typed` (`TypeOK`) and `EvidenceIsTrue`. The invariant `IInv` says of every order that
  its commands are in order and its numbers sane (`Orderly`) and that what the OMS
  believes of it is so (`Honest`), and of the venue that every report and every answer
  under way is true, then and later (`Traded`, `Informed`). A handler changes one order,
  or the orders of a group one after the other, and calls up to four others on the way;
  so each operator of `Oms` has a lemma that says how the order after it follows from
  the one before: reservations only (`Same`), no evidence (`Quiet`), evidence that is
  the venue's (`Faithful`). An answer that nothing is there makes an order canceled; it is
  taken only by an order whose one command is its place, and is given only when that
  place is not at large.
* `SuccessorIsAfterClose`. A replacement that is due carries the fills of a cancel
  command of its order (`Orderly`), and comes due in a report or answer that the venue
  gave after the close (`Succession`).
* `UnsentStopsGroup` (`StopsUnsent`): no place waits in a group that an unsent member
  stops (`GroupsKept`).
* `SentAlone` (`SendsAlone`). Steps other than a group and the end of a predecessor add
  cancels at most (`Mute`); those two ask `blocksNewSend` of the orders that the
  property speaks of (`Alone`).

`StrategyHostProofs`, for any number of facts, generations, requests and faults, any batch size and set of modes:

* `TypeCorrect`. The induction carries `Typed`: a host that still answers has batches
  left (`Unspent`), and a supervisor past its recovery has a report (`Reported`).
* `NumberedAsUninterrupted` (`ContinuousNumbering`), `SilentBeforeActivation`
  (`QuietUntilActivated`), `ReportedAtBarrier` (`RecoveredAtBarrier`), all from
  `NumberingInv`. A number is a count over the journal, and the journal grows while
  frames lie in the pipes; so the invariant says of every place a number can be that it
  is the count up to the cursor beside it: in frames to the host (`FramesIn`), in
  reports on their way back (`FramesOut`), in the host (`HostNumbers`), at the owner
  (`Told`), and in what was emitted (`OutputsNumbered`); before recovery is asked for,
  nothing of it is on its way (`Untold`). A count up to a cursor within the journal does
  not change when the journal grows, which is most of the arithmetic.
* `EndsInStep` (`InStep`), from `SequenceInv`: what an end has counted as sent is what the
  other has counted as taken and what is in the pipe between them, where a host that is
  still at its plan or its hello has said one or two frames that it does not count yet.
  Frames follow one another without a gap up to the last one of a host that is gone.
* `AuthorityImplemented` (`ImplementsAuthority`): under the mapping of `StrategyHost`,
  each step is one of `HostAuthority` or a stutter. `AuthorityInv` says that nothing
  sent, proposed or opened lies beyond the journal and that an open authority is the
  shard's last.

`HostAuthorityProofs`: `AuthoritiesInOrder`, of the abstract specification. Intents of
different authorities are admitted in the order of the authorities, and the later one
answers a fact after the one the earlier became. With `AuthorityImplemented` this holds
of the code's model too.

`StrategyStateProofs`, for every set of candidate states,
all capacities and bounds:

* `TypeCorrect`; `AcceptanceLasts` (`StaysAccepted`).
* `SoundnessKept` (`AcceptedIsSound`). What was accepted is encodable; the rest is about
  the rules alone: neighbours in order are all in order and none meets another, a
  symmetric matrix that passes the three comparisons is a covariance, and two ceilings
  and a floor keep the target of the holding between the minimum and the target of the
  entry.

`EvidenceChainProofs`, for any prefixes, any outputs that may change, and any number of
edits, changed files, failing children and killed scripts. Five invariants, each proved
with those before it:

* `TypeInv`: the types, and where in its list of stages a script can be at each step.
* `FreeInv`: what a script is about to write is not there yet (`Free`), because outputs
  and results exist only under names that were claimed (`NamedInv`). A step then adds to
  the records and changes none: `ResultsAreKept` (`ResultsStay`).
* `TrueInv`: a record whose source was kept is of what ran (`Honest`), the capture that is
  being written down still is (`Watching`, `Diagnosed`), and a continuation has found clean
  what it has taken over so far (`TakingOver`, `Continued`):
  `ContinuationsReuseCleanResults` (`ReusedIsClean`).
* `TestedInv`: a digest counts the changes of its file, so an executable whose digest was
  taken when it was built and is the same after its suite was the same under it:
  the digest is at most what was tested, and that at most what the file is now (`Judging`).
  A list names what the suites before it tested (`Done`, `Listed`), and an audit stage read
  the output of the executable that it names (`Inspected`).
* `AuditInv`: a prefix past its audit still is as the audit approved it (`Approved`), and
  so is its archive; from it `AuditedRunsAreFrozen` (`AuditedRanFrozen`),
  `AuditedListsAreTested` (`AuditedTestedArtifacts`) and `SealedArchivesAreFrozen`
  (`SealedArchiveIsFrozen`).

`FileProcessesProofs`, for any number of rounds, edits, wrongs of processes, crashes and
hangs. The plan of the driver is a sequence whose length depends on the rounds; the
first lemmas say which step is where, and that a recovery on the same dataset follows
whatever else a process does (`ThenRecovered`).

* `ResultsAreKept` (`ResultsKept`), from `ResultInv`: every run behind the driver has
  exactly one result, and a driver that failed has left no process running but one that
  outlived its kill; no crash or hang is excluded.
* `SummaryIsFrozen` (`SummaryIsOfFrozen`), from `FrozenInv`: what a process ran over was
  taken back before the checks after it, or these do not look at it, and it is then still
  drifted or was taken back before the next process (`Met`). A check that passes finds
  nothing drifted. An audit that passed found the artifact's own digest
  in every result (`AuditedInv`).
* `FailuresHaveCause` (`FailureHasCause`) and `SummariesMeanRecovered`
  (`SummaryMeansRecovered`). A wrong is not always seen by the step it happens in: a
  process that reports work it did not make durable passes, and is found out by the next
  process. `WrongInv` says that nothing is passed over: while the state is *sound* - the
  recovery at hand will find what it is compared with, and the process that ran did what
  its mode should - every wrong so far is of a kind that no report can show or that nobody
  asks for, and without wrongs and troubles the state is sound. The proof goes backwards: a
  passed check leaves a sound state only if it was sound before (`JudgeCounts`), and a
  process whose work can be told from the right work leaves none (`RightAndWrong`). Behind
  the last run every state is sound. That `step` twice and `hold-after-step` twice come only
  together is `PairInv`: the mark of the report that is kept is one, or it is two and the
  step was taken twice; the marker of the second process has to show the same mark. The
  proof needs to know what the datasets held and what was kept of the reports at every
  step (`BasesInv`, `KeptInv`), which is what the comparisons of `main` establish in turn
  (`Values`). In the other direction, the report of a process that did right is the one
  that is asked for (`RightPasses`, `MarkerComes`). For the audit, the last run on each
  dataset is a recovery with one result (`LastIsRecovery`), and a recovery reports what it
  finds.

`PrototypeHostProofs`, for any rings, any number of batches and late ones, and any
interval between checkpoints and intents. `Invariance` is the induction: in the benchmark
the state keeps `BInv`, in the demonstration nothing is issued twice. `BInv` knows what
lies in the ring from the reader's counter on (`Ring`) and in the queue behind it
(`Queue`): a recovery, of which some items are in the ring and the others in the queue,
and batches in order behind it. The ring is long enough for nothing in particular; a
slot is `n % Capacity`, and that two numbers less than `Capacity` apart have different
slots is most of the arithmetic. Then:

* `AlwaysTyped` and `CountsAreTrue` (`CountsTrue`), from `Sizes`: every snapshot, in the
  ring, in the queue or held by the host, every checkpoint under way and the model have
  the count of their cursor, until two are mixed.
* `LossesAreNoticed` (`NothingLostQuietly`), from `Covered`: whatever an active host has not
  had is before it in the ring, or the batch at hand, or dropped without anything behind
  it, or a snapshot on its way replaces it, or a request for one is under way. It holds in both
  races.
* `AnsweredOnce` (`NeverTwice`), from `Order`: while neither race has happened, the ring never
  holds more than its capacity, at most one `resume` is under way, its barrier is not
  before any batch the host has answered, and a host that is still active when a `resume` is
  on its way meets the snapshot first. An active host answers only what is behind its
  cursor.

Model-checked only: the liveness properties (out of the prover's reach);
`ReservationCovers`, which `oms_second_amend` shows to be false beyond two commands, and
`TruthResolves`, which fails at three, where two amends get the same number (section 6);
and, of the demonstration in `PrototypeHost`, types and `CountsTrue`: its key `s` replays
batches by a recursive function, and what that computes is induction over data.

## 9. Not modelled

`PROJECT.json` gives the reason for each component. In short: codecs, parsing,
signing, credential storage and tools carry no protocol; the simulated venue
served to see what the code expects of a venue; risk and economics are arithmetic
with reference values in their tests; the account coordinator, operational gates,
failover, cutover and the files of the durable store have protocols of their own that
are left out for their size. Of the evidence scripts only the Linux chain is modelled;
`run-12-windows.py` and its audit and seal repeat its pattern on Windows.

Hazards of the modelled code that no property covers: a crash between append and
commit leaves a tail that every later attach refuses until an operator repairs the
stream (`execution_gateway.zig:375`, deliberate; `Recovers` is about committed streams);
the account latch is changed in memory without a record and survives in a snapshot only
(`execution_gateway.zig:1390`); the behaviour of section 6.

-------------------------- MODULE DispatchGateway --------------------------
(***************************************************************************)
(* The durable dispatch journal of the execution gateway                   *)
(* (src/src/execution/execution_gateway.zig) together with the part of the *)
(* archive owner that drives it (src/src/runtime/demo/demo_authority.zig). *)
(*                                                                         *)
(* The gateway is the only code that hands an order command to a venue     *)
(* adapter.  It journals every attempt before the adapter sees it, journals *)
(* acceptance after, keeps the outcome of both in memory, checkpoints that *)
(* memory as a snapshot, and forgets a command only when the order's        *)
(* evidence has moved into the business history.  One account, one origin  *)
(* and one route are modelled: every table of the gateway is keyed by      *)
(* them and rows of different keys never meet.                             *)
(*                                                                         *)
(* A handler that performs several durable steps is split at each of them, *)
(* so that a crash or a store failure can fall between any two.  `pc' is   *)
(* the step the handler has reached and `rec' the record it is writing.    *)
(***************************************************************************)
EXTENDS Integers, Sequences, FiniteSets

CONSTANTS
    Command,        \* command identities of the OMS outbox
    Order,          \* order identities
    OrderOf,        \* [Command -> Order]
    OpOf,           \* [Command -> {"place", "amend", "cancel"}]
    Increasing,     \* the commands that would increase risk
    MaxRecords,     \* max_dispatch_records: rows of both in-memory tables
    NoOrder,        \* the absent last_order_archive
    SnapshotsSurvive, \* whether a sealed decision snapshot outlives a restart
    MaxRecon,       \* bound: reconciliation identities per order
    MaxRoot,        \* bound: business-history generations
    LateResults,    \* bound: whether a result may come after the order's end
    MaxFaults       \* bound: crashes and store failures

ASSUME GatewayAssumption ==
    /\ OrderOf \in [Command -> Order]
    /\ OpOf \in [Command -> {"place", "amend", "cancel"}]
    /\ Increasing \subseteq {c \in Command : OpOf[c] # "cancel"}
    /\ MaxRecords \in Nat /\ SnapshotsSurvive \in BOOLEAN
    /\ NoOrder \notin Order /\ LateResults \in BOOLEAN
    /\ MaxRecon \in Nat /\ MaxRoot \in Nat /\ MaxFaults \in Nat

VARIABLES
    pc,        \* where the gateway's current handler stands; "down" between processes
    rec,       \* the durable record that handler writes
    mem,       \* the gateway's tables: dispatch rows, archive binding, latch
    cand,      \* the candidate tables of a recovery or of an archive handler
    idx,       \* tail records replayed so far during recovery
    disk,      \* the dispatch stream in the durable store
    gate,      \* the store's safety gate: "closed" until the process restarts
    shard,     \* the decision owner's committed shard
    old,       \* an earlier committed snapshot of it that may still be used to send
    sawNew,    \* this process observed authority from a shard newer than `old'
    wire,      \* ghost: times each command was handed to the adapter
    told,      \* ghost: the row behind the durable answer each caller received
    history,   \* the dispatch rows published to the business history
    faults     \* ghost: crashes and store failures so far

storeVars == <<disk, gate>>
shardVars == <<shard, old, history>>
ghosts == <<wire, told, faults>>
vars == <<pc, rec, mem, cand, idx, disk, gate, shard, old, sawNew, wire, told,
          history, faults>>

-----------------------------------------------------------------------------
(* Data.                                                                   *)

Status == {"found_live", "found_terminal", "confirmed_absent", "unresolved"}
Resolved == Status \ {"unresolved"}
OrderState == {"none", "pending_submit", "pending_amend", "pending_cancel",
               "live", "terminal", "unknown", "archived"}

\* A row of accepted_dispatches or uncertain_dispatches.
Row == [st : {"none", "accepted", "uncertain"}, prior : Nat, id : Nat, status : Status]
NoRow == [st |-> "none", prior |-> 0, id |-> 0, status |-> "unresolved"]

Tables == [row : [Command -> Row], bound : Nat, orderRoot : Nat, latched : BOOLEAN]
EmptyTables == [row |-> [c \in Command |-> NoRow], bound |-> 0, orderRoot |-> 0,
                latched |-> FALSE]

Record == [kind : {"dispatch"}, cmd : Command, prior : Nat]
    \cup [kind : {"accepted"}, cmd : Command]
    \cup [kind : {"resolution"}, cmd : Command, id : Nat, status : Status]
    \cup [kind : {"archive"}, order : Order, root : Nat]
    \cup [kind : {"economic"}, root : Nat]
NoRecord == [kind |-> "none"]
Checkpoint == [kind |-> "checkpoint"]

OrderView == [state : OrderState, rev : Nat, submitted : BOOLEAN,
              recon : Nat, status : Status, reconRev : Nat]
NoOrderView == [state |-> "none", rev |-> 0, submitted |-> FALSE,
                recon |-> 0, status |-> "unresolved", reconRev |-> 0]
ShardView == [ord : [Order -> OrderView], cmdRev : [Command -> Nat], root : Nat,
              last : Order \cup {NoOrder}, orderRoot : Nat,
              kind : {"none", "order", "other"}]
Stream == [snap : Tables, tail : Seq(Record), committed : Nat, sealed : BOOLEAN]

CommandsOf(o) == {c \in Command : OrderOf[c] = o}
Recorded(t) == {c \in Command : t.row[c].st # "none"}
Unsettled(t, o) == {c \in CommandsOf(o) : t.row[c].st = "uncertain" /\ t.row[c].id = 0}
BudgetFull(t) == Cardinality(Recorded(t)) >= MaxRecords

-----------------------------------------------------------------------------
(* The gateway's tables.                                                   *)

\* markUncertain
MarkUncertain(t, c, prior) ==
    [t EXCEPT !.row[c] = [st |-> "uncertain", prior |-> prior, id |-> 0,
                          status |-> "unresolved"]]

\* Mutant of MarkAccepted: the outcome is written to the wrong field.
MarkAcceptedWrongField(t, c) == [t EXCEPT !.row[c] = [t.row[c] EXCEPT !.status = "accepted"]]

\* restoreAcceptedDispatch, and the acceptance branch of sendProofInternal
MarkAccepted(t, c) ==
    [t EXCEPT !.row[c] = [t.row[c] EXCEPT !.st = "accepted"]]

\* The assignment of a resolution; the row stays as a tombstone.
Settle(t, c, id, status) ==
    [t EXCEPT !.row[c] = [t.row[c] EXCEPT !.id = id, !.status = status]]

\* applyDispatchArchive: bind the root and forget the rows of the order.
Retire(t, o, root) ==
    [t EXCEPT !.row = [c \in Command |-> IF OrderOf[c] = o THEN NoRow ELSE t.row[c]],
              !.bound = root, !.orderRoot = root]

\* applyEconomicHistory: bind the root, keep every row.
Bind(t, root) == [t EXCEPT !.bound = root]

Latch(t) == [t EXCEPT !.latched = TRUE]

\* history.verifyReceipt against the bound root, or the identical root again.
ChainsFrom(t, root) == root \in {t.bound, t.bound + 1} /\ root > 0

\* Mutant of Accepts: acceptance is expected where no attempt is known.
AcceptsAckFirst(t, r) ==
    \/ r.kind \in {"dispatch", "accepted"} /\ t.row[r.cmd].st = "none"
    \/ r.kind = "resolution" /\ t.row[r.cmd].st = "uncertain"
    \/ r.kind \in {"archive", "economic"} /\ ChainsFrom(t, r.root)

\* The conditions under which recovery accepts a record, and what it does.
Accepts(t, r) ==
    \/ r.kind = "dispatch" /\ t.row[r.cmd].st = "none" /\ ~BudgetFull(t)
    \/ r.kind \in {"resolution", "accepted"}
         /\ t.row[r.cmd].st = "uncertain" /\ t.row[r.cmd].id = 0
    \/ r.kind = "archive" /\ ChainsFrom(t, r.root) /\ Unsettled(t, r.order) = {}
    \/ r.kind = "economic" /\ ChainsFrom(t, r.root)

\* Mutant of Apply: recovery skips acceptance records.
ApplySkipsAccepted(t, r) ==
    CASE r.kind = "dispatch"   -> MarkUncertain(t, r.cmd, r.prior)
      [] r.kind = "resolution" -> Settle(t, r.cmd, r.id, r.status)
      [] r.kind = "archive"    -> Retire(t, r.order, r.root)
      [] r.kind = "economic"   -> Bind(t, r.root)
      [] OTHER                 -> t

Apply(t, r) ==
    CASE r.kind = "dispatch"   -> MarkUncertain(t, r.cmd, r.prior)
      [] r.kind = "resolution" -> Settle(t, r.cmd, r.id, r.status)
      [] r.kind = "accepted"   -> MarkAccepted(t, r.cmd)
      [] r.kind = "archive"    -> Retire(t, r.order, r.root)
      [] r.kind = "economic"   -> Bind(t, r.root)
      [] OTHER                 -> t

-----------------------------------------------------------------------------
(* The decision owner's shard: what the gateway reads of it.               *)

PendingState == [op \in {"place", "amend", "cancel"} |->
    CASE op = "place" -> "pending_submit"
      [] op = "amend" -> "pending_amend"
      [] op = "cancel" -> "pending_cancel"]

\* The command is in the outbox and is still the order's current command.
Current(v, c) ==
    LET o == v.ord[OrderOf[c]] IN
    v.cmdRev[c] # 0 /\ o.rev = v.cmdRev[c] /\ o.state = PendingState[OpOf[c]]

\* The venue may know the order: its place command reached the adapter.
Reached(o) == \E c \in CommandsOf(o) : OpOf[c] = "place" /\ wire[c] > 0

Init ==
    /\ pc = "idle" /\ rec = NoRecord /\ mem = EmptyTables /\ cand = EmptyTables
    /\ idx = 0 /\ gate = "open"
    /\ disk = [snap |-> EmptyTables, tail |-> <<>>, committed |-> 0, sealed |-> FALSE]
    /\ shard = [ord |-> [o \in Order |-> NoOrderView], cmdRev |-> [c \in Command |-> 0],
                root |-> 0, last |-> NoOrder, orderRoot |-> 0, kind |-> "none"]
    /\ old = shard /\ sawNew = FALSE
    /\ wire = [c \in Command |-> 0] /\ told = [c \in Command |-> NoRow]
    /\ history = [c \in Command |-> NoRow] /\ faults = 0

\* The shard qualifies an intent and its OMS emits the command.
Issue(c) ==
    LET o == OrderOf[c]
        was == shard.ord[o]
        rev == IF OpOf[c] = "cancel" THEN was.rev ELSE was.rev + 1
    IN
    /\ shard.cmdRev[c] = 0
    /\ CASE OpOf[c] = "place" -> was.state = "none"
         [] OpOf[c] = "amend" -> was.state = "live"
         [] OpOf[c] = "cancel" -> was.state \in {"pending_submit", "pending_amend", "live"}
    /\ shard' = [shard EXCEPT !.cmdRev[c] = rev,
         !.ord[o] = [was EXCEPT !.rev = rev, !.state = PendingState[OpOf[c]]]]
    /\ UNCHANGED <<pc, rec, mem, cand, idx, storeVars, old, sawNew, ghosts, history>>

\* An OrderDispatchResult of the adapter, submitted or unknown, is applied
\* whatever has become of the order since (applyDispatchInPlace); after its
\* end only where the bound LateResults allows it.
DispatchResult(c, state) ==
    LET o == OrderOf[c]
        was == shard.ord[o]
    IN
    /\ shard.cmdRev[c] # 0 /\ was.state # "archived" /\ mem.row[c].st # "none"
    /\ was.state = "terminal" => LateResults
    /\ shard' = [shard EXCEPT !.ord[o] =
         [was EXCEPT !.submitted = TRUE,
                     !.state = IF state = "unknown" THEN "unknown" ELSE was.state]]
    /\ UNCHANGED <<pc, rec, mem, cand, idx, storeVars, old, sawNew, ghosts, history>>

\* An ExecutionReport moves an order the venue knows.
Report(o, state) ==
    /\ Reached(o)
    /\ shard.ord[o].state \notin {"none", "terminal", "archived", state}
    /\ shard' = [shard EXCEPT !.ord[o] = [shard.ord[o] EXCEPT !.state = state]]
    /\ UNCHANGED <<pc, rec, mem, cand, idx, storeVars, old, sawNew, ghosts, history>>

\* The evidence the OMS demands of a reconciliation result (applyReconciliation,
\* canConfirmAbsent), and the state it leaves.
Reconcilable(o, status) ==
    LET was == shard.ord[o] IN
    /\ was.state \notin {"none", "archived"}
    /\ \/ status = "unresolved" /\ was.state # "terminal"
       \/ status = "found_live" /\ Reached(o) /\ was.state # "terminal"
       \/ status = "found_terminal" /\ Reached(o)
       \/ status = "confirmed_absent"
            /\ was.state = "unknown" /\ was.submitted /\ was.status = "unresolved"
            /\ was.rev = 1

ReconciledState(o, status) ==
    CASE status = "unresolved" -> "unknown"
      [] status = "found_live" ->
           IF shard.ord[o].state = "pending_cancel" THEN "pending_cancel" ELSE "live"
      [] OTHER -> "terminal"

Reconcile(o, status) ==
    LET was == shard.ord[o] IN
    /\ was.recon < MaxRecon
    /\ Reconcilable(o, status)
    /\ shard' = [shard EXCEPT !.ord[o] =
         [was EXCEPT !.recon = was.recon + 1, !.status = status, !.reconRev = was.rev,
                     !.state = ReconciledState(o, status)]]
    /\ UNCHANGED <<pc, rec, mem, cand, idx, storeVars, old, sawNew, ghosts, history>>

\* While an amend is unanswered the venue may still show the old revision.
ReconcileOldRevision(o) ==
    LET was == shard.ord[o] IN
    /\ was.recon < MaxRecon
    /\ was.state = "pending_amend" /\ Reached(o)
    /\ was.rev > 1
    /\ shard' = [shard EXCEPT !.ord[o] =
         [was EXCEPT !.recon = was.recon + 1, !.status = "found_live",
                     !.reconRev = was.rev - 1]]
    /\ UNCHANGED <<pc, rec, mem, cand, idx, storeVars, old, sawNew, ghosts, history>>

\* The owner seals a decision snapshot and hands it to the execution role, which
\* wants one only while some command is pending.
TakeSnapshot ==
    /\ old # shard /\ \E c \in Command : Current(shard, c)
    /\ old' = shard /\ sawNew' = FALSE
    /\ UNCHANGED <<pc, rec, mem, cand, idx, storeVars, shard, history, ghosts>>

ShardStep ==
    \/ \E c \in Command : Issue(c) \/ \E s \in {"submitted", "unknown"} : DispatchResult(c, s)
    \/ \E o \in Order : \/ \E s \in {"live", "terminal"} : Report(o, s)
                        \/ \E s \in Status : Reconcile(o, s)
                        \/ ReconcileOldRevision(o)
    \/ TakeSnapshot

\* A handler reads the shard in its first step only, so a step of the shard
\* commutes with the handler's later ones: it is enough to take it between them.
ShardNext == pc \in {"idle", "down"} /\ ShardStep

-----------------------------------------------------------------------------
(* Sending: sendFromShard.                                                 *)

Idle == pc = "idle" /\ gate = "open"

\* Mutant of BindingAdmits: any committed view may send.
BindingAdmitsAny(v) == TRUE

\* A view older than the bound business history may show an archived order
\* as pending; the binding refuses it.
BindingAdmits(v) == mem.bound = 0 \/ v.root >= mem.bound

\* The authority facts of a stale view are refused once this process has
\* observed a newer barrier (observeAuthorityFromShard).
Authorised(v) == (v = shard) \/ (v = old /\ ~sawNew)

BeginSend(c, v) ==
    /\ Idle
    /\ Authorised(v) /\ Current(v, c) /\ BindingAdmits(v)
    /\ mem.row[c].st = "none"
    /\ ~BudgetFull(mem)
    /\ rec' = [kind |-> "dispatch", cmd |-> c, prior |-> v.ord[OrderOf[c]].recon]
    /\ pc' = "append"
    /\ sawNew' = (sawNew \/ v # old)
    /\ UNCHANGED <<mem, cand, idx, storeVars, shardVars, ghosts>>

\* sendProofInternal refuses after the attempt is already durable: a latched
\* route and a risk-increasing command, or any authority fact that changed.
Refuse ==
    /\ pc = "adapter"
    /\ mem' = MarkUncertain(mem, rec.cmd, rec.prior)
    /\ pc' = "idle" /\ rec' = NoRecord
    /\ UNCHANGED <<cand, idx, storeVars, shardVars, sawNew, ghosts>>

MayReachAdapter == pc = "adapter" /\ ~(mem.latched /\ rec.cmd \in Increasing)

AdapterAccepts ==
    /\ MayReachAdapter
    /\ wire' = [wire EXCEPT ![rec.cmd] = @ + 1]
    /\ mem' = MarkAccepted(MarkUncertain(mem, rec.cmd, rec.prior), rec.cmd)
    /\ rec' = [kind |-> "accepted", cmd |-> rec.cmd]
    /\ pc' = "append"
    /\ UNCHANGED <<cand, idx, storeVars, shardVars, sawNew, told, faults>>

\* Backpressure or a stopped adapter: the outcome is left uncertain.
AdapterDeclines ==
    /\ MayReachAdapter
    /\ wire' = [wire EXCEPT ![rec.cmd] = @ + 1]
    /\ mem' = MarkUncertain(mem, rec.cmd, rec.prior)
    /\ pc' = "idle" /\ rec' = NoRecord
    /\ UNCHANGED <<cand, idx, storeVars, shardVars, sawNew, told, faults>>

\* Mutant of AdapterFails: the failed attempt is not remembered.
AdapterFailsForgets ==
    /\ MayReachAdapter
    /\ wire' = [wire EXCEPT ![rec.cmd] = @ + 1]
    /\ mem' = Latch(mem)
    /\ pc' = "idle" /\ rec' = NoRecord
    /\ UNCHANGED <<cand, idx, storeVars, shardVars, sawNew, told, faults>>

\* An adapter error latches the route as well (sendRequestForRoute).
AdapterFails ==
    /\ MayReachAdapter
    /\ wire' = [wire EXCEPT ![rec.cmd] = @ + 1]
    /\ mem' = Latch(MarkUncertain(mem, rec.cmd, rec.prior))
    /\ pc' = "idle" /\ rec' = NoRecord
    /\ UNCHANGED <<cand, idx, storeVars, shardVars, sawNew, told, faults>>

\* observeAdapterOutput: an unknown dispatch result or an unresolved
\* reconciliation, of the account at any time, latches the account.
ObserveUnknown ==
    /\ pc = "idle" /\ ~mem.latched
    /\ mem' = Latch(mem)
    /\ UNCHANGED <<pc, rec, cand, idx, storeVars, shardVars, sawNew, ghosts>>

-----------------------------------------------------------------------------
(* Settling an uncertain dispatch: reconcileRecoveredDispatch.             *)

\* The order's last reconciliation is newer than the attempt, speaks of the
\* command's revision and agrees with the state the shard has.
Reconciled(v, c) ==
    LET o == v.ord[OrderOf[c]] IN
    /\ o.recon > mem.row[c].prior
    /\ o.reconRev >= v.cmdRev[c]
    /\ \/ o.status = "found_live" /\ o.state = "live"
       \/ o.status \in {"found_terminal", "confirmed_absent"} /\ o.state = "terminal"

\* Mutant of BeginResolve: a settled dispatch is settled again.
BeginResolveAgain(c) ==
    /\ Idle
    /\ shard.cmdRev[c] # 0
    /\ mem.row[c].st = "uncertain"
    /\ Reconciled(shard, c)
    /\ rec' = [kind |-> "resolution", cmd |-> c, id |-> shard.ord[OrderOf[c]].recon,
               status |-> shard.ord[OrderOf[c]].status]
    /\ pc' = "append"
    /\ UNCHANGED <<mem, cand, idx, storeVars, shardVars, sawNew, ghosts>>

BeginResolve(c) ==
    /\ Idle
    /\ shard.cmdRev[c] # 0
    /\ mem.row[c].st = "uncertain" /\ mem.row[c].id = 0
    /\ Reconciled(shard, c)
    /\ rec' = [kind |-> "resolution", cmd |-> c, id |-> shard.ord[OrderOf[c]].recon,
               status |-> shard.ord[OrderOf[c]].status]
    /\ pc' = "append"
    /\ UNCHANGED <<mem, cand, idx, storeVars, shardVars, sawNew, ghosts>>

-----------------------------------------------------------------------------
(* Writing one record: store.append and store.commit.                      *)

Appended(d) == [d EXCEPT !.tail = Append(@, rec)]
Committed(d) == [d EXCEPT !.committed = Len(d.tail)]

\* What the failure branches of the four writers leave in memory.
\* `noted' says whether the attempt itself is remembered.
AfterFailure(noted) ==
    CASE rec.kind = "dispatch" /\ noted -> Latch(MarkUncertain(mem, rec.cmd, rec.prior))
      [] rec.kind = "accepted" ->
           Latch(MarkUncertain(mem, rec.cmd, mem.row[rec.cmd].prior))
      [] rec.kind \in {"dispatch", "resolution"} -> Latch(mem)
      [] OTHER -> mem

\* Mutant of AppendRecord: the command is sent before its record is committed.
AppendRecordThenSend ==
    /\ pc = "append" /\ ~disk.sealed
    /\ disk' = Appended(disk)
    /\ pc' = IF rec.kind = "dispatch" THEN "adapter" ELSE "commit"
    /\ UNCHANGED <<rec, mem, cand, idx, gate, shardVars, sawNew, ghosts>>

AppendRecord ==
    /\ pc = "append" /\ ~disk.sealed
    /\ disk' = Appended(disk)
    /\ pc' = "commit"
    /\ UNCHANGED <<rec, mem, cand, idx, gate, shardVars, sawNew, ghosts>>

\* A sealed segment refuses the record; any other failure is a fault of the
\* device and may have left the record in the file.  Both close the gate.
AppendFails ==
    /\ pc = "append"
    /\ \/ disk.sealed /\ UNCHANGED <<disk, faults>>
       \/ /\ faults < MaxFaults /\ faults' = faults + 1
          /\ ~disk.sealed /\ disk' \in {disk, Appended(disk)}
    /\ gate' = "closed"
    /\ mem' = AfterFailure(FALSE)
    /\ pc' = "idle" /\ rec' = NoRecord /\ cand' = EmptyTables
    /\ UNCHANGED <<idx, shardVars, sawNew, wire, told>>

\* After the commit each writer takes its own next step.
CommitRecord ==
    /\ pc = "commit"
    /\ disk' = Committed(disk)
    /\ \/ /\ rec.kind = "dispatch"
          /\ pc' = "adapter" /\ UNCHANGED <<rec, mem, told>>
       \/ /\ rec.kind = "resolution"
          /\ mem' = Settle(mem, rec.cmd, rec.id, rec.status)
          /\ told' = [told EXCEPT ![rec.cmd] = mem'.row[rec.cmd]]
          /\ pc' = "idle" /\ rec' = NoRecord
       \/ /\ rec.kind = "accepted"
          /\ told' = [told EXCEPT ![rec.cmd] = mem.row[rec.cmd]]
          /\ pc' = "idle" /\ rec' = NoRecord /\ UNCHANGED mem
       \/ /\ rec.kind \in {"archive", "economic"}
          /\ pc' = "seal" /\ UNCHANGED <<rec, mem, told>>
    /\ UNCHANGED <<cand, idx, gate, shardVars, sawNew, wire, faults>>

CommitFails ==
    /\ pc = "commit" /\ faults < MaxFaults /\ faults' = faults + 1
    /\ disk' \in {disk, Committed(disk)}
    /\ gate' = "closed"
    /\ mem' = AfterFailure(TRUE)
    /\ pc' = "idle" /\ rec' = NoRecord /\ cand' = EmptyTables
    /\ UNCHANGED <<idx, shardVars, sawNew, wire, told>>

-----------------------------------------------------------------------------
(* Moving evidence to the business history: the archive owner's handlers.  *)

\* Mutant of PreviousComplete: an archive starts whatever the last one left.
PreviousCompleteUnchecked == TRUE

\* completePreviousOrderArchive has nothing left to do.
PreviousComplete ==
    shard.orderRoot # 0 => mem.orderRoot = shard.orderRoot /\ ~disk.sealed

\* acknowledgeEconomicHistory has returned for the shard's last economic root.
Acknowledged ==
    shard.kind = "other" =>
        /\ mem.bound = shard.root
        /\ disk.snap = mem /\ disk.tail = <<>> /\ ~disk.sealed

\* exportOrderDispatchEvidence and prepareOrderArchive: the order is terminal
\* and reconciled so, nothing about it is still unknown, and an order the shard
\* submitted has evidence.
Archivable(o) ==
    /\ shard.ord[o].state = "terminal" /\ shard.ord[o].status = "found_terminal"
    /\ Unsettled(mem, o) = {}
    /\ shard.ord[o].submitted => Recorded(mem) \cap CommandsOf(o) # {}

\* archiveTerminalOrder up to its call of reclaimOrderDispatchEvidence: the
\* rows are published, then the shard commits the root and forgets the order.
ArchiveOrder(o) ==
    /\ Idle /\ shard.root < MaxRoot
    /\ PreviousComplete /\ Acknowledged /\ Archivable(o)
    /\ history' = [c \in Command |-> IF OrderOf[c] = o THEN mem.row[c] ELSE history[c]]
    /\ shard' = [shard EXCEPT
         !.ord[o] = [NoOrderView EXCEPT !.state = "archived"],
         !.cmdRev = [c \in Command |-> IF OrderOf[c] = o THEN 0 ELSE shard.cmdRev[c]],
         !.root = @ + 1, !.orderRoot = shard.root + 1, !.last = o, !.kind = "order"]
    /\ pc' = "archived"
    /\ UNCHANGED <<rec, mem, cand, idx, storeVars, old, sawNew, ghosts>>

\* archiveFillHistory and its siblings: a root that retires no dispatch row.
ArchiveEconomic ==
    /\ Idle /\ shard.root < MaxRoot
    /\ PreviousComplete /\ Acknowledged
    /\ shard' = [shard EXCEPT !.root = @ + 1, !.kind = "other"]
    /\ pc' = "archived"
    /\ UNCHANGED <<rec, mem, cand, idx, storeVars, old, history, sawNew, ghosts>>

\* The root is journalled unless it is bound already; then the checkpoint.
CatchUp(r) ==
    /\ pc \in {"idle", "archived"} /\ gate = "open"
    /\ Accepts(mem, r)
    /\ rec' = r /\ cand' = Apply(mem, r)
    /\ pc' = IF mem.bound = r.root THEN "seal" ELSE "append"
    /\ UNCHANGED <<mem, idx, storeVars, shardVars, sawNew, ghosts>>

\* reclaimOrderDispatchEvidence, called at the end of an order archive, by
\* completePreviousOrderArchive and by resumeOrderArchive.
Reclaim ==
    /\ shard.kind = "order" /\ shard.orderRoot = shard.root
    /\ CatchUp([kind |-> "archive", order |-> shard.last, root |-> shard.root])

\* acknowledgeEconomicHistory
Acknowledge ==
    /\ shard.kind = "other"
    /\ CatchUp([kind |-> "economic", root |-> shard.root])

\* completePreviousOrderArchive finds its checkpoint cut short after the seal.
FinishCheckpoint ==
    /\ Idle
    /\ shard.orderRoot # 0 /\ mem.orderRoot = shard.orderRoot /\ disk.sealed
    /\ rec' = Checkpoint /\ cand' = mem /\ pc' = "seal"
    /\ UNCHANGED <<mem, idx, storeVars, shardVars, sawNew, ghosts>>

-----------------------------------------------------------------------------
(* checkpointDurableDispatch: seal the segment, publish the tables as the  *)
(* snapshot, rotate to an empty segment.                                   *)

Fresh(d) == d.tail = <<>> /\ ~d.sealed
Sealed(d) == [d EXCEPT !.sealed = TRUE]
\* Mutant of Published: the snapshot keeps accepted rows only.
PublishedAcceptedOnly(d) ==
    [d EXCEPT !.snap = [cand EXCEPT !.row = [c \in Command |->
                           IF cand.row[c].st = "accepted" THEN cand.row[c] ELSE NoRow]],
              !.tail = <<>>, !.committed = 0]
Published(d) == [d EXCEPT !.snap = cand, !.tail = <<>>, !.committed = 0]
Rotated(d) == [d EXCEPT !.sealed = FALSE]

\* Only checkpoints that work on the live tables latch them on an error; the
\* archive works on a copy that is thrown away.
CheckpointError(t) == IF rec.kind = "archive" THEN t ELSE Latch(t)

CheckpointDone ==
    mem' = cand /\ pc' = "idle" /\ rec' = NoRecord /\ cand' = EmptyTables

\* Nothing was written since the last checkpoint.  An unjournalled change of
\* the latch cannot be checkpointed and is an error.
CheckpointFresh ==
    /\ pc = "seal" /\ Fresh(disk)
    /\ \/ disk.snap = cand /\ CheckpointDone
       \/ /\ disk.snap # cand
          /\ mem' = CheckpointError(mem)
          /\ pc' = "idle" /\ rec' = NoRecord /\ cand' = EmptyTables
    /\ UNCHANGED <<idx, storeVars, shardVars, sawNew, ghosts>>

Seal ==
    /\ pc = "seal" /\ ~Fresh(disk)
    /\ disk' = Sealed(disk)
    /\ pc' = "publish"
    /\ UNCHANGED <<rec, mem, cand, idx, gate, shardVars, sawNew, ghosts>>

\* A snapshot already published at this barrier must be the same bytes.
Publish ==
    /\ pc = "publish"
    /\ disk.tail # <<>> \/ disk.snap = cand
    /\ disk' = Published(disk)
    /\ pc' = "rotate"
    /\ UNCHANGED <<rec, mem, cand, idx, gate, shardVars, sawNew, ghosts>>

Rotate ==
    /\ pc = "rotate"
    /\ disk' = Rotated(disk)
    /\ CheckpointDone
    /\ UNCHANGED <<idx, gate, shardVars, sawNew, ghosts>>

CheckpointFails ==
    /\ \/ pc = "publish" /\ disk.tail = <<>> /\ disk.snap # cand
            /\ UNCHANGED <<disk, faults>>
       \/ /\ faults < MaxFaults /\ faults' = faults + 1
          /\ \/ pc = "seal" /\ ~Fresh(disk) /\ disk' \in {disk, Sealed(disk)}
             \/ pc = "publish" /\ disk' \in {disk, Published(disk)}
                  /\ (disk.tail # <<>> \/ disk.snap = cand)
             \/ pc = "rotate" /\ disk' \in {disk, Rotated(disk)}
    /\ gate' = "closed"
    /\ mem' = CheckpointError(mem)
    /\ pc' = "idle" /\ rec' = NoRecord /\ cand' = EmptyTables
    /\ UNCHANGED <<idx, shardVars, sawNew, wire, told>>

-----------------------------------------------------------------------------
(* Crash and recovery.                                                     *)

\* The process dies, or is restarted because its store gate is closed.  A
\* record that was appended and not committed may or may not be in the file.
Crash ==
    /\ pc # "down"
    /\ \/ gate = "closed" /\ UNCHANGED faults
       \/ gate = "open" /\ faults < MaxFaults /\ faults' = faults + 1
    /\ disk' \in {disk, [disk EXCEPT !.tail = SubSeq(@, 1, disk.committed)]}
    /\ pc' = "down" /\ gate' = "closed"
    /\ rec' = NoRecord /\ mem' = EmptyTables /\ cand' = EmptyTables /\ idx' = 0
    /\ sawNew' = FALSE /\ old' = IF SnapshotsSurvive THEN old ELSE shard
    /\ UNCHANGED <<shard, history, wire, told>>

\* attachRecoveredDurableDispatch up to its loop: a stream whose tail reaches
\* past the committed barrier is refused, and nothing else will attach it.
Recover ==
    /\ pc = "down"
    /\ Len(disk.tail) = disk.committed
    /\ Cardinality(Recorded(disk.snap)) <= MaxRecords
    /\ gate' = "open"
    /\ cand' = disk.snap /\ idx' = 0 /\ pc' = "replay"
    /\ UNCHANGED <<rec, mem, disk, shardVars, sawNew, ghosts>>

ReplayRecord ==
    /\ pc = "replay" /\ idx < Len(disk.tail)
    /\ Accepts(cand, disk.tail[idx + 1])
    /\ cand' = Apply(cand, disk.tail[idx + 1])
    /\ idx' = idx + 1
    /\ UNCHANGED <<pc, rec, mem, storeVars, shardVars, sawNew, ghosts>>

Attach ==
    /\ pc = "replay" /\ idx = Len(disk.tail)
    /\ mem' = cand /\ cand' = EmptyTables /\ idx' = 0 /\ pc' = "idle"
    /\ UNCHANGED <<rec, storeVars, shardVars, sawNew, ghosts>>

-----------------------------------------------------------------------------

Send == \/ \E c \in Command, v \in {shard, old} : BeginSend(c, v)
        \/ Refuse \/ AdapterAccepts \/ AdapterDeclines \/ AdapterFails \/ ObserveUnknown
Write == AppendRecord \/ AppendFails \/ CommitRecord \/ CommitFails
Archive == \/ \E o \in Order : ArchiveOrder(o)
           \/ ArchiveEconomic \/ Reclaim \/ Acknowledge \/ FinishCheckpoint
CheckpointStep == CheckpointFresh \/ Seal \/ Publish \/ Rotate \/ CheckpointFails
Restart == Crash \/ Recover \/ ReplayRecord \/ Attach

GatewayNext == \/ Send \/ Write \/ Archive \/ CheckpointStep \/ Restart
               \/ \E c \in Command : BeginResolve(c)

Next == ShardNext \/ GatewayNext

Spec == Init /\ [][Next]_vars

\* attachRecoveredDurableDispatch is one synchronous call of the starting
\* process: once it may run it runs to its end.
FairSpec == Spec /\ WF_vars(Recover \/ ReplayRecord \/ Attach)

-----------------------------------------------------------------------------
(* Properties.                                                             *)

\* Every variable keeps its type.
TypeOK ==
    /\ pc \in {"down", "replay", "idle", "append", "commit", "adapter", "archived",
               "seal", "publish", "rotate"}
    /\ rec \in Record \cup {NoRecord, Checkpoint}
    /\ mem \in Tables /\ cand \in Tables
    /\ idx \in Nat
    /\ disk \in Stream
    /\ gate \in {"open", "closed"}
    /\ shard \in ShardView /\ old \in ShardView
    /\ sawNew \in BOOLEAN
    /\ wire \in [Command -> Nat] /\ told \in [Command -> Row]
    /\ history \in [Command -> Row]
    /\ faults \in Nat

Archived(c) == shard.ord[OrderOf[c]].state = "archived"

\* A command reaches the venue adapter at most once, whatever crashes, store
\* failures, stale snapshots and archives happen in between.
AtMostOnce == \A c \in Command : wire[c] <= 1

\* The committed stream proves an attempt: by its snapshot or a committed record.
OnDisk(c) ==
    \/ disk.snap.row[c].st # "none"
    \/ \E i \in 1..disk.committed : disk.tail[i].kind = "dispatch" /\ disk.tail[i].cmd = c

\* Whatever reached the adapter can be proved from durable storage alone: from
\* the dispatch stream or, once the order is archived, from a history row whose
\* outcome is known (sendFromShard's write-ahead order, exportOrderDispatchEvidence).
DurableProof ==
    \A c \in Command : wire[c] > 0 =>
        \/ OnDisk(c)
        \/ /\ Archived(c)
           /\ history[c].st = "accepted" \/ history[c].id # 0

\* An answer given to a caller survives restarts and archives unchanged: every
\* later process finds the same row, and after the archive the history has it.
\* An answer that settles an attempt is from a later reconciliation than the last
\* one the attempt knew, also when it was recovered in between
\* (reconcileRecoveredDispatch).
AnswersSurvive ==
    \A c \in Command : told[c].st # "none" =>
        /\ told[c].st = "uncertain" => told[c].id > told[c].prior
        /\ Archived(c) => history[c] = told[c]
        /\ pc = "idle" /\ ~Archived(c) => mem.row[c] = told[c]

\* The gateway is never more than one business-history root behind the shard,
\* so that the root it has to catch up with always chains from the one it bound:
\* one unfinished archive can be resumed after any crash, two never could
\* (completePreviousOrderArchive before every archive).
LagAtMostOne ==
    /\ pc \in {"idle", "archived"} => shard.root \in {mem.bound, mem.bound + 1}
    /\ pc = "archived" /\ shard.kind = "order" => Unsettled(mem, shard.last) = {}

\* Recovery accepts every committed record the gateway's own writers produced.
RecoverableLog ==
    pc = "replay" /\ idx < Len(disk.tail) => Accepts(cand, disk.tail[idx + 1])

\* No command of an order the shard has archived is ever handed to the adapter,
\* although snapshots that still show it pending are around.  (Not so when a
\* snapshot outlives the restart: between the shard's archive commit and the
\* gateway's binding of that root nothing else refuses it.)
NoSendAfterArchive ==
    [][\A c \in Command : wire'[c] > wire[c] => ~Archived(c)]_vars

\* A process that starts with a fully committed stream ends up serving: it does
\* not stay before the stream, or on its way through it, for ever.  (Attach alone
\* leads from there to anywhere else.)
Recovers ==
    []<>(pc \in {"down", "replay"} => Len(disk.tail) > disk.committed)

\* The gateway implements the dispatch contract.
Contract == INSTANCE DispatchContract WITH answer <- [c \in Command |-> told[c].st]
ImplementsContract == Contract!Spec

=============================================================================

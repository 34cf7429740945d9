----------------------- MODULE DispatchGatewayProofs -----------------------
(***************************************************************************)
(* Theorems about DispatchGateway for every value of its constants: types, *)
(* and that a command is handed over at most once; then what the dispatch  *)
(* journal is worth: recovery accepts the log its writers leave, the       *)
(* gateway keeps up with the business history, answers survive, attempts   *)
(* can be proved, and the dispatch contract is implemented.                *)
(*                                                                         *)
(* The second part speaks of the tables that a recovery would build from   *)
(* the stream.  They are a recursive function of it; its invariant says    *)
(* that there is such a function (`Trace') instead of defining it.         *)
(***************************************************************************)
EXTENDS DispatchGateway, TLAPS

-----------------------------------------------------------------------------
(* The operations on the gateway's tables keep their type.                 *)

LEMMA RowsTyped ==
    /\ NoRow \in Row
    /\ EmptyTables \in Tables
    /\ NoOrderView \in OrderView
  BY DEF NoRow, Row, EmptyTables, Tables, Status, NoOrderView, OrderView, OrderState

LEMMA MarkUncertainTyped ==
    ASSUME NEW t \in Tables, NEW c \in Command, NEW n \in Nat
    PROVE  MarkUncertain(t, c, n) \in Tables
  BY DEF MarkUncertain, Tables, Row, Status

LEMMA MarkAcceptedTyped ==
    ASSUME NEW t \in Tables, NEW c \in Command
    PROVE  MarkAccepted(t, c) \in Tables
  BY DEF MarkAccepted, Tables, Row

LEMMA SettleTyped ==
    ASSUME NEW t \in Tables, NEW c \in Command, NEW n \in Nat, NEW s \in Status
    PROVE  Settle(t, c, n, s) \in Tables
  <1> DEFINE r == [t.row[c] EXCEPT !.id = n, !.status = s]
  <1>1. r \in Row
    BY DEF Tables, Row
  <1> HIDE DEF r
  <1>2. [t EXCEPT !.row[c] = r] \in Tables
    BY <1>1 DEF Tables
  <1> QED BY <1>2 DEF Settle, r

LEMMA RetireTyped ==
    ASSUME NEW t \in Tables, NEW o \in Order, NEW n \in Nat
    PROVE  Retire(t, o, n) \in Tables
  BY RowsTyped DEF Retire, Tables

LEMMA BindLatchTyped ==
    ASSUME NEW t \in Tables, NEW n \in Nat
    PROVE  Bind(t, n) \in Tables /\ Latch(t) \in Tables
  BY DEF Bind, Latch, Tables

LEMMA ApplyTyped ==
    ASSUME NEW t \in Tables, NEW r \in Record
    PROVE  Apply(t, r) \in Tables
  <1>1. CASE r \in [kind : {"dispatch"}, cmd : Command, prior : Nat]
    BY <1>1, MarkUncertainTyped DEF Apply
  <1>2. CASE r \in [kind : {"accepted"}, cmd : Command]
    BY <1>2, MarkAcceptedTyped DEF Apply
  <1>3. CASE r \in [kind : {"resolution"}, cmd : Command, id : Nat, status : Status]
    BY <1>3, SettleTyped DEF Apply
  <1>4. CASE r \in [kind : {"archive"}, order : Order, root : Nat]
    BY <1>4, RetireTyped DEF Apply
  <1>5. CASE r \in [kind : {"economic"}, root : Nat]
    BY <1>5, BindLatchTyped DEF Apply
  <1> QED BY <1>1, <1>2, <1>3, <1>4, <1>5 DEF Record


LEMMA RecordKinds ==
    ASSUME NEW r \in Record
    PROVE  /\ r.kind \in {"dispatch", "accepted", "resolution", "archive", "economic"}
           /\ r.kind \in {"dispatch", "accepted", "resolution"} => r.cmd \in Command
           /\ r.kind = "dispatch" => r.prior \in Nat
           /\ r.kind = "resolution" => r.id \in Nat /\ r.status \in Status
           /\ r.kind = "archive" => r.order \in Order
           /\ r.kind \in {"archive", "economic"} => r.root \in Nat
  BY DEF Record

\* The operations on the durable stream keep its type and keep the committed
\* barrier within the tail.
Barred == {d \in Stream : d.committed <= Len(d.tail)}

LEMMA StreamTyped ==
    ASSUME NEW d \in Barred
    PROVE  /\ rec \in Record => Appended(d) \in Barred
           /\ Committed(d) \in Barred
           /\ Sealed(d) \in Barred /\ Rotated(d) \in Barred
           /\ cand \in Tables => Published(d) \in Barred
           /\ [d EXCEPT !.tail = SubSeq(@, 1, d.committed)] \in Barred
  <1>1. /\ d.snap \in Tables /\ d.tail \in Seq(Record) /\ d.committed \in Nat
        /\ d.sealed \in BOOLEAN /\ d.committed <= Len(d.tail)
    BY DEF Barred, Stream
  <1>2. ASSUME rec \in Record PROVE Appended(d) \in Barred
    <2> DEFINE q == Append(d.tail, rec)
    <2>1. q \in Seq(Record) /\ Len(q) = Len(d.tail) + 1
      BY <1>1, <1>2
    <2> HIDE DEF q
    <2>2. [d EXCEPT !.tail = q] \in Barred
      BY <1>1, <2>1 DEF Barred, Stream
    <2> QED BY <2>2 DEF Appended, q
  <1>3. Committed(d) \in Barred
    <2> DEFINE n == Len(d.tail)
    <2>1. n \in Nat /\ n <= Len(d.tail)
      BY <1>1
    <2> HIDE DEF n
    <2>2. [d EXCEPT !.committed = n] \in Barred
      BY <1>1, <2>1 DEF Barred, Stream
    <2> QED BY <2>2 DEF Committed, n
  <1>4. Sealed(d) \in Barred /\ Rotated(d) \in Barred
    BY <1>1 DEF Barred, Stream, Sealed, Rotated
  <1>5. cand \in Tables => Published(d) \in Barred
    <2> DEFINE q == <<>>
    <2>1. q \in Seq(Record) /\ 0 <= Len(q)
      OBVIOUS
    <2> HIDE DEF q
    <2>2. cand \in Tables => [d EXCEPT !.snap = cand, !.tail = q, !.committed = 0] \in Barred
      BY <1>1, <2>1 DEF Barred, Stream
    <2> QED BY <2>2 DEF Published, q
  <1>6. [d EXCEPT !.tail = SubSeq(@, 1, d.committed)] \in Barred
    <2> DEFINE q == SubSeq(d.tail, 1, d.committed)
    <2>1. q \in Seq(Record) /\ Len(q) = d.committed
      BY <1>1
    <2> HIDE DEF q
    <2>2. [d EXCEPT !.tail = q] \in Barred
      BY <1>1, <2>1 DEF Barred, Stream
    <2> QED BY <2>2 DEF q
  <1> QED BY <1>2, <1>3, <1>4, <1>5, <1>6

\* Replacing one order's view keeps the type of the shard's view.
LEMMA OrderViewReplaced ==
    ASSUME NEW v \in ShardView, NEW o \in Order, NEW w \in OrderView
    PROVE  [v EXCEPT !.ord[o] = w] \in ShardView
  BY DEF ShardView

-----------------------------------------------------------------------------
(* Type correctness.                                                       *)

DispatchRecord == [kind : {"dispatch"}, cmd : Command, prior : Nat]

\* What the types of the variables need beyond themselves: the handler that
\* writes holds a record, and the barrier never passes the end of the tail.
TypeInv ==
    /\ TypeOK
    /\ pc \in {"append", "commit"} => rec \in Record
    /\ pc = "adapter" => rec \in DispatchRecord
    /\ disk.committed <= Len(disk.tail)
    /\ shard.kind = "order" => shard.last \in Order

LEMMA RecordRanges ==
    /\ DispatchRecord \subseteq Record
    /\ \A r \in Record : r.kind = "dispatch" => r \in DispatchRecord
    /\ \A c \in Command : [kind |-> "accepted", cmd |-> c] \in Record
    /\ \A c \in Command, n \in Nat, s \in Status :
          [kind |-> "resolution", cmd |-> c, id |-> n, status |-> s] \in Record
    /\ \A o \in Order, n \in Nat : [kind |-> "archive", order |-> o, root |-> n] \in Record
    /\ \A n \in Nat : [kind |-> "economic", root |-> n] \in Record
  BY DEF Record, DispatchRecord

\* What the two archive handlers make of the shard's view.
LEMMA ArchivedViewTyped ==
    ASSUME NEW v \in ShardView
    PROVE  /\ [v EXCEPT !.root = @ + 1, !.kind = "other"] \in ShardView
           /\ \A o \in Order :
                [v EXCEPT !.ord[o] = [NoOrderView EXCEPT !.state = "archived"],
                          !.cmdRev = [c \in Command |-> IF OrderOf[c] = o THEN 0
                                                        ELSE v.cmdRev[c]],
                          !.root = @ + 1, !.orderRoot = v.root + 1, !.last = o,
                          !.kind = "order"] \in ShardView
  <1> DEFINE n == v.root + 1
             w == [NoOrderView EXCEPT !.state = "archived"]
             f(o) == [c \in Command |-> IF OrderOf[c] = o THEN 0 ELSE v.cmdRev[c]]
  <1>1. n \in Nat /\ w \in OrderView /\ \A o \in Order : f(o) \in [Command -> Nat]
    BY RowsTyped DEF ShardView, OrderView, OrderState
  <1> HIDE DEF n, w, f
  <1>2. [v EXCEPT !.root = n, !.kind = "other"] \in ShardView
    BY <1>1 DEF ShardView
  <1>3. \A o \in Order :
           [v EXCEPT !.ord[o] = w, !.cmdRev = f(o), !.root = n, !.orderRoot = n, !.last = o,
                     !.kind = "order"] \in ShardView
    BY <1>1 DEF ShardView
  <1> QED BY <1>2, <1>3 DEF n, w, f

LEMMA InitTyped == Init => TypeInv
  <1> SUFFICES ASSUME Init PROVE TypeInv
    OBVIOUS
  <1>1. shard \in ShardView
    BY RowsTyped DEF Init, ShardView
  <1>2. disk \in Stream /\ disk.committed <= Len(disk.tail)
    BY RowsTyped DEF Init, Stream
  <1> QED BY <1>1, <1>2, RowsTyped DEF Init, TypeInv, TypeOK

LEMMA OrderViewFields ==
    ASSUME NEW v \in ShardView, NEW o \in Order
    PROVE  /\ v.ord[o] \in OrderView
           /\ v.ord[o].rev \in Nat /\ v.ord[o].recon \in Nat /\ v.ord[o].reconRev \in Nat
           /\ v.ord[o].state \in OrderState /\ v.ord[o].status \in Status
  BY DEF ShardView, OrderView

\* An order's view with some fields replaced.
LEMMA OrderViewTyped ==
    ASSUME NEW w \in OrderView, NEW st \in OrderState, NEW n \in Nat
    PROVE  /\ [w EXCEPT !.state = st] \in OrderView
           /\ [w EXCEPT !.rev = n, !.state = st] \in OrderView
           /\ [w EXCEPT !.submitted = TRUE, !.state = st] \in OrderView
  BY DEF OrderView

\* A step of the shard replaces the view of one order, or takes a snapshot.
LEMMA ShardTyped ==
    ASSUME shard \in ShardView, old \in ShardView, ShardNext
    PROVE  shard' \in ShardView /\ old' \in ShardView
  <1>1. ASSUME NEW c \in Command, Issue(c)
        PROVE  shard' \in ShardView /\ old' \in ShardView
    <2> DEFINE o == OrderOf[c]
               rev == IF OpOf[c] = "cancel" THEN shard.ord[o].rev ELSE shard.ord[o].rev + 1
               w == [shard.ord[o] EXCEPT !.rev = rev, !.state = PendingState[OpOf[c]]]
    <2>1. o \in Order /\ OpOf[c] \in {"place", "amend", "cancel"}
      BY GatewayAssumption
    <2>2. rev \in Nat
      BY <2>1, OrderViewFields
    <2>3. PendingState[OpOf[c]] \in OrderState
      BY <2>1 DEF PendingState, OrderState
    <2>4. w \in OrderView
      <3> HIDE DEF rev
      <3> QED BY <2>1, <2>2, <2>3, OrderViewFields, OrderViewTyped
    <2>5. shard' = [shard EXCEPT !.cmdRev[c] = rev, !.ord[o] = w]
      BY <1>1 DEF Issue
    <2> HIDE DEF w, rev, o
    <2>6. [shard EXCEPT !.cmdRev[c] = rev] \in ShardView
      BY <2>2 DEF ShardView
    <2>7. shard' = [[shard EXCEPT !.cmdRev[c] = rev] EXCEPT !.ord[o] = w]
      BY <2>1, <2>5 DEF ShardView
    <2>8. shard' \in ShardView
      BY <2>1, <2>4, <2>6, <2>7, OrderViewReplaced
    <2> QED BY <1>1, <2>8 DEF Issue
  <1>2. ASSUME NEW c \in Command, NEW st \in {"submitted", "unknown"}, DispatchResult(c, st)
        PROVE  shard' \in ShardView /\ old' \in ShardView
    <2> DEFINE o == OrderOf[c]
               s == IF st = "unknown" THEN "unknown" ELSE shard.ord[o].state
               w == [shard.ord[o] EXCEPT !.submitted = TRUE, !.state = s]
    <2>1. o \in Order
      BY GatewayAssumption
    <2>2. s \in OrderState
      BY <2>1, OrderViewFields DEF OrderState
    <2>3. w \in OrderView
      <3> HIDE DEF s
      <3> QED BY <2>1, <2>2, OrderViewFields, OrderViewTyped
    <2>4. shard' = [shard EXCEPT !.ord[o] = w]
      BY <1>2 DEF DispatchResult
    <2> HIDE DEF w, s, o
    <2> QED BY <1>2, <2>1, <2>3, <2>4, OrderViewReplaced DEF DispatchResult
  <1>3. ASSUME NEW o \in Order, NEW st \in {"live", "terminal"}, Report(o, st)
        PROVE  shard' \in ShardView /\ old' \in ShardView
    <2>1. st \in OrderState
      BY DEF OrderState
    <2>2. [shard.ord[o] EXCEPT !.state = st] \in OrderView
      BY <2>1, OrderViewFields, OrderViewTyped
    <2> QED BY <1>3, <2>2, OrderViewReplaced DEF Report
  <1>4. ASSUME NEW o \in Order, NEW st \in Status, Reconcile(o, st)
        PROVE  shard' \in ShardView /\ old' \in ShardView
    <2> DEFINE s == ReconciledState(o, st)
               n == shard.ord[o].recon + 1
               k == shard.ord[o].rev
               w == [shard.ord[o] EXCEPT !.recon = n, !.status = st, !.reconRev = k,
                         !.state = s]
    <2>1. s \in OrderState /\ n \in Nat /\ k \in Nat
      BY OrderViewFields DEF ReconciledState, OrderState
    <2>2. w \in OrderView
      <3>1. shard.ord[o] \in OrderView
        BY OrderViewFields
      <3> HIDE DEF s, n, k
      <3> QED BY <2>1, <3>1 DEF OrderView
    <2>3. shard' = [shard EXCEPT !.ord[o] = w]
      BY <1>4 DEF Reconcile
    <2> HIDE DEF w, s, n, k
    <2> QED BY <1>4, <2>2, <2>3, OrderViewReplaced DEF Reconcile
  <1>5. ASSUME NEW o \in Order, ReconcileOldRevision(o)
        PROVE  shard' \in ShardView /\ old' \in ShardView
    <2> DEFINE n == shard.ord[o].recon + 1
               k == shard.ord[o].rev - 1
               w == [shard.ord[o] EXCEPT !.recon = n, !.status = "found_live",
                         !.reconRev = k]
    <2>1. n \in Nat /\ k \in Nat
      BY <1>5, OrderViewFields DEF ReconcileOldRevision
    <2>2. shard' = [shard EXCEPT !.ord[o] = w]
      BY <1>5 DEF ReconcileOldRevision
    <2>3. w \in OrderView
      <3>1. shard.ord[o] \in OrderView
        BY OrderViewFields
      <3> HIDE DEF n, k
      <3> QED BY <2>1, <3>1 DEF Status, OrderView
    <2> HIDE DEF w, n, k
    <2> QED BY <1>5, <2>2, <2>3, OrderViewReplaced DEF ReconcileOldRevision
  <1>6. CASE TakeSnapshot
    BY <1>6 DEF TakeSnapshot
  <1> QED BY <1>1, <1>2, <1>3, <1>4, <1>5, <1>6 DEF ShardNext, ShardStep

\* A step of the shard leaves the gateway alone.
LEMMA ShardStepLeaves ==
    ASSUME ShardNext
    PROVE  /\ UNCHANGED <<pc, rec, mem, cand, idx, storeVars, ghosts, history>>
           /\ sawNew' \in {sawNew, FALSE}
           /\ shard \in ShardView => /\ shard'.root = shard.root
                                     /\ shard'.orderRoot = shard.orderRoot
                                     /\ shard'.kind = shard.kind
                                     /\ shard'.last = shard.last
  BY DEF ShardNext, ShardStep, Issue, DispatchResult, Report, Reconcile,
         ReconcileOldRevision, TakeSnapshot, storeVars, ghosts, ShardView

LEMMA TableFields ==
    ASSUME NEW t \in Tables, NEW c \in Command
    PROVE  t.row[c] \in Row /\ t.row[c].prior \in Nat /\ t.row[c].id \in Nat
  BY DEF Tables, Row

\* What the failure branches leave in memory is typed.
LEMMA FailureTyped ==
    ASSUME mem \in Tables, NEW b \in BOOLEAN, rec \in Record
    PROVE  AfterFailure(b) \in Tables
  <1>1. CASE rec.kind = "dispatch"
    <2>1. MarkUncertain(mem, rec.cmd, rec.prior) \in Tables
      BY <1>1, RecordKinds, MarkUncertainTyped
    <2>2. Latch(MarkUncertain(mem, rec.cmd, rec.prior)) \in Tables
      BY <2>1, BindLatchTyped
    <2> QED BY <1>1, <2>2, BindLatchTyped DEF AfterFailure
  <1>2. CASE rec.kind = "accepted"
    <2>1. MarkUncertain(mem, rec.cmd, mem.row[rec.cmd].prior) \in Tables
      BY <1>2, RecordKinds, MarkUncertainTyped, TableFields
    <2>2. Latch(MarkUncertain(mem, rec.cmd, mem.row[rec.cmd].prior)) \in Tables
      BY <2>1, BindLatchTyped
    <2> QED BY <1>2, <2>2 DEF AfterFailure
  <1>3. CASE rec.kind \notin {"dispatch", "accepted"}
    BY <1>3, BindLatchTyped DEF AfterFailure
  <1> QED BY <1>1, <1>2, <1>3

LEMMA CheckpointErrorTyped ==
    ASSUME NEW t \in Tables
    PROVE  CheckpointError(t) \in Tables
  BY BindLatchTyped DEF CheckpointError

\* The facts of the type invariant each of the following steps starts from.
LEMMA DispatchRecordFields ==
    ASSUME TypeInv, pc = "adapter"
    PROVE  rec.cmd \in Command /\ rec.prior \in Nat
  BY DEF TypeInv, DispatchRecord

LEMMA TypeStep == TypeInv /\ [Next]_vars => TypeInv'
  <1> SUFFICES ASSUME TypeInv, [Next]_vars PROVE TypeInv'
    OBVIOUS
  <1> USE DEF TypeInv, TypeOK
  <1>0. disk \in Barred /\ (disk' \in Barred =>
              disk' \in Stream /\ disk'.committed <= Len(disk'.tail))
    BY DEF Barred
  <1>1. CASE UNCHANGED vars
    BY <1>1 DEF vars, storeVars, shardVars, ghosts
  <1>2. CASE ShardNext
    BY <1>2, ShardTyped, ShardStepLeaves DEF storeVars, ghosts
  <1>3. ASSUME NEW c \in Command, NEW v \in {shard, old}, BeginSend(c, v)
        PROVE TypeInv'
    <2>1. [kind |-> "dispatch", cmd |-> c, prior |-> v.ord[OrderOf[c]].recon] \in Record
      BY GatewayAssumption, OrderViewFields, RecordRanges DEF DispatchRecord
    <2> QED BY <1>3, <2>1 DEF BeginSend, storeVars, shardVars, ghosts
  <1>4. CASE Refuse
    BY <1>4, DispatchRecordFields, MarkUncertainTyped DEF Refuse, storeVars, shardVars, ghosts
  <1>5. CASE AdapterAccepts
    <2>1. MarkAccepted(MarkUncertain(mem, rec.cmd, rec.prior), rec.cmd) \in Tables
      BY <1>5, DispatchRecordFields, MarkUncertainTyped, MarkAcceptedTyped
         DEF AdapterAccepts, MayReachAdapter
    <2>2. [kind |-> "accepted", cmd |-> rec.cmd] \in Record
      BY <1>5, DispatchRecordFields, RecordRanges DEF AdapterAccepts, MayReachAdapter
    <2>3. wire' \in [Command -> Nat]
      BY <1>5 DEF AdapterAccepts, MayReachAdapter, DispatchRecord
    <2> QED BY <1>5, <2>1, <2>2, <2>3 DEF AdapterAccepts, storeVars, shardVars
  <1>6. CASE AdapterDeclines
    BY <1>6, DispatchRecordFields, MarkUncertainTyped
       DEF AdapterDeclines, MayReachAdapter, storeVars, shardVars
  <1>7. CASE AdapterFails
    BY <1>7, DispatchRecordFields, MarkUncertainTyped, BindLatchTyped
       DEF AdapterFails, MayReachAdapter, storeVars, shardVars
  <1>8. CASE ObserveUnknown
    BY <1>8, BindLatchTyped DEF ObserveUnknown, storeVars, shardVars, ghosts
  <1>9. ASSUME NEW c \in Command, BeginResolve(c)
        PROVE TypeInv'
    <2>1. rec' \in Record
      BY <1>9, GatewayAssumption, OrderViewFields, RecordRanges DEF BeginResolve
    <2> QED BY <1>9, <2>1 DEF BeginResolve, storeVars, shardVars, ghosts
  <1>10. CASE AppendRecord
    <2>1. disk' \in Barred
      BY <1>0, <1>10, StreamTyped DEF AppendRecord
    <2> QED BY <1>0, <1>10, <2>1 DEF AppendRecord, shardVars, ghosts
  <1>11. CASE AppendFails
    <2>1. disk' \in Barred
      BY <1>0, <1>11, StreamTyped DEF AppendFails
    <2>2. mem' \in Tables
      BY <1>11, FailureTyped DEF AppendFails
    <2>9. faults' \in Nat /\ rec' = NoRecord /\ cand' \in Tables
      BY <1>11, RowsTyped DEF AppendFails
    <2> QED BY <1>0, <1>11, <2>1, <2>9, <2>2, RowsTyped DEF AppendFails, shardVars
  <1>12. CASE CommitRecord
    <2>1. disk' \in Barred
      BY <1>0, <1>12, StreamTyped DEF CommitRecord
    <2>2. rec \in Record
      BY <1>12 DEF CommitRecord
    <2>3. CASE rec.kind = "dispatch"
      BY <1>0, <1>12, <2>1, <2>2, <2>3, RecordRanges DEF CommitRecord, shardVars
    <2>4. CASE rec.kind = "resolution"
      <3>1. mem' \in Tables
        BY <1>12, <2>2, <2>4, RecordKinds, SettleTyped DEF CommitRecord
      <3>2. told' \in [Command -> Row]
        BY <1>12, <2>2, <2>4, <3>1, RecordKinds, TableFields DEF CommitRecord
      <3> QED BY <1>0, <1>12, <2>1, <2>4, <3>1, <3>2 DEF CommitRecord, shardVars
    <2>5. CASE rec.kind = "accepted"
      <3>1. told' \in [Command -> Row]
        BY <1>12, <2>2, <2>5, RecordKinds, TableFields DEF CommitRecord
      <3> QED BY <1>0, <1>12, <2>1, <2>5, <3>1 DEF CommitRecord, shardVars
    <2>6. CASE rec.kind \in {"archive", "economic"}
      BY <1>0, <1>12, <2>1, <2>6 DEF CommitRecord, shardVars
    <2> QED BY <1>12, <2>3, <2>4, <2>5, <2>6 DEF CommitRecord
  <1>13. CASE CommitFails
    <2>1. disk' \in Barred
      BY <1>0, <1>13, StreamTyped DEF CommitFails
    <2>2. mem' \in Tables
      BY <1>13, FailureTyped DEF CommitFails
    <2>9. faults' \in Nat /\ rec' = NoRecord /\ cand' \in Tables
      BY <1>13, RowsTyped DEF CommitFails
    <2> QED BY <1>0, <1>13, <2>1, <2>9, <2>2, RowsTyped DEF CommitFails, shardVars
  <1>14. ASSUME NEW o \in Order, ArchiveOrder(o)
         PROVE TypeInv'
    <2>1. history' \in [Command -> Row]
      BY <1>14, TableFields DEF ArchiveOrder
    <2>2. shard' \in ShardView
      BY <1>14, ArchivedViewTyped DEF ArchiveOrder
    <2> QED BY <1>14, <2>1, <2>2 DEF ArchiveOrder, storeVars, ghosts
  <1>15. CASE ArchiveEconomic
    <2>1. shard' \in ShardView
      BY <1>15, ArchivedViewTyped DEF ArchiveEconomic
    <2> QED BY <1>15, <2>1 DEF ArchiveEconomic, storeVars, ghosts
  <1>16. ASSUME NEW r \in Record, CatchUp(r)
         PROVE TypeInv'
    BY <1>16, ApplyTyped DEF CatchUp, storeVars, shardVars, ghosts
  <1>17. CASE Reclaim
    <2>1. shard.root \in Nat /\ shard.last \in Order
      BY <1>17 DEF Reclaim, ShardView
    <2> QED BY <1>16, <1>17, <2>1, RecordRanges DEF Reclaim
  <1>18. CASE Acknowledge
    BY <1>16, <1>18, RecordRanges DEF Acknowledge, ShardView
  <1>19. CASE FinishCheckpoint
    BY <1>19 DEF FinishCheckpoint, storeVars, shardVars, ghosts
  <1>20. CASE CheckpointFresh
    BY <1>20, CheckpointErrorTyped, RowsTyped
       DEF CheckpointFresh, CheckpointDone, storeVars, shardVars, ghosts
  <1>21. CASE Seal
    <2>1. disk' \in Barred
      BY <1>0, <1>21, StreamTyped DEF Seal
    <2> QED BY <1>0, <1>21, <2>1 DEF Seal, shardVars, ghosts
  <1>22. CASE Publish
    <2>1. disk' \in Barred
      BY <1>0, <1>22, StreamTyped DEF Publish
    <2> QED BY <1>0, <1>22, <2>1 DEF Publish, shardVars, ghosts
  <1>23. CASE Rotate
    <2>1. disk' \in Barred
      BY <1>0, <1>23, StreamTyped DEF Rotate
    <2> QED BY <1>0, <1>23, <2>1, RowsTyped DEF Rotate, CheckpointDone, shardVars, ghosts
  <1>24. CASE CheckpointFails
    <2>1. disk' \in Barred
      BY <1>0, <1>24, StreamTyped DEF CheckpointFails
    <2>2. mem' \in Tables
      BY <1>24, CheckpointErrorTyped DEF CheckpointFails
    <2> QED BY <1>0, <1>24, <2>1, <2>2, RowsTyped DEF CheckpointFails, shardVars
  <1>25. CASE Crash
    <2>1. disk' \in Barred
      BY <1>0, <1>25, StreamTyped DEF Crash
    <2>9. faults' \in Nat /\ rec' = NoRecord /\ cand' \in Tables
      BY <1>25, RowsTyped DEF Crash
    <2> QED BY <1>0, <1>25, <2>1, <2>9, RowsTyped DEF Crash
  <1>26. CASE Recover
    <2>1. disk.snap \in Tables
      BY DEF Stream
    <2> QED BY <1>26, <2>1 DEF Recover, shardVars, ghosts
  <1>27. CASE ReplayRecord
    <2>1. disk.tail[idx + 1] \in Record
      BY <1>27 DEF ReplayRecord, Stream
    <2> QED BY <1>27, <2>1, ApplyTyped DEF ReplayRecord, storeVars, shardVars, ghosts
  <1>28. CASE Attach
    BY <1>28, RowsTyped DEF Attach, storeVars, shardVars, ghosts
  <1> QED
    BY <1>1, <1>2, <1>3, <1>4, <1>5, <1>6, <1>7, <1>8, <1>9, <1>10, <1>11, <1>12, <1>13,
       <1>14, <1>15, <1>17, <1>18, <1>19, <1>20, <1>21, <1>22, <1>23, <1>24, <1>25,
       <1>26, <1>27, <1>28
       DEF Next, GatewayNext, Send, Write, Archive, CheckpointStep, Restart

\* Every variable keeps its type, for any commands, orders and bounds.
THEOREM TypeCorrect == Spec => []TypeOK
  <1>1. TypeInv => TypeOK
    BY DEF TypeInv
  <1> QED BY InitTyped, TypeStep, <1>1, PTL DEF Spec

-----------------------------------------------------------------------------
(* At most once.  A command handed to the adapter stays covered: its row is *)
(* in the tables, or its order is archived and no view that the binding     *)
(* admits still has the command.                                            *)

\* Order o is archived, and a snapshot as new as root b has no command of it.
ArchFact(o, b) ==
    /\ shard.ord[o].state = "archived"
    /\ old.root >= b => \A c \in CommandsOf(o) : old.cmdRev[c] = 0

Gone(c, b) == b > 0 /\ ArchFact(OrderOf[c], b)
Covered(t, c) == t.row[c].st # "none" \/ Gone(c, t.bound)
DispatchOf(r, c) == r.kind = "dispatch" /\ r.cmd = c

RootsOrdered == old.root <= shard.root
ArchivedForgotten ==
    \A c \in Command : Archived(c) => shard.cmdRev[c] = 0
LastArchived == shard.kind = "order" => ArchFact(shard.last, shard.root)

\* Every archive record, in the handler or in the tail, speaks the truth.
RecordTrue ==
    pc \in {"append", "commit"} /\ rec.kind = "archive" => ArchFact(rec.order, rec.root)
TailTrue ==
    \A i \in 1..Len(disk.tail) :
        disk.tail[i].kind = "archive" => ArchFact(disk.tail[i].order, disk.tail[i].root)

\* The command about to be sent was never sent, and at the adapter its record
\* is the committed end of the tail.
FirstAttempt ==
    /\ pc \in {"append", "commit"} /\ rec.kind = "dispatch" => wire[rec.cmd] = 0
    /\ pc = "adapter" => wire[rec.cmd] = 0
AtTail ==
    /\ pc \in {"commit", "adapter"} =>
         Len(disk.tail) > 0 /\ disk.tail[Len(disk.tail)] = rec
    /\ pc = "adapter" => disk.committed = Len(disk.tail)

\* Where the handler's candidate tables will replace memory and the snapshot.
Candidate ==
    \/ pc \in {"append", "commit"} /\ rec.kind \in {"archive", "economic"}
    \/ pc \in {"seal", "publish", "rotate"}

MemCovers ==
    pc \notin {"down", "replay"} => \A c \in Command : wire[c] > 0 => Covered(mem, c)
CandCovers ==
    Candidate => \A c \in Command : wire[c] > 0 => Covered(cand, c)
DiskCovers ==
    \A c \in Command : wire[c] > 0 =>
        \/ Covered(disk.snap, c)
        \/ \E i \in 1..disk.committed : DispatchOf(disk.tail[i], c)
ReplayCovers ==
    pc = "replay" =>
        \A c \in Command : wire[c] > 0 =>
            \/ Covered(cand, c)
            \/ \E i \in (idx + 1)..Len(disk.tail) : DispatchOf(disk.tail[i], c)

SendInv ==
    /\ RootsOrdered /\ ArchivedForgotten /\ LastArchived /\ RecordTrue /\ TailTrue
    /\ FirstAttempt /\ AtTail
    /\ MemCovers /\ CandCovers /\ DiskCovers /\ ReplayCovers
    /\ AtMostOnce

\* No step of the shard archives an order or touches an archived one, and only
\* TakeSnapshot changes the snapshot, to the committed view.
LEMMA ShardKeepsArchived ==
    ASSUME TypeInv, ShardNext
    PROVE  /\ \A o \in Order : shard'.ord[o].state = "archived"
                                 <=> shard.ord[o].state = "archived"
           /\ \A c \in Command : Archived(c) => shard'.cmdRev[c] = shard.cmdRev[c]
           /\ \/ old' = old
              \/ old' = shard /\ shard' = shard
  <1>1. shard \in ShardView
    BY DEF TypeInv, TypeOK
  <1>2. \A op \in {"place", "amend", "cancel"} : PendingState[op] # "archived"
    BY DEF PendingState
  <1>3. ASSUME NEW x \in Order, NEW w, shard' = [shard EXCEPT !.ord[x] = w], old' = old,
               w.state # "archived", shard.ord[x].state # "archived"
        PROVE  /\ \A o \in Order : shard'.ord[o].state = "archived"
                                     <=> shard.ord[o].state = "archived"
               /\ \A c \in Command : shard'.cmdRev[c] = shard.cmdRev[c]
    BY <1>1, <1>3 DEF ShardView
  <1>4. ASSUME NEW c \in Command, Issue(c)
        PROVE  /\ \A o \in Order : shard'.ord[o].state = "archived"
                                     <=> shard.ord[o].state = "archived"
               /\ \A d \in Command : Archived(d) => shard'.cmdRev[d] = shard.cmdRev[d]
               /\ old' = old
    <2> DEFINE x == OrderOf[c]
               rev == IF OpOf[c] = "cancel" THEN shard.ord[x].rev ELSE shard.ord[x].rev + 1
               w == [shard.ord[x] EXCEPT !.rev = rev, !.state = PendingState[OpOf[c]]]
    <2>1. x \in Order /\ OpOf[c] \in {"place", "amend", "cancel"}
      BY GatewayAssumption
    <2>2. shard' = [shard EXCEPT !.cmdRev[c] = rev, !.ord[x] = w]
      BY <1>4 DEF Issue
    <2>3. shard.ord[x].state # "archived" /\ old' = old
      <3>1. /\ shard.ord[x].state \in {"none", "live", "pending_submit", "pending_amend"}
            /\ old' = old
        BY <1>4, <2>1 DEF Issue
      <3> QED BY <3>1
    <2>4. w.state # "archived"
      BY <1>1, <1>2, <2>1, OrderViewFields DEF OrderView
    <2> HIDE DEF w, rev
    <2>5. \A d \in Command : Archived(d) => d # c
      BY <2>3 DEF Archived
    <2> HIDE DEF x
    <2>6. shard'.cmdRev = [shard.cmdRev EXCEPT ![c] = rev]
      BY <1>1, <2>2 DEF ShardView
    <2>7. shard'.ord = [shard.ord EXCEPT ![x] = w]
      BY <1>1, <2>2 DEF ShardView
    <2> QED BY <1>1, <2>1, <2>3, <2>4, <2>5, <2>6, <2>7 DEF ShardView
  <1>5. ASSUME NEW c \in Command, NEW st \in {"submitted", "unknown"}, DispatchResult(c, st)
        PROVE  \E x \in Order, w \in OrderView : /\ shard' = [shard EXCEPT !.ord[x] = w] /\ old' = old
                  /\ w.state # "archived" /\ shard.ord[x].state # "archived"
    <2> DEFINE x == OrderOf[c]
               s == IF st = "unknown" THEN "unknown" ELSE shard.ord[x].state
               w == [shard.ord[x] EXCEPT !.submitted = TRUE, !.state = s]
    <2>1. x \in Order
      BY GatewayAssumption
    <2>2. shard.ord[x].state # "archived"
      BY <1>5 DEF DispatchResult
    <2>5. shard.ord[x] \in OrderView /\ shard.ord[x].state \in OrderState
      BY <1>1, <2>1, OrderViewFields
    <2>6. s # "archived" /\ s \in OrderState
      BY <2>2, <2>5 DEF OrderState
    <2>4. shard' = [shard EXCEPT !.ord[x] = w] /\ old' = old
      BY <1>5 DEF DispatchResult
    <2> HIDE DEF s
    <2>3. w \in OrderView /\ w.state = s /\ s # "archived"
      BY <2>5, <2>6 DEF OrderView
    <2> HIDE DEF w, x
    <2> QED BY <2>1, <2>2, <2>3, <2>4
  <1>6. ASSUME NEW x \in Order, NEW st \in {"live", "terminal"}, Report(x, st)
        PROVE  \E y \in Order, w \in OrderView : /\ shard' = [shard EXCEPT !.ord[y] = w] /\ old' = old
                  /\ w.state # "archived" /\ shard.ord[y].state # "archived"
    <2> DEFINE w == [shard.ord[x] EXCEPT !.state = st]
    <2>1. w \in OrderView /\ w.state = st /\ st # "archived"
      BY <1>1, OrderViewFields DEF OrderView, OrderState
    <2>2. shard' = [shard EXCEPT !.ord[x] = w] /\ shard.ord[x].state # "archived" /\ old' = old
      BY <1>6 DEF Report
    <2> HIDE DEF w
    <2> QED BY <2>1, <2>2
  <1>7. ASSUME NEW x \in Order, NEW st \in Status, Reconcile(x, st)
        PROVE  \E y \in Order, w \in OrderView : /\ shard' = [shard EXCEPT !.ord[y] = w] /\ old' = old
                  /\ w.state # "archived" /\ shard.ord[y].state # "archived"
    <2> DEFINE s == ReconciledState(x, st)
               n == shard.ord[x].recon + 1
               k == shard.ord[x].rev
               w == [shard.ord[x] EXCEPT !.recon = n, !.status = st, !.reconRev = k,
                                         !.state = s]
    <2>1. s \in OrderState /\ s # "archived" /\ n \in Nat /\ k \in Nat
      BY <1>1, OrderViewFields DEF ReconciledState, OrderState
    <2>2. shard' = [shard EXCEPT !.ord[x] = w] /\ shard.ord[x].state # "archived" /\ old' = old
      BY <1>7 DEF Reconcile, Reconcilable
    <2>3. shard.ord[x] \in OrderView
      BY <1>1, OrderViewFields
    <2>4. w \in OrderView /\ w.state = s
      <3> HIDE DEF s, n, k
      <3> QED BY <2>1, <2>3 DEF OrderView
    <2> HIDE DEF w, s
    <2> QED BY <2>1, <2>2, <2>4
  <1>8. ASSUME NEW x \in Order, ReconcileOldRevision(x)
        PROVE  \E y \in Order, w \in OrderView : /\ shard' = [shard EXCEPT !.ord[y] = w] /\ old' = old
                  /\ w.state # "archived" /\ shard.ord[y].state # "archived"
    <2> DEFINE n == shard.ord[x].recon + 1
               k == shard.ord[x].rev - 1
               w == [shard.ord[x] EXCEPT !.recon = n, !.status = "found_live", !.reconRev = k]
    <2>1. n \in Nat /\ k \in Nat /\ shard.ord[x].state = "pending_amend"
      BY <1>1, <1>8, OrderViewFields DEF ReconcileOldRevision
    <2>2. shard' = [shard EXCEPT !.ord[x] = w] /\ old' = old
      BY <1>8 DEF ReconcileOldRevision
    <2>3. shard.ord[x] \in OrderView
      BY <1>1, OrderViewFields
    <2>4. w \in OrderView /\ w.state = "pending_amend"
      <3> HIDE DEF n, k
      <3> QED BY <2>1, <2>3 DEF OrderView, Status
    <2> HIDE DEF w
    <2> QED BY <2>1, <2>2, <2>4
  <1>9. CASE TakeSnapshot
    BY <1>9 DEF TakeSnapshot
  <1> QED BY <1>3, <1>4, <1>5, <1>6, <1>7, <1>8, <1>9 DEF ShardNext, ShardStep

\* The steps that change what the shard or its snapshot say.
LEMMA ViewSteps ==
    ASSUME [Next]_vars
    PROVE  \/ UNCHANGED <<shard, old>>
           \/ ShardNext
           \/ \E o \in Order : ArchiveOrder(o)
           \/ ArchiveEconomic
           \/ Crash
  BY DEF Next, GatewayNext, Send, Write, Archive, CheckpointStep, Restart, vars, shardVars,
         BeginSend, Refuse, AdapterAccepts, AdapterDeclines, AdapterFails, ObserveUnknown,
         AppendRecord, AppendFails, CommitRecord, CommitFails, BeginResolve,
         Reclaim, Acknowledge, CatchUp, FinishCheckpoint, CheckpointFresh, Seal, Publish,
         Rotate, CheckpointFails, Recover, ReplayRecord, Attach

\* What is archived stays archived, and no snapshot brings its commands back.
LEMMA ViewsKept ==
    ASSUME TypeInv, SendInv, [Next]_vars
    PROVE  /\ RootsOrdered' /\ ArchivedForgotten' /\ LastArchived'
           /\ \A o \in Order, b \in Nat : ArchFact(o, b) => ArchFact(o, b)'
  <1> USE DEF RootsOrdered, ArchivedForgotten, LastArchived, ArchFact, Archived, CommandsOf
  <1>0. /\ shard \in ShardView /\ old \in ShardView
        /\ shard.root \in Nat /\ old.root \in Nat
        /\ shard.kind = "order" => shard.last \in Order
    BY DEF TypeInv, TypeOK, ShardView
  <1>1. RootsOrdered /\ ArchivedForgotten /\ LastArchived
    BY DEF SendInv
  <1>2. CASE UNCHANGED <<shard, old>>
    BY <1>1, <1>2
  <1>3. CASE ShardNext
    <2>1. /\ \A o \in Order : shard'.ord[o].state = "archived"
                                <=> shard.ord[o].state = "archived"
          /\ \A c \in Command : Archived(c) => shard'.cmdRev[c] = shard.cmdRev[c]
          /\ old' = old \/ (old' = shard /\ shard' = shard)
      BY <1>3, ShardKeepsArchived
    <2>2. shard'.root = shard.root /\ shard'.kind = shard.kind /\ shard'.last = shard.last
      BY <1>0, <1>3, ShardStepLeaves
    <2> QED BY <1>0, <1>1, <2>1, <2>2, GatewayAssumption
  <1>4. ASSUME NEW x \in Order, ArchiveOrder(x)
        PROVE  /\ RootsOrdered' /\ ArchivedForgotten' /\ LastArchived'
               /\ \A o \in Order, b \in Nat : ArchFact(o, b) => ArchFact(o, b)'
    <2>1. /\ old' = old
          /\ shard'.root = shard.root + 1 /\ shard'.last = x
          /\ shard'.cmdRev = [c \in Command |-> IF OrderOf[c] = x THEN 0 ELSE shard.cmdRev[c]]
          /\ shard'.ord = [shard.ord EXCEPT ![x] = [NoOrderView EXCEPT !.state = "archived"]]
      BY <1>0, <1>4 DEF ArchiveOrder, ShardView
    <2>2. \A o \in Order : shard'.ord[o].state = IF o = x THEN "archived"
                                                 ELSE shard.ord[o].state
      BY <1>0, <2>1 DEF ShardView, NoOrderView
    <2>3. RootsOrdered' /\ ~(old'.root >= shard'.root)
      BY <1>0, <1>1, <2>1
    <2> QED BY <1>0, <1>1, <2>1, <2>2, <2>3, GatewayAssumption
  <1>5. CASE ArchiveEconomic
    <2>1. /\ old' = old /\ shard'.root = shard.root + 1 /\ shard'.kind = "other"
          /\ shard'.ord = shard.ord /\ shard'.cmdRev = shard.cmdRev
      BY <1>0, <1>5 DEF ArchiveEconomic, ShardView
    <2> QED BY <1>0, <1>1, <2>1
  <1>6. CASE Crash
    <2>1. shard' = shard /\ old' \in {old, shard}
      BY <1>6 DEF Crash
    <2> QED BY <1>0, <1>1, <2>1, GatewayAssumption
  <1> QED BY <1>2, <1>3, <1>4, <1>5, <1>6, ViewSteps

\* Covered in one state, and with tables that are no worse in the next.
LEMMA CoveredStep ==
    ASSUME TypeInv, SendInv, [Next]_vars, NEW t \in Tables, NEW c \in Command
    PROVE  /\ Covered(t, c) => Covered(t, c)'
           /\ Gone(c, t.bound) => Gone(c, t.bound)'
  BY ViewsKept, GatewayAssumption DEF Covered, Gone, Tables

LEMMA GoneLater ==
    ASSUME TypeInv, NEW c \in Command, NEW a \in Nat, NEW b \in Nat, a <= b, Gone(c, a)
    PROVE  Gone(c, b)
  BY DEF Gone, ArchFact, TypeInv, TypeOK, ShardView

\* A command the tables cover may not be begun again, from any view.
LEMMA CoveredNotBegun ==
    ASSUME TypeInv, SendInv, NEW c \in Command, NEW v \in {shard, old}, BeginSend(c, v)
    PROVE  ~Covered(mem, c)
  BY GatewayAssumption
     DEF Covered, Gone, ArchFact, CommandsOf, BeginSend, Current, BindingAdmits, SendInv,
         ArchivedForgotten, Archived, TypeInv, TypeOK, Tables, ShardView

\* No table operation of the live tables uncovers a command, and an attempt
\* covers its own.
LEMMA TableCovers ==
    ASSUME NEW t \in Tables, NEW d \in Command, NEW n \in Nat, NEW k \in Nat,
           NEW s \in Status, NEW c \in Command
    PROVE  /\ Covered(t, c) => /\ Covered(MarkUncertain(t, d, n), c)
                               /\ Covered(MarkAccepted(t, d), c)
                               /\ Covered(Settle(t, d, k, s), c)
           /\ Covered(Latch(t), c) <=> Covered(t, c)
           /\ Covered(MarkUncertain(t, c, n), c)
           /\ Covered(MarkAccepted(t, c), c)
  <1>1. Gone(c, t.bound) => /\ Gone(c, MarkUncertain(t, d, n).bound)
                            /\ Gone(c, MarkAccepted(t, d).bound)
                            /\ Gone(c, Settle(t, d, k, s).bound)
    BY DEF MarkUncertain, MarkAccepted, Settle, Tables
  <1>2. t.row[c].st # "none" => /\ MarkUncertain(t, d, n).row[c].st # "none"
                                /\ MarkAccepted(t, d).row[c].st # "none"
    BY DEF MarkUncertain, MarkAccepted, Tables, Row
  <1>3. t.row[c].st # "none" => Settle(t, d, k, s).row[c].st # "none"
    <2> DEFINE r == [t.row[d] EXCEPT !.id = k, !.status = s]
    <2>1. r.st = t.row[d].st
      BY DEF Tables, Row
    <2> HIDE DEF r
    <2>2. t.row[c].st # "none" => [t EXCEPT !.row[d] = r].row[c].st # "none"
      BY <2>1 DEF Tables
    <2> QED BY <2>2 DEF Settle, r
  <1>4. MarkUncertain(t, c, n).row[c].st # "none" /\ MarkAccepted(t, c).row[c].st # "none"
    BY DEF MarkUncertain, MarkAccepted, Tables, Row
  <1>5. Latch(t).row = t.row /\ Latch(t).bound = t.bound
    BY DEF Latch, Tables
  <1> QED BY <1>1, <1>2, <1>3, <1>4, <1>5 DEF Covered

\* Replaying a record uncovers nothing, provided an archive record is true.
LEMMA ApplyCovers ==
    ASSUME TypeInv, NEW t \in Tables, NEW r \in Record, Accepts(t, r),
           r.kind = "archive" => ArchFact(r.order, r.root), NEW c \in Command
    PROVE  /\ Covered(t, c) => Covered(Apply(t, r), c)
           /\ DispatchOf(r, c) => Covered(Apply(t, r), c)
  <1>1. CASE r.kind \in {"dispatch", "accepted", "resolution"}
    <2>1. /\ r.kind = "dispatch" => r.cmd \in Command /\ r.prior \in Nat
          /\ r.kind = "accepted" => r.cmd \in Command
          /\ r.kind = "resolution" => r.cmd \in Command /\ r.id \in Nat /\ r.status \in Status
      BY RecordKinds
    <2>2. CASE r.kind = "dispatch"
      <3>1. Apply(t, r) = MarkUncertain(t, r.cmd, r.prior)
        BY <2>2 DEF Apply
      <3> QED BY <2>1, <2>2, <3>1, TableCovers DEF DispatchOf, Status
    <2>3. CASE r.kind = "accepted"
      <3>1. Apply(t, r) = MarkAccepted(t, r.cmd)
        BY <2>3 DEF Apply
      <3> QED BY <2>1, <2>3, <3>1, TableCovers DEF DispatchOf, Status
    <2>4. CASE r.kind = "resolution"
      <3>1. Apply(t, r) = Settle(t, r.cmd, r.id, r.status)
        BY <2>4 DEF Apply
      <3> QED BY <2>1, <2>4, <3>1, TableCovers DEF DispatchOf
    <2> QED BY <1>1, <2>2, <2>3, <2>4
  <1>2. CASE r.kind \in {"archive", "economic"}
    <2>1. r.root \in Nat /\ r.root > 0 /\ t.bound \in Nat /\ t.bound <= r.root
      BY <1>2, RecordKinds DEF Accepts, ChainsFrom, Tables
    <2>2. Gone(c, t.bound) => Gone(c, r.root)
      BY <2>1, GoneLater
    <2>3. CASE r.kind = "economic"
      <3>1. Apply(t, r).row = t.row /\ Apply(t, r).bound = r.root
        BY <2>3 DEF Apply, Bind, Tables
      <3> QED BY <2>2, <2>3, <3>1 DEF Covered, DispatchOf
    <2>4. CASE r.kind = "archive"
      <3>1. /\ Apply(t, r).row = [d \in Command |-> IF OrderOf[d] = r.order THEN NoRow
                                                    ELSE t.row[d]]
            /\ Apply(t, r).bound = r.root
        BY <2>4 DEF Apply, Retire, Tables
      <3>2. OrderOf[c] = r.order => Gone(c, r.root)
        BY <2>1, <2>4 DEF Gone
      <3> QED BY <2>2, <2>4, <3>1, <3>2 DEF Covered, DispatchOf
    <2> QED BY <1>2, <2>3, <2>4
  <1> QED BY <1>1, <1>2, RecordKinds

\* The failure branches uncover nothing.
LEMMA FailureCovers ==
    ASSUME mem \in Tables, rec \in Record, NEW b \in BOOLEAN, NEW c \in Command
    PROVE  Covered(mem, c) => Covered(AfterFailure(b), c)
  <1>1. CASE rec.kind \in {"dispatch", "resolution"}
    <2>1. rec.kind = "dispatch" => rec.cmd \in Command /\ rec.prior \in Nat
      BY RecordKinds
    <2>2. CASE rec.kind = "dispatch" /\ b
      <3>1. MarkUncertain(mem, rec.cmd, rec.prior) \in Tables
        BY <2>1, <2>2, MarkUncertainTyped
      <3> QED BY <2>1, <2>2, <3>1, TableCovers DEF AfterFailure, Status
    <2>3. CASE ~(rec.kind = "dispatch" /\ b)
      BY <1>1, <2>3, TableCovers DEF AfterFailure, Status
    <2> QED BY <2>2, <2>3
  <1>2. CASE rec.kind = "accepted"
    <2>1. rec.cmd \in Command /\ mem.row[rec.cmd].prior \in Nat
      BY <1>2, RecordKinds, TableFields
    <2>2. MarkUncertain(mem, rec.cmd, mem.row[rec.cmd].prior) \in Tables
      BY <2>1, MarkUncertainTyped
    <2> QED BY <1>2, <2>1, <2>2, TableCovers DEF AfterFailure, Status
  <1>3. CASE rec.kind \in {"archive", "economic"}
    BY <1>3 DEF AfterFailure
  <1> QED BY <1>1, <1>2, <1>3, RecordKinds

\* The parts of the invariant a step keeps when it sends nothing.
Extends(d, e) ==
    /\ e.snap = d.snap /\ e.committed >= d.committed
    /\ \A i \in 1..d.committed : e.tail[i] = d.tail[i]

LEMMA DiskKept ==
    ASSUME TypeInv, SendInv, [Next]_vars, wire' = wire, Extends(disk, disk')
    PROVE  DiskCovers'
  <1>1. /\ DiskCovers /\ disk.snap \in Tables /\ disk.committed \in Nat
        /\ disk'.committed >= disk.committed /\ disk'.committed \in Nat
        /\ disk'.snap = disk.snap
    BY TypeStep DEF SendInv, TypeInv, TypeOK, Stream, Extends
  <1> SUFFICES ASSUME NEW c \in Command, wire'[c] > 0
               PROVE  (\/ Covered(disk.snap, c)
                       \/ \E i \in 1..disk.committed : DispatchOf(disk.tail[i], c))'
    BY DEF DiskCovers
  <1>2. CASE Covered(disk.snap, c)
    <2>1. PICK t \in Tables : t = disk.snap
      BY <1>1
    <2>2. Covered(t, c)'
      BY <1>2, <2>1, CoveredStep
    <2> QED BY <1>1, <2>1, <2>2 DEF Covered
  <1>3. CASE \E i \in 1..disk.committed : DispatchOf(disk.tail[i], c)
    <2>1. PICK i \in 1..disk.committed : DispatchOf(disk.tail[i], c)
      BY <1>3
    <2>2. i \in 1..disk'.committed /\ disk'.tail[i] = disk.tail[i]
      BY <1>1 DEF Extends
    <2> QED BY <2>1, <2>2 DEF DispatchOf
  <1> QED BY <1>1, <1>2, <1>3 DEF DiskCovers

LEMMA TailKept ==
    ASSUME TypeInv, SendInv, [Next]_vars, Len(disk'.tail) <= Len(disk.tail),
           \A i \in 1..Len(disk'.tail) : disk'.tail[i] = disk.tail[i], Len(disk'.tail) \in Nat
    PROVE  TailTrue'
  <1> SUFFICES ASSUME NEW i \in 1..Len(disk'.tail), disk'.tail[i].kind = "archive"
               PROVE  ArchFact(disk.tail[i].order, disk.tail[i].root)'
    BY DEF TailTrue
  <1>1. ArchFact(disk.tail[i].order, disk.tail[i].root)'
    <2>1. disk.tail \in Seq(Record) /\ i \in 1..Len(disk.tail) /\ disk.tail[i] = disk'.tail[i]
      BY DEF TypeInv, TypeOK, Stream
    <2>2. disk.tail[i] \in Record
      BY <2>1
    <2>3. ArchFact(disk.tail[i].order, disk.tail[i].root)
      BY <2>1 DEF SendInv, TailTrue
    <2>4. disk.tail[i].order \in Order /\ disk.tail[i].root \in Nat
      BY <2>1, <2>2, RecordKinds
    <2> QED BY <2>1, <2>3, <2>4, ViewsKept DEF ArchFact
  <1> QED BY <1>1

LEMMA MemKept ==
    ASSUME TypeInv, SendInv, [Next]_vars, wire' = wire, pc \notin {"down", "replay"},
           mem' \in Tables, \A c \in Command : Covered(mem, c) => Covered(mem', c)
    PROVE  MemCovers'
  BY CoveredStep DEF MemCovers, SendInv, Covered

\* A handler that has ended, or a process that is down, holds no obligation.
LEMMA AtRest ==
    ASSUME pc' \in {"idle", "down", "archived"}
    PROVE  RecordTrue' /\ FirstAttempt' /\ AtTail' /\ CandCovers' /\ ReplayCovers'
  BY DEF RecordTrue, FirstAttempt, AtTail, CandCovers, Candidate, ReplayCovers

\* The step that hands the command over: it was never sent, its record is at
\* the committed end of the tail, and its row is in memory from now on.
LEMMA HandedOver ==
    ASSUME TypeInv, SendInv, [Next]_vars, pc = "adapter", disk' = disk,
           wire' = [wire EXCEPT ![rec.cmd] = @ + 1],
           \A c \in Command : Covered(mem, c) => Covered(mem', c),
           Covered(mem', rec.cmd)
    PROVE  MemCovers' /\ DiskCovers' /\ TailTrue' /\ AtMostOnce'
  <1>1. /\ rec.cmd \in Command /\ wire[rec.cmd] = 0 /\ wire \in [Command -> Nat]
        /\ rec.kind = "dispatch"
        /\ disk.tail \in Seq(Record) /\ disk.committed = Len(disk.tail) /\ Len(disk.tail) > 0
        /\ disk.tail[Len(disk.tail)] = rec
    BY DEF TypeInv, TypeOK, DispatchRecord, SendInv, FirstAttempt, AtTail, Stream
  <1>2. mem' \in Tables
    BY TypeStep DEF TypeInv, TypeOK
  <1>3. AtMostOnce'
    BY <1>1 DEF AtMostOnce, SendInv
  <1>4. TailTrue'
    BY <1>1, TailKept
  <1>5. MemCovers'
    <2> SUFFICES ASSUME NEW c \in Command, wire'[c] > 0 PROVE Covered(mem, c)'
      BY DEF MemCovers
    <2>1. wire[c] > 0 \/ c = rec.cmd
      BY <1>1
    <2>2. Covered(mem', c)
      BY <2>1 DEF SendInv, MemCovers
    <2>3. PICK t \in Tables : t = mem'
      BY <1>2
    <2>4. Covered(t, c)'
      BY <2>2, <2>3, CoveredStep
    <2> QED BY <2>3, <2>4 DEF Covered
  <1>6. DiskCovers'
    <2> SUFFICES ASSUME NEW c \in Command, wire'[c] > 0
                 PROVE  (\/ Covered(disk.snap, c)
                         \/ \E i \in 1..disk.committed : DispatchOf(disk.tail[i], c))'
      BY DEF DiskCovers
    <2>1. CASE c = rec.cmd
      <3>1. Len(disk.tail) \in 1..disk.committed /\ DispatchOf(disk.tail[Len(disk.tail)], c)
        BY <1>1, <2>1 DEF DispatchOf
      <3> QED BY <3>1 DEF DispatchOf
    <2>2. CASE Covered(disk.snap, c)
      <3>1. PICK t \in Tables : t = disk.snap
        BY DEF TypeInv, TypeOK, Stream
      <3>2. Covered(t, c)'
        BY <2>2, <3>1, CoveredStep
      <3> QED BY <3>1, <3>2 DEF Covered
    <2>3. CASE \E i \in 1..disk.committed : DispatchOf(disk.tail[i], c)
      BY <2>3 DEF DispatchOf
    <2> QED BY <1>1, <2>1, <2>2, <2>3 DEF SendInv, DiskCovers
  <1> QED BY <1>3, <1>4, <1>5, <1>6

\* A step that sends nothing and leaves the disk alone.
LEMMA Untouched ==
    ASSUME TypeInv, SendInv, [Next]_vars, wire' = wire, disk' = disk
    PROVE  DiskCovers' /\ TailTrue' /\ AtMostOnce'
  <1>1. disk.committed \in Nat /\ Len(disk.tail) \in Nat
    BY DEF TypeInv, TypeOK, Stream
  <1>2. DiskCovers'
    BY <1>1, DiskKept DEF Extends
  <1>3. TailTrue'
    BY <1>1, TailKept
  <1> QED BY <1>2, <1>3 DEF AtMostOnce, SendInv

\* What the writers and the checkpoint do to the disk keeps its part.
LEMMA DiskMoves ==
    ASSUME TypeInv, SendInv, [Next]_vars, wire' = wire,
           \/ disk' \in {disk, Committed(disk), Sealed(disk), Rotated(disk),
                         [disk EXCEPT !.tail = SubSeq(@, 1, disk.committed)]}
           \/ pc = "append" /\ disk' = Appended(disk)
           \/ pc = "publish" /\ disk' = Published(disk)
    PROVE  DiskCovers' /\ TailTrue' /\ AtMostOnce'
  <1>1. /\ disk \in Stream /\ disk.tail \in Seq(Record) /\ disk.committed \in Nat
        /\ Len(disk.tail) \in Nat /\ disk.committed <= Len(disk.tail)
    BY DEF TypeInv, TypeOK, Stream
  <1>2. AtMostOnce'
    BY DEF AtMostOnce, SendInv
  <1>3. CASE disk' \in {disk, Committed(disk), Sealed(disk), Rotated(disk)}
    <2>1. disk'.tail = disk.tail /\ disk'.snap = disk.snap /\ disk'.committed >= disk.committed
      BY <1>1, <1>3 DEF Committed, Sealed, Rotated, Stream
    <2> QED BY <1>1, <1>2, <2>1, DiskKept, TailKept DEF Extends
  <1>4. CASE disk' = [disk EXCEPT !.tail = SubSeq(@, 1, disk.committed)]
    <2>1. /\ disk'.tail = SubSeq(disk.tail, 1, disk.committed)
          /\ disk'.snap = disk.snap /\ disk'.committed = disk.committed
      BY <1>1, <1>4 DEF Stream
    <2>2. /\ Len(disk'.tail) = disk.committed
          /\ \A i \in 1..disk.committed : disk'.tail[i] = disk.tail[i]
      BY <1>1, <2>1
    <2> QED BY <1>1, <1>2, <2>1, <2>2, DiskKept, TailKept DEF Extends
  <1>5. CASE pc = "append" /\ disk' = Appended(disk)
    <2>1. /\ disk'.tail = Append(disk.tail, rec) /\ rec \in Record
          /\ disk'.snap = disk.snap /\ disk'.committed = disk.committed
      BY <1>1, <1>5 DEF Appended, Stream, TypeInv
    <2>2. /\ Len(disk'.tail) = Len(disk.tail) + 1
          /\ \A i \in 1..Len(disk.tail) : disk'.tail[i] = disk.tail[i]
          /\ disk'.tail[Len(disk.tail) + 1] = rec
      BY <1>1, <2>1
    <2>3. DiskCovers'
      BY <1>1, <2>1, <2>2, DiskKept DEF Extends
    <2>4. TailTrue'
      <3> SUFFICES ASSUME NEW i \in 1..Len(disk'.tail), disk'.tail[i].kind = "archive"
                   PROVE  ArchFact(disk.tail[i].order, disk.tail[i].root)'
        BY DEF TailTrue
      <3>1. PICK r \in Record : r = disk'.tail[i]
        BY <1>1, <2>1, <2>2
      <3>2. ArchFact(r.order, r.root)
        <4>1. CASE i \in 1..Len(disk.tail)
          BY <2>2, <3>1, <4>1 DEF SendInv, TailTrue
        <4>2. CASE i = Len(disk.tail) + 1
          BY <1>5, <2>2, <3>1, <4>2 DEF SendInv, RecordTrue
        <4> QED BY <1>1, <2>2, <4>1, <4>2
      <3>3. r.order \in Order /\ r.root \in Nat
        BY <3>1, RecordKinds
      <3>4. ArchFact(r.order, r.root)'
        BY <3>2, <3>3, ViewsKept
      <3> QED BY <3>1, <3>4 DEF ArchFact
    <2> QED BY <1>2, <2>3, <2>4
  <1>6. CASE pc = "publish" /\ disk' = Published(disk)
    <2>1. disk'.tail = <<>> /\ disk'.snap = cand /\ cand \in Tables
      BY <1>1, <1>6 DEF Published, Stream, TypeInv, TypeOK
    <2>2. TailTrue'
      BY <2>1 DEF TailTrue
    <2>3. DiskCovers'
      <3> SUFFICES ASSUME NEW c \in Command, wire'[c] > 0 PROVE Covered(disk.snap, c)'
        BY DEF DiskCovers
      <3>1. Covered(cand, c)
        BY <1>6 DEF SendInv, CandCovers, Candidate
      <3>2. PICK t \in Tables : t = cand
        BY <2>1
      <3>3. Covered(t, c)'
        BY <3>1, <3>2, CoveredStep
      <3> QED BY <2>1, <3>2, <3>3 DEF Covered
    <2> QED BY <1>2, <2>2, <2>3
  <1> QED BY <1>3, <1>4, <1>5, <1>6

LEMMA InitSends == Init => SendInv
  <1> SUFFICES ASSUME Init PROVE SendInv
    OBVIOUS
  <1> QED BY DEF Init, SendInv, RootsOrdered, ArchivedForgotten, Archived, LastArchived,
       RecordTrue, TailTrue, FirstAttempt, AtTail, MemCovers, CandCovers, Candidate,
       DiskCovers, ReplayCovers, AtMostOnce, NoOrderView

\* The tables a handler works on cover what memory covers.
LEMMA CandidateMade ==
    ASSUME TypeInv, SendInv, [Next]_vars, wire' = wire, pc \notin {"down", "replay"},
           cand' \in Tables, \A c \in Command : Covered(mem, c) => Covered(cand', c)
    PROVE  CandCovers'
  <1> SUFFICES ASSUME NEW c \in Command, wire'[c] > 0 PROVE Covered(cand, c)'
    BY DEF CandCovers
  <1>1. Covered(cand', c)
    BY DEF SendInv, MemCovers
  <1>2. PICK t \in Tables : t = cand'
    OBVIOUS
  <1>3. Covered(t, c)'
    BY <1>1, <1>2, CoveredStep
  <1> QED BY <1>2, <1>3 DEF Covered

LEMMA CandidateKept ==
    ASSUME TypeInv, SendInv, [Next]_vars, wire' = wire, cand' = cand, Candidate
    PROVE  CandCovers'
  <1> SUFFICES ASSUME NEW c \in Command, wire'[c] > 0 PROVE Covered(cand, c)'
    BY DEF CandCovers
  <1>1. PICK t \in Tables : t = cand
    BY DEF TypeInv, TypeOK
  <1>2. Covered(t, c)'
    BY <1>1, CoveredStep DEF SendInv, CandCovers
  <1> QED BY <1>1, <1>2 DEF Covered

\* A checkpoint that ends makes its candidate the memory.
LEMMA CandidateTaken ==
    ASSUME TypeInv, SendInv, [Next]_vars, wire' = wire, mem' = cand, Candidate
    PROVE  MemCovers'
  <1> SUFFICES ASSUME NEW c \in Command, wire'[c] > 0 PROVE Covered(mem, c)'
    BY DEF MemCovers
  <1>1. PICK t \in Tables : t = cand
    BY DEF TypeInv, TypeOK
  <1>2. Covered(t, c)'
    BY <1>1, CoveredStep DEF SendInv, CandCovers
  <1> QED BY <1>1, <1>2 DEF Covered

LEMMA SendStep == TypeInv /\ SendInv /\ [Next]_vars => SendInv'
  <1> SUFFICES ASSUME TypeInv, SendInv, [Next]_vars PROVE SendInv'
    OBVIOUS
  <1>0. /\ RootsOrdered' /\ ArchivedForgotten' /\ LastArchived'
        /\ \A o \in Order, b \in Nat : ArchFact(o, b) => ArchFact(o, b)'
    BY ViewsKept
  <1>t. /\ mem \in Tables /\ cand \in Tables /\ mem' \in Tables /\ cand' \in Tables
        /\ disk \in Stream /\ TypeInv'
    BY TypeStep DEF TypeInv, TypeOK
  <1>s. SUFFICES /\ RecordTrue' /\ FirstAttempt' /\ AtTail'
                 /\ CandCovers' /\ ReplayCovers' /\ MemCovers'
                 /\ DiskCovers' /\ TailTrue' /\ AtMostOnce'
    BY <1>0 DEF SendInv
  <1> DEFINE Goal == /\ RecordTrue' /\ FirstAttempt' /\ AtTail'
                     /\ CandCovers' /\ ReplayCovers' /\ MemCovers'
                     /\ DiskCovers' /\ TailTrue' /\ AtMostOnce'
  <1>k. ASSUME UNCHANGED <<pc, rec, mem, cand, idx, disk, wire>>
        PROVE  Goal
    <2>1. DiskCovers' /\ TailTrue' /\ AtMostOnce'
      BY <1>k, Untouched
    <2>2. FirstAttempt' /\ AtTail'
      BY <1>k DEF FirstAttempt, AtTail, SendInv
    <2>3. RecordTrue'
      <3> SUFFICES ASSUME pc \in {"append", "commit"}, rec.kind = "archive"
                   PROVE  ArchFact(rec.order, rec.root)'
        BY <1>k DEF RecordTrue
      <3>1. PICK r \in Record : r = rec
        BY DEF TypeInv
      <3>2. r.order \in Order /\ r.root \in Nat
        BY <3>1, RecordKinds
      <3>3. ArchFact(r.order, r.root)'
        BY <1>0, <3>1, <3>2 DEF SendInv, RecordTrue
      <3> QED BY <1>k, <3>1, <3>3 DEF ArchFact
    <2>4. MemCovers'
      <3>1. CASE pc \in {"down", "replay"}
        BY <1>k, <3>1 DEF MemCovers
      <3>2. CASE pc \notin {"down", "replay"}
        BY <1>k, <1>t, <3>2, MemKept
      <3> QED BY <3>1, <3>2
    <2>5. CandCovers'
      <3>1. CASE Candidate
        BY <1>k, <3>1, CandidateKept
      <3>2. CASE ~Candidate
        BY <1>k, <3>2 DEF CandCovers, Candidate
      <3> QED BY <3>1, <3>2
    <2>6. ReplayCovers'
      <3> SUFFICES ASSUME pc = "replay", NEW c \in Command, wire[c] > 0
                   PROVE  (\/ Covered(cand, c)
                           \/ \E i \in (idx + 1)..Len(disk.tail) : DispatchOf(disk.tail[i], c))'
        BY <1>k DEF ReplayCovers
      <3>1. CASE Covered(cand, c)
        <4>1. PICK t \in Tables : t = cand
          BY <1>t
        <4>2. Covered(t, c)'
          BY <3>1, <4>1, CoveredStep
        <4> QED BY <1>k, <4>1, <4>2 DEF Covered
      <3>2. CASE \E i \in (idx + 1)..Len(disk.tail) : DispatchOf(disk.tail[i], c)
        BY <1>k, <3>2 DEF DispatchOf
      <3> QED BY <3>1, <3>2 DEF SendInv, ReplayCovers
    <2> QED BY <2>1, <2>2, <2>3, <2>4, <2>5, <2>6
  <1>1. CASE UNCHANGED vars
    BY <1>1, <1>k DEF vars, storeVars, shardVars, ghosts
  <1>2. CASE ShardNext
    BY <1>2, <1>k, ShardStepLeaves DEF storeVars, ghosts
  <1>3. ASSUME NEW c \in Command, NEW v \in {shard, old}, BeginSend(c, v)
        PROVE Goal
    <2>1. wire[c] = 0
      <3>1. ~(wire[c] > 0)
        BY <1>3, CoveredNotBegun DEF SendInv, MemCovers, BeginSend, Idle
      <3> QED BY <3>1 DEF TypeInv, TypeOK
    <2>2. /\ pc = "idle" /\ pc' = "append" /\ rec'.kind = "dispatch" /\ rec'.cmd = c
          /\ UNCHANGED <<mem, cand, disk, wire>>
      BY <1>3 DEF BeginSend, Idle, storeVars, ghosts
    <2>3. DiskCovers' /\ TailTrue' /\ AtMostOnce' /\ MemCovers'
      BY <1>t, <2>2, Untouched, MemKept
    <2> QED BY <2>1, <2>2, <2>3
            DEF RecordTrue, FirstAttempt, AtTail, CandCovers, Candidate, ReplayCovers
  <1>4. CASE Refuse
    <2>1. \A c \in Command : Covered(mem, c) => Covered(mem', c)
      BY <1>4, <1>t, DispatchRecordFields, TableCovers DEF Refuse, Status
    <2>2. pc = "adapter" /\ pc' = "idle" /\ UNCHANGED <<disk, wire>>
      BY <1>4 DEF Refuse, storeVars, ghosts
    <2> QED BY <1>t, <2>1, <2>2, Untouched, MemKept, AtRest
  <1>5. CASE AdapterAccepts
    <2>0. /\ pc = "adapter" /\ disk' = disk /\ rec.cmd \in Command /\ rec.prior \in Nat
          /\ wire' = [wire EXCEPT ![rec.cmd] = @ + 1]
          /\ pc' = "append" /\ rec'.kind = "accepted"
      BY <1>5, DispatchRecordFields DEF AdapterAccepts, MayReachAdapter, storeVars
    <2>1. PICK t \in Tables : t = MarkUncertain(mem, rec.cmd, rec.prior)
      BY <1>t, <2>0, MarkUncertainTyped
    <2>2. mem' = MarkAccepted(t, rec.cmd)
      BY <1>5, <2>1 DEF AdapterAccepts
    <2>3. /\ \A c \in Command : Covered(mem, c) => Covered(mem', c)
          /\ Covered(mem', rec.cmd)
      BY <1>t, <2>0, <2>1, <2>2, TableCovers DEF Status
    <2>4. MemCovers' /\ DiskCovers' /\ TailTrue' /\ AtMostOnce'
      BY <2>0, <2>3, HandedOver
    <2> QED BY <2>0, <2>4
            DEF RecordTrue, FirstAttempt, AtTail, CandCovers, Candidate, ReplayCovers
  <1>6. CASE AdapterDeclines
    <2>0. /\ pc = "adapter" /\ disk' = disk /\ rec.cmd \in Command /\ rec.prior \in Nat
          /\ wire' = [wire EXCEPT ![rec.cmd] = @ + 1] /\ pc' = "idle"
      BY <1>6, DispatchRecordFields DEF AdapterDeclines, MayReachAdapter, storeVars
    <2>1. /\ \A c \in Command : Covered(mem, c) => Covered(mem', c)
          /\ Covered(mem', rec.cmd)
      BY <1>6, <1>t, <2>0, TableCovers DEF AdapterDeclines, Status
    <2> QED BY <2>0, <2>1, HandedOver, AtRest
  <1>7. CASE AdapterFails
    <2>0. /\ pc = "adapter" /\ disk' = disk /\ rec.cmd \in Command /\ rec.prior \in Nat
          /\ wire' = [wire EXCEPT ![rec.cmd] = @ + 1] /\ pc' = "idle"
      BY <1>7, DispatchRecordFields DEF AdapterFails, MayReachAdapter, storeVars
    <2>1. PICK t \in Tables : t = MarkUncertain(mem, rec.cmd, rec.prior)
      BY <1>t, <2>0, MarkUncertainTyped
    <2>2. mem' = Latch(t)
      BY <1>7, <2>1 DEF AdapterFails
    <2>3. /\ \A c \in Command : Covered(mem, c) => Covered(mem', c)
          /\ Covered(mem', rec.cmd)
      BY <1>t, <2>0, <2>1, <2>2, TableCovers DEF Status
    <2> QED BY <2>0, <2>3, HandedOver, AtRest
  <1>8. CASE ObserveUnknown
    <2>1. \A c \in Command : Covered(mem, c) => Covered(mem', c)
      BY <1>8, <1>t, TableCovers DEF ObserveUnknown, Status
    <2>2. pc = "idle" /\ pc' = "idle" /\ UNCHANGED <<disk, wire>>
      BY <1>8 DEF ObserveUnknown, storeVars, ghosts
    <2> QED BY <1>t, <2>1, <2>2, Untouched, MemKept, AtRest
  <1>9. ASSUME NEW c \in Command, BeginResolve(c)
        PROVE Goal
    <2>1. /\ pc = "idle" /\ pc' = "append" /\ rec'.kind = "resolution"
          /\ UNCHANGED <<mem, cand, disk, wire>>
      BY <1>9 DEF BeginResolve, Idle, storeVars, ghosts
    <2>2. DiskCovers' /\ TailTrue' /\ AtMostOnce' /\ MemCovers'
      BY <1>t, <2>1, Untouched, MemKept
    <2> QED BY <2>1, <2>2
            DEF RecordTrue, FirstAttempt, AtTail, CandCovers, Candidate, ReplayCovers
  <1>10. CASE AppendRecord
    <2>1. /\ pc = "append" /\ pc' = "commit" /\ disk' = Appended(disk)
          /\ UNCHANGED <<rec, mem, cand, wire>>
      BY <1>10 DEF AppendRecord, ghosts
    <2>2. DiskCovers' /\ TailTrue' /\ AtMostOnce' /\ MemCovers'
      BY <1>t, <2>1, DiskMoves, MemKept
    <2>3. AtTail'
      <3>1. disk'.tail = Append(disk.tail, rec) /\ disk.tail \in Seq(Record) /\ rec \in Record
        BY <1>t, <2>1 DEF Appended, Stream, TypeInv
      <3>2. Len(disk'.tail) > 0 /\ disk'.tail[Len(disk'.tail)] = rec
        BY <3>1
      <3> QED BY <2>1, <3>2 DEF AtTail
    <2>4. FirstAttempt' /\ ReplayCovers'
      BY <2>1 DEF FirstAttempt, ReplayCovers, SendInv
    <2>5. RecordTrue'
      <3> SUFFICES ASSUME rec.kind = "archive" PROVE ArchFact(rec.order, rec.root)'
        BY <2>1 DEF RecordTrue
      <3>1. PICK r \in Record : r = rec
        BY <2>1 DEF TypeInv
      <3>2. r.order \in Order /\ r.root \in Nat
        BY <3>1, RecordKinds
      <3>3. ArchFact(r.order, r.root)'
        BY <1>0, <2>1, <3>1, <3>2 DEF SendInv, RecordTrue
      <3> QED BY <2>1, <3>1, <3>3 DEF ArchFact
    <2>6. CandCovers'
      <3>1. CASE Candidate
        BY <2>1, <3>1, CandidateKept
      <3>2. CASE ~Candidate
        BY <2>1, <3>2 DEF CandCovers, Candidate
      <3> QED BY <3>1, <3>2
    <2> QED BY <2>2, <2>3, <2>4, <2>5, <2>6
  <1>11. CASE AppendFails
    <2>1. /\ pc = "append" /\ pc' = "idle" /\ disk' \in {disk, Appended(disk)}
          /\ wire' = wire /\ mem' = AfterFailure(FALSE)
      BY <1>11 DEF AppendFails
    <2>2. \A c \in Command : Covered(mem, c) => Covered(mem', c)
      BY <1>t, <2>1, FailureCovers DEF TypeInv
    <2> QED BY <1>t, <2>1, <2>2, DiskMoves, MemKept, AtRest
  <1>12. CASE CommitRecord
    <2>1. /\ pc = "commit" /\ disk' = Committed(disk) /\ rec \in Record
          /\ UNCHANGED <<cand, wire>>
      BY <1>12 DEF CommitRecord, TypeInv
    <2>2. DiskCovers' /\ TailTrue' /\ AtMostOnce'
      BY <2>1, DiskMoves
    <2>3. disk'.tail = disk.tail /\ disk'.committed = Len(disk.tail)
      BY <1>t, <2>1 DEF Committed, Stream
    <2>4. CASE rec.kind = "dispatch"
      <3>1. pc' = "adapter" /\ UNCHANGED <<rec, mem>>
        BY <1>12, <2>4 DEF CommitRecord
      <3>2. MemCovers'
        BY <1>t, <2>1, <3>1, MemKept
      <3>3. AtTail' /\ FirstAttempt'
        BY <2>1, <2>3, <2>4, <3>1 DEF AtTail, FirstAttempt, SendInv
      <3> QED BY <2>2, <3>1, <3>2, <3>3
              DEF RecordTrue, CandCovers, Candidate, ReplayCovers
    <2>5. CASE rec.kind = "resolution"
      <3>1. pc' = "idle" /\ mem' = Settle(mem, rec.cmd, rec.id, rec.status)
        BY <1>12, <2>5 DEF CommitRecord
      <3>2. \A c \in Command : Covered(mem, c) => Covered(mem', c)
        BY <1>t, <2>1, <2>5, <3>1, RecordKinds, TableCovers
      <3> QED BY <1>t, <2>1, <2>2, <3>1, <3>2, MemKept, AtRest
    <2>6. CASE rec.kind = "accepted"
      <3>1. pc' = "idle" /\ mem' = mem
        BY <1>12, <2>6 DEF CommitRecord
      <3> QED BY <1>t, <2>1, <2>2, <3>1, MemKept, AtRest
    <2>7. CASE rec.kind \in {"archive", "economic"}
      <3>1. pc' = "seal" /\ UNCHANGED <<rec, mem>>
        BY <1>12, <2>7 DEF CommitRecord
      <3>2. MemCovers' /\ CandCovers'
        BY <1>t, <2>1, <2>7, <3>1, MemKept, CandidateKept DEF Candidate
      <3> QED BY <2>2, <3>1, <3>2 DEF RecordTrue, FirstAttempt, AtTail, ReplayCovers
    <2> QED BY <2>1, <2>4, <2>5, <2>6, <2>7, RecordKinds
  <1>13. CASE CommitFails
    <2>1. /\ pc = "commit" /\ pc' = "idle" /\ disk' \in {disk, Committed(disk)}
          /\ wire' = wire /\ mem' = AfterFailure(TRUE)
      BY <1>13 DEF CommitFails
    <2>2. \A c \in Command : Covered(mem, c) => Covered(mem', c)
      BY <1>t, <2>1, FailureCovers DEF TypeInv
    <2> QED BY <1>t, <2>1, <2>2, DiskMoves, MemKept, AtRest
  <1>14. ASSUME NEW o \in Order, ArchiveOrder(o)
         PROVE Goal
    <2>1. pc = "idle" /\ pc' = "archived" /\ UNCHANGED <<mem, disk, wire>>
      BY <1>14 DEF ArchiveOrder, Idle, storeVars, ghosts
    <2> QED BY <1>t, <2>1, Untouched, MemKept, AtRest
  <1>15. CASE ArchiveEconomic
    <2>1. pc = "idle" /\ pc' = "archived" /\ UNCHANGED <<mem, disk, wire>>
      BY <1>15 DEF ArchiveEconomic, Idle, storeVars, ghosts
    <2> QED BY <1>t, <2>1, Untouched, MemKept, AtRest
  <1>16. ASSUME NEW r \in Record, CatchUp(r), r.kind \in {"archive", "economic"},
                r.kind = "archive" => ArchFact(r.order, r.root)
         PROVE Goal
    <2>1. /\ pc \in {"idle", "archived"} /\ pc' \in {"append", "seal"} /\ rec' = r
          /\ cand' = Apply(mem, r) /\ Accepts(mem, r)
          /\ UNCHANGED <<mem, disk, wire>>
      BY <1>16 DEF CatchUp, storeVars, ghosts
    <2>2. \A c \in Command : Covered(mem, c) => Covered(cand', c)
      BY <1>16, <1>t, <2>1, ApplyCovers
    <2>3. DiskCovers' /\ TailTrue' /\ AtMostOnce' /\ MemCovers' /\ CandCovers'
      BY <1>t, <2>1, <2>2, Untouched, MemKept, CandidateMade
    <2>4. RecordTrue'
      <3> SUFFICES ASSUME r.kind = "archive" PROVE ArchFact(r.order, r.root)'
        BY <2>1 DEF RecordTrue, ArchFact
      <3>1. r.order \in Order /\ r.root \in Nat
        BY RecordKinds
      <3> QED BY <1>0, <1>16, <3>1
    <2> QED BY <1>16, <2>1, <2>3, <2>4 DEF FirstAttempt, AtTail, ReplayCovers
  <1>17. CASE Reclaim
    <2>1. /\ shard.root \in Nat /\ shard.last \in Order
          /\ ArchFact(shard.last, shard.root)
      BY <1>17 DEF Reclaim, SendInv, LastArchived, TypeInv, TypeOK, ShardView
    <2>2. PICK r \in Record : r = [kind |-> "archive", order |-> shard.last,
                                   root |-> shard.root]
      BY <2>1, RecordRanges
    <2> QED BY <1>16, <1>17, <2>1, <2>2 DEF Reclaim
  <1>18. CASE Acknowledge
    <2>1. shard.root \in Nat
      BY DEF TypeInv, TypeOK, ShardView
    <2>2. PICK r \in Record : r = [kind |-> "economic", root |-> shard.root]
      BY <2>1, RecordRanges
    <2> QED BY <1>16, <1>18, <2>1, <2>2 DEF Acknowledge
  <1>19. CASE FinishCheckpoint
    <2>1. pc = "idle" /\ pc' = "seal" /\ cand' = mem /\ UNCHANGED <<mem, disk, wire>>
      BY <1>19 DEF FinishCheckpoint, Idle, storeVars, ghosts
    <2>2. DiskCovers' /\ TailTrue' /\ AtMostOnce' /\ MemCovers' /\ CandCovers'
      BY <1>t, <2>1, Untouched, MemKept, CandidateMade
    <2> QED BY <2>1, <2>2 DEF RecordTrue, FirstAttempt, AtTail, ReplayCovers
  <1>20. CASE CheckpointFresh
    <2>1. pc = "seal" /\ pc' = "idle" /\ UNCHANGED <<disk, wire>>
      BY <1>20 DEF CheckpointFresh, CheckpointDone, storeVars, ghosts
    <2>2. mem' = cand \/ mem' = CheckpointError(mem)
      BY <1>20 DEF CheckpointFresh, CheckpointDone
    <2>3. CASE mem' = cand
      BY <2>1, <2>3, Untouched, CandidateTaken, AtRest DEF Candidate
    <2>4. CASE mem' = CheckpointError(mem)
      <3>1. \A c \in Command : Covered(mem, c) => Covered(mem', c)
        BY <1>t, <2>4, TableCovers DEF CheckpointError, Status
      <3> QED BY <1>t, <2>1, <3>1, Untouched, MemKept, AtRest
    <2> QED BY <2>2, <2>3, <2>4
  <1>21. CASE Seal
    <2>1. /\ pc = "seal" /\ pc' = "publish" /\ disk' = Sealed(disk)
          /\ UNCHANGED <<mem, cand, wire>>
      BY <1>21 DEF Seal, ghosts
    <2> QED BY <1>t, <2>1, DiskMoves, MemKept, CandidateKept
            DEF RecordTrue, FirstAttempt, AtTail, ReplayCovers, Candidate
  <1>22. CASE Publish
    <2>1. /\ pc = "publish" /\ pc' = "rotate" /\ disk' = Published(disk)
          /\ UNCHANGED <<mem, cand, wire>>
      BY <1>22 DEF Publish, ghosts
    <2> QED BY <1>t, <2>1, DiskMoves, MemKept, CandidateKept
            DEF RecordTrue, FirstAttempt, AtTail, ReplayCovers, Candidate
  <1>23. CASE Rotate
    <2>1. /\ pc = "rotate" /\ pc' = "idle" /\ disk' = Rotated(disk) /\ mem' = cand
          /\ wire' = wire
      BY <1>23 DEF Rotate, CheckpointDone, ghosts
    <2> QED BY <2>1, DiskMoves, CandidateTaken, AtRest DEF Candidate
  <1>24. CASE CheckpointFails
    <2>1. /\ pc \in {"seal", "publish", "rotate"} /\ pc' = "idle" /\ wire' = wire
          /\ mem' = CheckpointError(mem)
          /\ \/ disk' \in {disk, Sealed(disk), Rotated(disk)}
             \/ pc = "publish" /\ disk' = Published(disk)
      BY <1>24 DEF CheckpointFails
    <2>2. \A c \in Command : Covered(mem, c) => Covered(mem', c)
      BY <1>t, <2>1, TableCovers DEF CheckpointError, Status
    <2> QED BY <1>t, <2>1, <2>2, DiskMoves, MemKept, AtRest
  <1>25. CASE Crash
    <2>1. /\ pc' = "down" /\ wire' = wire
          /\ disk' \in {disk, [disk EXCEPT !.tail = SubSeq(@, 1, disk.committed)]}
      BY <1>25 DEF Crash
    <2> QED BY <2>1, DiskMoves, AtRest DEF MemCovers
  <1>26. CASE Recover
    <2>1. /\ pc' = "replay" /\ cand' = disk.snap /\ idx' = 0 /\ UNCHANGED <<disk, wire>>
          /\ disk.committed = Len(disk.tail)
      BY <1>26 DEF Recover, ghosts
    <2>2. DiskCovers' /\ TailTrue' /\ AtMostOnce'
      BY <2>1, Untouched
    <2>3. ReplayCovers'
      BY <2>1, <2>2 DEF ReplayCovers, DiskCovers, Covered, DispatchOf
    <2> QED BY <2>1, <2>2, <2>3
            DEF RecordTrue, FirstAttempt, AtTail, CandCovers, Candidate, MemCovers
  <1>27. CASE ReplayRecord
    <2>1. /\ pc = "replay" /\ pc' = "replay" /\ idx < Len(disk.tail) /\ idx' = idx + 1
          /\ Accepts(cand, disk.tail[idx + 1]) /\ cand' = Apply(cand, disk.tail[idx + 1])
          /\ UNCHANGED <<disk, wire>> /\ idx \in Nat
      BY <1>27 DEF ReplayRecord, storeVars, ghosts, TypeInv, TypeOK
    <2>2. DiskCovers' /\ TailTrue' /\ AtMostOnce'
      BY <2>1, Untouched
    <2>3. PICK r \in Record : r = disk.tail[idx + 1]
      BY <1>t, <2>1 DEF Stream
    <2>4. r.kind = "archive" => ArchFact(r.order, r.root)
      BY <1>t, <2>1, <2>3 DEF SendInv, TailTrue, Stream
    <2>5. ReplayCovers'
      <3> SUFFICES ASSUME NEW c \in Command, wire[c] > 0
                   PROVE  (\/ Covered(cand, c)
                           \/ \E i \in (idx + 1)..Len(disk.tail) : DispatchOf(disk.tail[i], c))'
        BY <2>1 DEF ReplayCovers
      <3>1. \/ Covered(cand, c)
            \/ \E i \in (idx + 1)..Len(disk.tail) : DispatchOf(disk.tail[i], c)
        BY <2>1 DEF SendInv, ReplayCovers
      <3>2. ASSUME Covered(cand', c) PROVE Covered(cand, c)'
        <4>1. PICK t \in Tables : t = cand'
          BY <1>t
        <4>2. Covered(t, c)'
          BY <3>2, <4>1, CoveredStep
        <4> QED BY <4>1, <4>2 DEF Covered
      <3>3. CASE Covered(cand, c)
        BY <1>t, <2>1, <2>3, <2>4, <3>2, <3>3, ApplyCovers
      <3>4. CASE \E i \in (idx + 1)..Len(disk.tail) : DispatchOf(disk.tail[i], c)
        <4>1. PICK i \in (idx + 1)..Len(disk.tail) : DispatchOf(disk.tail[i], c)
          BY <3>4
        <4>2. CASE i = idx + 1
          BY <1>t, <2>1, <2>3, <2>4, <3>2, <4>1, <4>2, ApplyCovers
        <4>3. CASE i # idx + 1
          <5>1. i \in (idx' + 1)..Len(disk.tail)
            BY <1>t, <2>1, <4>1, <4>3 DEF Stream
          <5> QED BY <2>1, <4>1, <5>1 DEF DispatchOf
        <4> QED BY <4>2, <4>3
      <3> QED BY <3>1, <3>3, <3>4
    <2> QED BY <2>1, <2>2, <2>5
            DEF RecordTrue, FirstAttempt, AtTail, CandCovers, Candidate, MemCovers
  <1>28. CASE Attach
    <2>1. /\ pc = "replay" /\ pc' = "idle" /\ mem' = cand /\ idx = Len(disk.tail)
          /\ UNCHANGED <<disk, wire>> /\ idx \in Nat
      BY <1>28 DEF Attach, storeVars, ghosts, TypeInv, TypeOK
    <2>2. MemCovers'
      <3> SUFFICES ASSUME NEW c \in Command, wire'[c] > 0 PROVE Covered(mem, c)'
        BY DEF MemCovers
      <3>1. Covered(cand, c)
        BY <2>1 DEF SendInv, ReplayCovers
      <3>2. PICK t \in Tables : t = cand
        BY <1>t
      <3>3. Covered(t, c)'
        BY <3>1, <3>2, CoveredStep
      <3> QED BY <2>1, <3>2, <3>3 DEF Covered
    <2> QED BY <2>1, <2>2, Untouched, AtRest
  <1> QED
    BY <1>1, <1>2, <1>3, <1>4, <1>5, <1>6, <1>7, <1>8, <1>9, <1>10, <1>11, <1>12, <1>13,
       <1>14, <1>15, <1>17, <1>18, <1>19, <1>20, <1>21, <1>22, <1>23, <1>24, <1>25,
       <1>26, <1>27, <1>28
       DEF Next, GatewayNext, Send, Write, Archive, CheckpointStep, Restart

\* No command is handed to the adapter twice, whatever crashes, store failures,
\* stale snapshots and archives happen in between, for any commands and bounds.
THEOREM SendsAtMostOnce == Spec => []AtMostOnce
  <1>1. Init => TypeInv /\ SendInv
    BY InitTyped, InitSends
  <1>2. TypeInv /\ SendInv /\ [Next]_vars => (TypeInv /\ SendInv)'
    BY TypeStep, SendStep
  <1>3. TypeInv /\ SendInv => AtMostOnce
    BY DEF SendInv
  <1> QED BY <1>1, <1>2, <1>3, PTL DEF Spec


-----------------------------------------------------------------------------
(* The tables a recovery builds.                                           *)

\* Tables that differ at most in the latch, which no record speaks of.
Alike(t, u) == t.row = u.row /\ t.bound = u.bound /\ t.orderRoot = u.orderRoot

\* f[i] is what the snapshot and the first i records of the tail amount to.
Trace(f, d) ==
    /\ f \in [0 .. Len(d.tail) -> Tables]
    /\ f[0] = d.snap
    /\ \A i \in 1 .. Len(d.tail) :
         Accepts(f[i - 1], d.tail[i]) /\ f[i] = Apply(f[i - 1], d.tail[i])

Sends == rec.kind \in {"dispatch", "accepted", "resolution"}
Archives == rec.kind \in {"archive", "economic"}
Writing == pc \in {"append", "commit"}

\* While the gate is open memory is what the log says, up to the record that is
\* being written; and a record is only written where the log accepts it.
InMemory(t) ==
    /\ pc = "idle" /\ gate = "open" => Alike(t, mem)
    /\ pc = "archived" => Alike(t, mem)
    /\ pc = "append" =>
         /\ Accepts(t, rec)
         /\ Alike(IF rec.kind = "accepted" THEN Apply(t, rec) ELSE t, mem)
    /\ pc = "commit" => Alike(t, IF rec.kind = "accepted" THEN mem ELSE Apply(mem, rec))
    /\ pc = "adapter" => Alike(t, Apply(mem, rec))
    /\ pc = "seal" /\ Fresh(disk) => Alike(t, mem)

\* A handler runs behind an open gate, on a log committed up to the record it writes.
Committing ==
    /\ pc \notin {"idle", "down"} => gate = "open"
    /\ gate = "open" /\ pc # "commit" => disk.committed = Len(disk.tail)
    /\ pc = "commit" => disk.committed + 1 = Len(disk.tail)
    /\ pc = "rotate" => disk.tail = <<>> /\ disk.snap = cand

Replays(f) ==
    /\ Trace(f, disk)
    /\ InMemory(f[Len(disk.tail)])
    /\ pc = "replay" => idx <= Len(disk.tail) /\ cand = f[idx]

-----------------------------------------------------------------------------
(* What every version of the tables has in common.                         *)

\* The tables are at most one root behind the shard.
Near(t) == shard.root \in {t.bound, t.bound + 1} /\ t.orderRoot <= t.bound

\* They hold every answer that was given, unless the order is archived.
Holds(t) ==
    \A c \in Command : told[c].st # "none" /\ ~Archived(c) => t.row[c] = told[c]

\* No answer can be relied on where a snapshot outlives the process it was made for.
Good(t) == Near(t) /\ (~SnapshotsSurvive => Holds(t))

AllGood(f) ==
    /\ \A i \in disk.committed .. Len(disk.tail) : Good(f[i])
    /\ pc \notin {"down", "replay"} => Good(mem)
    /\ Candidate => Good(cand)

ShardRoots ==
    /\ shard.kind = "none" => shard.root = 0
    /\ shard.kind = "order" => shard.orderRoot = shard.root /\ shard.root > 0
    /\ Writing /\ Archives => rec.root = shard.root /\ cand.bound = rec.root
    /\ pc = "archived" /\ shard.kind = "order" => Unsettled(mem, shard.last) = {}

-----------------------------------------------------------------------------
(* What sending, settling and archiving need besides.                      *)

\* A snapshot that still has commands of archived orders is older than root b.
Stale(b) == \A c \in Command : Archived(c) /\ old.cmdRev[c] # 0 => old.root < b

StaleRefused ==
    /\ pc = "idle" /\ gate = "open" => Stale(mem.bound)
    /\ pc = "adapter" \/ (Writing /\ Sends) => Stale(mem.bound)
    /\ pc = "archived" => Stale(shard.root)
    /\ Candidate => Stale(cand.bound)
    /\ pc = "seal" /\ Fresh(disk) => Stale(mem.bound)
    /\ pc \in {"down", "replay"} => Stale(0)

\* The command at hand is of an order that is not archived, and unanswered.
Attempted ==
    /\ pc = "adapter" \/ (Writing /\ Sends) =>
         ~Archived(rec.cmd) /\ told[rec.cmd].st = "none"
    /\ Writing /\ rec.kind = "accepted" =>
         mem.row[rec.cmd].st = "accepted" /\ wire[rec.cmd] = 1
    /\ Writing /\ rec.kind = "resolution" =>
         mem.row[rec.cmd].st = "uncertain" /\ rec.id # 0 /\ rec.id > mem.row[rec.cmd].prior

\* What the business history says of archived orders, and what callers were told.
HistoryTrue ==
    \A c \in Command :
        /\ told[c].st = "uncertain" => told[c].id # 0 /\ told[c].id > told[c].prior
        /\ Archived(c) /\ told[c].st # "none" => history[c] = told[c]
        /\ Archived(c) /\ wire[c] > 0 => history[c].st = "accepted" \/ history[c].id # 0

AnswerInv == ~SnapshotsSurvive => StaleRefused /\ Attempted /\ HistoryTrue

JournalInv ==
    /\ Committing /\ ShardRoots /\ AnswerInv
    /\ \E f : Replays(f) /\ AllGood(f)

-----------------------------------------------------------------------------
(* What a record does to the tables.                                       *)

LEMMA TableParts ==
    ASSUME NEW t \in Tables
    PROVE  /\ t.row \in [Command -> Row] /\ t.bound \in Nat /\ t.orderRoot \in Nat
           /\ t.latched \in BOOLEAN
  BY DEF Tables

\* The row of its command after a record about a command.
RowAfter(w, r) ==
    CASE r.kind = "dispatch"   -> [st |-> "uncertain", prior |-> r.prior, id |-> 0,
                                   status |-> "unresolved"]
      [] r.kind = "accepted"   -> [st |-> "accepted", prior |-> w.prior, id |-> w.id,
                                   status |-> w.status]
      [] r.kind = "resolution" -> [st |-> w.st, prior |-> w.prior, id |-> r.id,
                                   status |-> r.status]

\* The rows after an order is archived.
Cleared(row, o) == [c \in Command |-> IF OrderOf[c] = o THEN NoRow ELSE row[c]]

LEMMA RowSettled ==
    ASSUME NEW x \in Row, NEW n, NEW s
    PROVE  [x EXCEPT !.id = n, !.status = s]
             = [st |-> x.st, prior |-> x.prior, id |-> n, status |-> s]
  <1> DEFINE y == [st |-> x.st, prior |-> x.prior, id |-> n, status |-> x.status]
  <1>1. [x EXCEPT !.id = n] = y
    BY DEF Row
  <1>2. [y EXCEPT !.status = s] = [st |-> x.st, prior |-> x.prior, id |-> n, status |-> s]
    OBVIOUS
  <1>3. [x EXCEPT !.id = n, !.status = s] = [[x EXCEPT !.id = n] EXCEPT !.status = s]
    BY DEF Row
  <1> QED BY <1>1, <1>2, <1>3

\* Each record changes the row of its command, the rows of its order, or the root.
LEMMA ApplyCommand ==
    ASSUME NEW t \in Tables, NEW r \in Record, r.kind \in {"dispatch", "accepted", "resolution"}
    PROVE  /\ Apply(t, r) \in Tables
           /\ Apply(t, r).row = [t.row EXCEPT ![r.cmd] = RowAfter(t.row[r.cmd], r)]
           /\ Apply(t, r).bound = t.bound /\ Apply(t, r).orderRoot = t.orderRoot
  <1> DEFINE w == [t.row[r.cmd] EXCEPT !.id = r.id, !.status = r.status]
             v == RowAfter(t.row[r.cmd], r)
  <1>1. Apply(t, r) = [t EXCEPT !.row[r.cmd] = v]
    <2>1. CASE r.kind = "dispatch"
      BY <2>1 DEF Apply, MarkUncertain, RowAfter
    <2>2. CASE r.kind = "accepted"
      <3>1. t.row[r.cmd] \in Row
        BY <2>2, RecordKinds, TableFields
      <3>2. v = [st |-> "accepted", prior |-> t.row[r.cmd].prior, id |-> t.row[r.cmd].id,
                 status |-> t.row[r.cmd].status]
        BY <2>2 DEF RowAfter
      <3> HIDE DEF v
      <3>3. [t.row[r.cmd] EXCEPT !.st = "accepted"] = v
        BY <3>1, <3>2 DEF Row
      <3> QED BY <2>2, <3>3 DEF Apply, MarkAccepted
    <2>3. CASE r.kind = "resolution"
      <3>0. PICK x \in Row : x = t.row[r.cmd]
        BY <2>3, RecordKinds, TableFields
      <3>a. [x EXCEPT !.id = r.id, !.status = r.status]
              = [st |-> x.st, prior |-> x.prior, id |-> r.id, status |-> r.status]
        BY RowSettled
      <3>b. v = [st |-> x.st, prior |-> x.prior, id |-> r.id, status |-> r.status]
        BY <2>3, <3>0 DEF RowAfter
      <3>c. w = [x EXCEPT !.id = r.id, !.status = r.status]
        BY <3>0
      <3> HIDE DEF v, w
      <3>1. w = v
        BY <3>a, <3>b, <3>c
      <3>2. Apply(t, r) = [t EXCEPT !.row[r.cmd] = w]
        BY <2>3 DEF Apply, Settle, w
      <3> QED BY <3>1, <3>2
    <2> QED BY <2>1, <2>2, <2>3
  <1> HIDE DEF v
  <1>2. /\ [t EXCEPT !.row[r.cmd] = v].row = [t.row EXCEPT ![r.cmd] = v]
        /\ [t EXCEPT !.row[r.cmd] = v].bound = t.bound
        /\ [t EXCEPT !.row[r.cmd] = v].orderRoot = t.orderRoot
    BY DEF Tables
  <1> QED BY <1>1, <1>2, ApplyTyped DEF v

LEMMA ApplyRoot ==
    ASSUME NEW t \in Tables, NEW r \in Record, r.kind \in {"archive", "economic"}
    PROVE  /\ Apply(t, r) \in Tables
           /\ r.kind = "archive" =>
                Apply(t, r).row = Cleared(t.row, r.order) /\ Apply(t, r).orderRoot = r.root
           /\ r.kind = "economic" =>
                Apply(t, r).row = t.row /\ Apply(t, r).orderRoot = t.orderRoot
           /\ Apply(t, r).bound = r.root
  <1>1. CASE r.kind = "archive"
    BY <1>1, ApplyTyped DEF Apply, Retire, Tables, Cleared
  <1>2. CASE r.kind = "economic"
    BY <1>2, ApplyTyped DEF Apply, Bind, Tables
  <1> QED BY <1>1, <1>2

\* Tables that are alike accept the same records and stay alike.
LEMMA AlikeApply ==
    ASSUME NEW t \in Tables, NEW u \in Tables, Alike(t, u), NEW r \in Record
    PROVE  /\ Accepts(t, r) <=> Accepts(u, r)
           /\ Alike(Apply(t, r), Apply(u, r))
  <1>1. t.row = u.row /\ t.bound = u.bound /\ t.orderRoot = u.orderRoot
    BY DEF Alike
  <1>2. Recorded(t) = Recorded(u) /\ \A o : Unsettled(t, o) = Unsettled(u, o)
    BY <1>1 DEF Recorded, Unsettled
  <1>3. Accepts(t, r) <=> Accepts(u, r)
    BY <1>1, <1>2 DEF Accepts, BudgetFull, ChainsFrom
  <1>4. CASE r.kind \in {"dispatch", "accepted", "resolution"}
    <2> DEFINE v == RowAfter(t.row[r.cmd], r)
    <2>1. RowAfter(u.row[r.cmd], r) = v
      BY <1>1
    <2> HIDE DEF v
    <2>2. /\ Apply(t, r).row = [t.row EXCEPT ![r.cmd] = v]
          /\ Apply(t, r).bound = t.bound /\ Apply(t, r).orderRoot = t.orderRoot
      BY <1>4, ApplyCommand DEF v
    <2>3. /\ Apply(u, r).row = [u.row EXCEPT ![r.cmd] = v]
          /\ Apply(u, r).bound = u.bound /\ Apply(u, r).orderRoot = u.orderRoot
      BY <1>4, <2>1, ApplyCommand
    <2>4. Alike(Apply(t, r), Apply(u, r))
      BY <1>1, <2>2, <2>3 DEF Alike
    <2> QED BY <1>3, <2>4
  <1>5. CASE r.kind \in {"archive", "economic"}
    <2>1. /\ Apply(t, r).bound = r.root /\ Apply(u, r).bound = r.root
          /\ r.kind = "archive" => /\ Apply(t, r).row = Cleared(t.row, r.order)
                                   /\ Apply(t, r).orderRoot = r.root
          /\ r.kind = "economic" => /\ Apply(t, r).row = t.row
                                    /\ Apply(t, r).orderRoot = t.orderRoot
      BY <1>5, ApplyRoot
    <2>2. /\ r.kind = "archive" => /\ Apply(u, r).row = Cleared(u.row, r.order)
                                   /\ Apply(u, r).orderRoot = r.root
          /\ r.kind = "economic" => /\ Apply(u, r).row = u.row
                                    /\ Apply(u, r).orderRoot = u.orderRoot
      BY <1>5, ApplyRoot
    <2>3. Alike(Apply(t, r), Apply(u, r))
      BY <1>1, <1>5, <2>1, <2>2 DEF Alike
    <2> QED BY <1>3, <2>3
  <1> QED BY <1>4, <1>5, RecordKinds

\* The latch makes no difference.
LEMMA LatchAlike ==
    ASSUME NEW t \in Tables, NEW u \in Tables, Alike(t, u)
    PROVE  Alike(t, Latch(u)) /\ Alike(t, CheckpointError(u))
  BY DEF Alike, Latch, CheckpointError, Tables

-----------------------------------------------------------------------------
(* What the writers make of the trace.                                     *)

LEMMA TraceTyped ==
    ASSUME NEW d \in Stream, NEW f, Trace(f, d)
    PROVE  /\ Len(d.tail) \in Nat
           /\ f[Len(d.tail)] \in Tables
           /\ \A i \in 0 .. Len(d.tail) : f[i] \in Tables
  BY DEF Stream, Trace

LEMMA TraceSame ==
    ASSUME NEW d \in Stream, NEW e \in Stream, NEW f, Trace(f, d),
           e.snap = d.snap, e.tail = d.tail
    PROVE  Trace(f, e)
  BY DEF Trace

LEMMA TraceNew ==
    ASSUME NEW d \in Stream, d.tail = <<>>
    PROVE  \E g : Trace(g, d) /\ g[0] = d.snap
  <1> DEFINE g == [i \in 0 .. Len(d.tail) |-> d.snap]
  <1>1. d.snap \in Tables /\ Len(d.tail) = 0
    BY DEF Stream
  <1>2. g \in [0 .. Len(d.tail) -> Tables] /\ g[0] = d.snap
    BY <1>1
  <1> HIDE DEF g
  <1>3. Trace(g, d)
    BY <1>1, <1>2 DEF Trace
  <1> QED BY <1>2, <1>3

LEMMA TraceCut ==
    ASSUME NEW d \in Stream, NEW e \in Stream, NEW f, Trace(f, d),
           d.committed <= Len(d.tail),
           e.snap = d.snap, e.tail = SubSeq(d.tail, 1, d.committed)
    PROVE  /\ Len(e.tail) = d.committed
           /\ \E g : Trace(g, e) /\ \A i \in 0 .. d.committed : g[i] = f[i]
  <1>1. d.tail \in Seq(Record) /\ d.committed \in Nat
    BY DEF Stream
  <1>2. Len(e.tail) = d.committed /\ \A i \in 1 .. d.committed : e.tail[i] = d.tail[i]
    BY <1>1
  <1> DEFINE g == [i \in 0 .. Len(e.tail) |-> f[i]]
  <1>3. \A i \in 0 .. d.committed : g[i] = f[i]
    BY <1>2
  <1>4. g \in [0 .. Len(e.tail) -> Tables]
    BY <1>1, <1>2, TraceTyped
  <1> HIDE DEF g
  <1>5. ASSUME NEW i \in 1 .. Len(e.tail)
        PROVE  Accepts(g[i - 1], e.tail[i]) /\ g[i] = Apply(g[i - 1], e.tail[i])
    <2>1. /\ i \in 1 .. Len(d.tail) /\ e.tail[i] = d.tail[i]
          /\ i \in 0 .. d.committed /\ i - 1 \in 0 .. d.committed
      BY <1>1, <1>2
    <2>2. g[i] = f[i] /\ g[i - 1] = f[i - 1]
      BY <1>3, <2>1
    <2> QED BY <2>1, <2>2 DEF Trace
  <1>6. Trace(g, e)
    BY <1>1, <1>3, <1>4, <1>5 DEF Trace
  <1> QED BY <1>2, <1>3, <1>6

LEMMA TraceAppend ==
    ASSUME NEW d \in Stream, NEW e \in Stream, NEW f, Trace(f, d), NEW r \in Record,
           e.snap = d.snap, e.tail = Append(d.tail, r), Accepts(f[Len(d.tail)], r)
    PROVE  /\ Len(e.tail) = Len(d.tail) + 1
           /\ \E g : /\ Trace(g, e)
                     /\ g[Len(e.tail)] = Apply(f[Len(d.tail)], r)
                     /\ \A i \in 0 .. Len(d.tail) : g[i] = f[i]
  <1> DEFINE n == Len(d.tail)
             g == [i \in 0 .. Len(e.tail) |-> IF i = n + 1 THEN Apply(f[n], r) ELSE f[i]]
  <1>1. d.tail \in Seq(Record) /\ n \in Nat
    BY DEF Stream
  <1>2. /\ Len(e.tail) = n + 1 /\ e.tail[n + 1] = r
        /\ \A i \in 1 .. n : e.tail[i] = d.tail[i]
    BY <1>1
  <1>3. \A i \in 0 .. n : g[i] = f[i]
    BY <1>1, <1>2
  <1>4. g[n + 1] = Apply(f[n], r)
    BY <1>1, <1>2
  <1>5. g \in [0 .. Len(e.tail) -> Tables]
    <2>1. Apply(f[n], r) \in Tables
      BY TraceTyped, ApplyTyped
    <2>2. \A i \in 0 .. n : f[i] \in Tables
      BY TraceTyped
    <2> QED BY <1>1, <1>2, <2>1, <2>2
  <1> HIDE DEF g, n
  <1>6. ASSUME NEW i \in 1 .. Len(e.tail)
        PROVE  Accepts(g[i - 1], e.tail[i]) /\ g[i] = Apply(g[i - 1], e.tail[i])
    <2>1. CASE i = n + 1
      <3>1. i - 1 = n /\ n \in 0 .. n
        BY <1>1, <2>1
      <3> QED BY <1>2, <1>3, <1>4, <2>1, <3>1 DEF n
    <2>2. CASE i # n + 1
      <3>1. i \in 1 .. n /\ i \in 0 .. n /\ i - 1 \in 0 .. n /\ e.tail[i] = d.tail[i]
        BY <1>1, <1>2, <2>2
      <3>2. g[i] = f[i] /\ g[i - 1] = f[i - 1]
        BY <1>3, <3>1
      <3> QED BY <3>1, <3>2 DEF Trace, n
    <2> QED BY <2>1, <2>2
  <1>7. Trace(g, e)
    <2>1. g[0] = f[0]
      BY <1>1, <1>3
    <2> QED BY <1>5, <1>6, <2>1 DEF Trace
  <1>8. g[Len(e.tail)] = Apply(f[n], r)
    BY <1>2, <1>4
  <1> QED BY <1>2, <1>3, <1>7, <1>8 DEF n

\* A commit is only ever behind by the record of the handler at work.
LEMMA CommittingStep ==
    ASSUME TypeInv, Committing, [Next]_vars
    PROVE  Committing'
  <1>0. /\ disk \in Stream /\ disk.tail \in Seq(Record) /\ Len(disk.tail) \in Nat
        /\ disk.committed \in Nat
    BY DEF TypeInv, TypeOK, Stream
  <1> USE DEF Committing
  <1>1. CASE UNCHANGED vars
    BY <1>1 DEF vars, storeVars
  <1>2. CASE ShardNext
    BY <1>2, ShardStepLeaves DEF storeVars
  <1>3. CASE Send
    BY <1>3 DEF Send, BeginSend, Idle, Refuse, AdapterAccepts, AdapterDeclines, AdapterFails,
                MayReachAdapter, ObserveUnknown, storeVars
  <1>4. CASE \E c \in Command : BeginResolve(c)
    BY <1>4 DEF BeginResolve, Idle, storeVars
  <1>5. CASE AppendRecord
    <2>1. pc = "append" /\ pc' = "commit" /\ gate' = gate /\ disk' = Appended(disk) /\ rec \in Record
      BY <1>5 DEF AppendRecord, TypeInv
    <2>2. Len(disk'.tail) = Len(disk.tail) + 1 /\ disk'.committed = disk.committed
      BY <1>0, <2>1 DEF Appended, Stream
    <2> QED BY <1>0, <2>1, <2>2
  <1>6. CASE CommitRecord
    <2>1. /\ pc = "commit" /\ pc' \in {"idle", "adapter", "seal"} /\ gate' = gate
          /\ disk' = Committed(disk)
      BY <1>6 DEF CommitRecord
    <2>2. disk'.tail = disk.tail /\ disk'.committed = Len(disk.tail)
      BY <1>0, <2>1 DEF Committed, Stream
    <2> QED BY <1>0, <2>1, <2>2
  <1>7. CASE AppendFails \/ CommitFails \/ CheckpointFails
    BY <1>7 DEF AppendFails, CommitFails, CheckpointFails
  <1>8. CASE Archive
    BY <1>8 DEF Archive, ArchiveOrder, ArchiveEconomic, Idle, Reclaim, Acknowledge, CatchUp,
                FinishCheckpoint, storeVars
  <1>9. CASE CheckpointFresh \/ Attach
    BY <1>9 DEF CheckpointFresh, CheckpointDone, Attach, storeVars
  <1>10. CASE Seal
    BY <1>0, <1>10 DEF Seal, Sealed, Stream
  <1>11. CASE Publish
    <2>1. pc = "publish" /\ pc' = "rotate" /\ gate' = gate /\ cand' = cand
      BY <1>11 DEF Publish
    <2>2. disk'.tail = <<>> /\ disk'.snap = cand /\ disk'.committed = 0
      BY <1>0, <1>11 DEF Publish, Published, Stream
    <2> QED BY <2>1, <2>2
  <1>12. CASE Rotate
    BY <1>0, <1>12 DEF Rotate, Rotated, CheckpointDone, Stream
  <1>13. CASE Crash
    BY <1>13 DEF Crash
  <1>14. CASE Recover
    BY <1>14 DEF Recover
  <1>15. CASE ReplayRecord
    BY <1>15 DEF ReplayRecord, storeVars
  <1> QED
    BY <1>1, <1>2, <1>3, <1>4, <1>5, <1>6, <1>7, <1>8, <1>9, <1>10, <1>11, <1>12, <1>13,
       <1>14, <1>15
       DEF Next, GatewayNext, Write, CheckpointStep, Restart

\* Where the next trace takes its tables from.
Follows(f, g) ==
    \A i \in disk'.committed .. Len(disk'.tail) :
        \/ i \in disk.committed .. Len(disk.tail) /\ g[i] = f[i]
        \/ /\ pc = "append" /\ Accepts(f[Len(disk.tail)], rec)
           /\ g[i] = Apply(f[Len(disk.tail)], rec)
        \/ pc = "publish" /\ g[i] = cand

\* Every step leaves a log that recovery accepts, and memory as the log has it.
LEMMA LogStep ==
    ASSUME TypeInv, Committing, NEW f, Replays(f), [Next]_vars
    PROVE  \E g : Replays(g)' /\ Follows(f, g)
  <1> DEFINE n == Len(disk.tail)
             Goal == \E g : Replays(g)' /\ Follows(f, g)
  <1>0. /\ disk \in Stream /\ disk.tail \in Seq(Record) /\ n \in Nat
        /\ disk.committed \in Nat /\ disk.committed <= n
        /\ mem \in Tables /\ cand \in Tables /\ idx \in Nat
        /\ disk' \in Stream /\ disk'.committed \in Nat /\ disk'.committed <= Len(disk'.tail)
        /\ disk'.tail \in Seq(Record) /\ mem' \in Tables
    BY TypeStep DEF TypeInv, TypeOK, Stream
  <1>f. Trace(f, disk) /\ f[0] = disk.snap
    BY DEF Replays, Trace
  <1>p. PICK t \in Tables : t = f[n]
    BY <1>0, <1>f, TraceTyped
  <1>m. InMemory(t)
    BY <1>p DEF Replays
  <1>s. ASSUME disk'.snap = disk.snap, disk'.tail = disk.tail,
               disk'.committed >= disk.committed, InMemory(t)',
               pc' = "replay" => idx' <= n /\ cand' = f[idx']
        PROVE  Goal
    <2>1. Trace(f, disk')
      BY <1>0, <1>f, <1>s, TraceSame
    <2>2. Follows(f, f)
      BY <1>0, <1>s DEF Follows
    <2>3. Replays(f)'
      BY <1>p, <1>s, <2>1 DEF Replays, Trace, InMemory, Alike
    <2> QED BY <2>2, <2>3
  <1>u. ASSUME disk' = disk, InMemory(t)', pc' # "replay"
        PROVE  Goal
    BY <1>0, <1>s, <1>u
  <1>g. ASSUME gate' = "closed", pc' \in {"idle", "down"}
        PROVE  \A x : InMemory(x)' /\ pc' # "replay"
    BY <1>g DEF InMemory
  <1>a. ASSUME pc = "append"
        PROVE  /\ rec \in Record /\ Accepts(t, rec)
               /\ Alike(IF rec.kind = "accepted" THEN Apply(t, rec) ELSE t, mem)
    BY <1>a, <1>m DEF TypeInv, InMemory
  <1>r. ASSUME pc = "append", disk' = Appended(disk), pc' # "replay",
               NEW u, u = Apply(t, rec), InMemory(u)'
        PROVE  Goal
    <2>1. /\ disk'.tail = Append(disk.tail, rec) /\ disk'.snap = disk.snap
          /\ disk'.committed = disk.committed
      BY <1>0, <1>r DEF Appended, Stream
    <2>2. PICK r \in Record : r = rec
      BY <1>a, <1>r
    <2>3. Accepts(f[n], r)
      BY <1>a, <1>p, <1>r, <2>2
    <2>4. /\ Len(disk'.tail) = n + 1
          /\ \E g : /\ Trace(g, disk')
                    /\ g[Len(disk'.tail)] = Apply(f[n], r)
                    /\ \A i \in 0 .. n : g[i] = f[i]
      BY <1>0, <1>f, <2>1, <2>2, <2>3, TraceAppend
    <2>5. PICK g : /\ Trace(g, disk')
                   /\ g[Len(disk'.tail)] = Apply(f[n], r)
                   /\ \A i \in 0 .. n : g[i] = f[i]
      BY <2>4
    <2>6. Follows(f, g)
      <3> SUFFICES ASSUME NEW i \in disk'.committed .. Len(disk'.tail)
                   PROVE  \/ i \in disk.committed .. Len(disk.tail) /\ g[i] = f[i]
                          \/ /\ pc = "append" /\ Accepts(f[Len(disk.tail)], rec)
                             /\ g[i] = Apply(f[Len(disk.tail)], rec)
        BY DEF Follows
      <3>1. CASE i = n + 1
        BY <1>r, <2>2, <2>3, <2>4, <2>5, <3>1
      <3>2. CASE i # n + 1
        <4>1. i \in disk.committed .. n /\ i \in 0 .. n
          BY <1>0, <2>1, <2>4, <3>2
        <4> QED BY <2>5, <4>1
      <3> QED BY <3>1, <3>2
    <2>7. g[Len(disk'.tail)] = u
      BY <1>p, <1>r, <2>2, <2>5
    <2>8. Replays(g)'
      BY <1>r, <2>5, <2>7 DEF Replays, Trace, InMemory, Alike
    <2> QED BY <2>6, <2>8
  <1>b. ASSUME pc = "publish", disk' = Published(disk), pc' # "replay",
               NEW u, u = cand, InMemory(u)'
        PROVE  Goal
    <2>1. disk'.tail = <<>> /\ disk'.snap = cand /\ disk'.committed = 0
      BY <1>0, <1>b DEF Published, Stream
    <2>2. PICK g : Trace(g, disk') /\ g[0] = cand
      BY <1>0, <2>1, TraceNew
    <2>3. Len(disk'.tail) = 0
      BY <2>1
    <2>4. Follows(f, g)
      BY <1>b, <2>1, <2>2, <2>3 DEF Follows
    <2>5. g[Len(disk'.tail)] = u
      BY <1>b, <2>2, <2>3
    <2>6. Replays(g)'
      BY <1>b, <2>2, <2>5 DEF Replays, Trace, InMemory, Alike
    <2> QED BY <2>4, <2>6
  <1>d. pc = "adapter" => /\ rec \in Record /\ rec.kind = "dispatch"
                          /\ rec.cmd \in Command /\ rec.prior \in Nat
                          /\ Apply(mem, rec) = MarkUncertain(mem, rec.cmd, rec.prior)
                          /\ Alike(t, MarkUncertain(mem, rec.cmd, rec.prior))
    BY <1>m, RecordRanges, DispatchRecordFields DEF TypeInv, DispatchRecord, Apply, InMemory
  <1>1. CASE UNCHANGED vars
    <2>1. InMemory(t)' /\ (pc' = "replay" => idx' <= n /\ cand' = f[idx'])
      BY <1>1, <1>m DEF vars, storeVars, InMemory, Replays
    <2> QED BY <1>0, <1>1, <1>s, <2>1 DEF vars, storeVars
  <1>2. CASE ShardNext
    <2>1. /\ UNCHANGED <<pc, rec, mem, cand, idx, disk, gate>>
          /\ pc \in {"idle", "down"}
      BY <1>2, ShardStepLeaves DEF storeVars, ShardNext
    <2> QED BY <1>m, <1>u, <2>1 DEF InMemory
  <1>3. ASSUME NEW c \in Command, NEW v \in {shard, old}, BeginSend(c, v)
        PROVE  Goal
    <2>1. /\ pc = "idle" /\ gate = "open" /\ pc' = "append" /\ UNCHANGED <<disk, mem, gate>>
          /\ rec' = [kind |-> "dispatch", cmd |-> c, prior |-> v.ord[OrderOf[c]].recon]
          /\ mem.row[c].st = "none" /\ ~BudgetFull(mem)
      BY <1>3 DEF BeginSend, Idle, storeVars
    <2>2. PICK r \in Record : r = rec'
      BY <2>1, TypeStep DEF TypeInv
    <2>3. Accepts(mem, r) /\ Alike(t, mem)
      BY <1>m, <2>1, <2>2 DEF Accepts, InMemory
    <2>4. Accepts(t, r)
      BY <1>0, <2>3, AlikeApply
    <2> QED BY <1>u, <2>1, <2>2, <2>3, <2>4 DEF InMemory
  <1>4. CASE Refuse
    <2>1. /\ pc = "adapter" /\ pc' = "idle" /\ disk' = disk
          /\ mem' = MarkUncertain(mem, rec.cmd, rec.prior)
      BY <1>4 DEF Refuse, storeVars
    <2> QED BY <1>u, <1>d, <2>1 DEF InMemory
  <1>5. CASE AdapterAccepts
    <2>1. /\ pc = "adapter" /\ pc' = "append" /\ disk' = disk
          /\ mem' = MarkAccepted(MarkUncertain(mem, rec.cmd, rec.prior), rec.cmd)
          /\ rec' = [kind |-> "accepted", cmd |-> rec.cmd]
      BY <1>5 DEF AdapterAccepts, MayReachAdapter, storeVars
    <2>2. PICK r \in Record : r = rec'
      BY <2>1, TypeStep DEF TypeInv
    <2>3. PICK u \in Tables : u = MarkUncertain(mem, rec.cmd, rec.prior)
      BY <1>0, <1>d, <2>1, MarkUncertainTyped
    <2>4. Alike(t, u) /\ mem' = Apply(u, r)
      BY <1>d, <2>1, <2>2, <2>3 DEF Apply
    <2>5. u.row[r.cmd].st = "uncertain" /\ u.row[r.cmd].id = 0 /\ r.kind = "accepted"
      BY <1>0, <1>d, <2>1, <2>2, <2>3 DEF MarkUncertain, Tables
    <2>6. Accepts(t, r) /\ Alike(Apply(t, r), mem')
      BY <2>4, <2>5, AlikeApply DEF Accepts
    <2> QED BY <1>u, <2>1, <2>2, <2>5, <2>6 DEF InMemory
  <1>6. CASE AdapterDeclines
    <2>1. /\ pc = "adapter" /\ pc' = "idle" /\ disk' = disk
          /\ mem' = MarkUncertain(mem, rec.cmd, rec.prior)
      BY <1>6 DEF AdapterDeclines, MayReachAdapter, storeVars
    <2> QED BY <1>u, <1>d, <2>1 DEF InMemory
  <1>7. CASE AdapterFails
    <2>1. /\ pc = "adapter" /\ pc' = "idle" /\ disk' = disk
          /\ mem' = Latch(MarkUncertain(mem, rec.cmd, rec.prior))
      BY <1>7 DEF AdapterFails, MayReachAdapter, storeVars
    <2>2. Alike(t, mem')
      BY <1>0, <1>d, <2>1, LatchAlike, MarkUncertainTyped
    <2> QED BY <1>u, <2>1, <2>2 DEF InMemory
  <1>8. CASE ObserveUnknown
    <2>1. pc = "idle" /\ mem' = Latch(mem) /\ UNCHANGED <<pc, disk, gate>>
      BY <1>8 DEF ObserveUnknown, storeVars
    <2>2. gate = "open" => Alike(t, mem')
      BY <1>0, <1>m, <2>1, LatchAlike DEF InMemory
    <2> QED BY <1>u, <2>1, <2>2 DEF InMemory
  <1>9. ASSUME NEW c \in Command, BeginResolve(c)
        PROVE  Goal
    <2>1. /\ pc = "idle" /\ gate = "open" /\ pc' = "append" /\ UNCHANGED <<disk, mem, gate>>
          /\ rec'.kind = "resolution" /\ rec'.cmd = c
          /\ mem.row[c].st = "uncertain" /\ mem.row[c].id = 0
      BY <1>9 DEF BeginResolve, Idle, storeVars
    <2>2. PICK r \in Record : r = rec'
      BY <2>1, TypeStep DEF TypeInv
    <2>3. Accepts(mem, r) /\ Alike(t, mem)
      BY <1>m, <2>1, <2>2 DEF Accepts, InMemory
    <2>4. Accepts(t, r)
      BY <1>0, <2>3, AlikeApply
    <2> QED BY <1>u, <2>1, <2>2, <2>3, <2>4 DEF InMemory
  <1>10. CASE AppendRecord
    <2>1. /\ pc = "append" /\ pc' = "commit" /\ disk' = Appended(disk)
          /\ UNCHANGED <<rec, mem, gate>>
      BY <1>10 DEF AppendRecord
    <2>2. PICK u \in Tables : u = Apply(t, rec)
      BY <1>a, <2>1, ApplyTyped
    <2>3. rec.kind # "accepted" => Alike(u, Apply(mem, rec))
      BY <1>0, <1>a, <2>1, <2>2, AlikeApply
    <2>4. InMemory(u)'
      BY <1>a, <2>1, <2>2, <2>3 DEF InMemory, Alike
    <2> QED BY <1>r, <2>1, <2>2, <2>4
  <1>11. CASE AppendFails
    <2>1. /\ pc = "append" /\ pc' = "idle" /\ gate' = "closed"
          /\ disk' \in {disk, Appended(disk)}
      BY <1>11 DEF AppendFails
    <2>2. \A x : InMemory(x)'
      BY <1>g, <2>1
    <2> QED BY <1>r, <1>u, <2>1, <2>2
  <1>12. CASE CommitRecord
    <2>1. /\ pc = "commit" /\ disk' = Committed(disk) /\ rec \in Record
          /\ pc' # "replay"
      BY <1>12 DEF CommitRecord, TypeInv
    <2>2. disk'.snap = disk.snap /\ disk'.tail = disk.tail /\ disk'.committed = n
      BY <1>0, <2>1 DEF Committed, Stream
    <2>3. Alike(t, IF rec.kind = "accepted" THEN mem ELSE Apply(mem, rec))
      BY <1>m, <2>1 DEF InMemory
    <2>4. ~Fresh(disk')
      BY <1>0, <2>1, <2>2 DEF Fresh, Committing
    <2>5. InMemory(t)'
      <3>1. CASE rec.kind = "dispatch"
        <4>1. pc' = "adapter" /\ UNCHANGED <<rec, mem>>
          BY <1>12, <3>1 DEF CommitRecord
        <4> QED BY <2>3, <3>1, <4>1 DEF InMemory, Alike
      <3>2. CASE rec.kind = "resolution"
        <4>1. pc' = "idle" /\ mem' = Settle(mem, rec.cmd, rec.id, rec.status)
          BY <1>12, <3>2 DEF CommitRecord
        <4>2. mem' = Apply(mem, rec)
          BY <3>2, <4>1 DEF Apply
        <4> QED BY <2>3, <3>2, <4>1, <4>2 DEF InMemory, Alike
      <3>3. CASE rec.kind = "accepted"
        <4>1. pc' = "idle" /\ mem' = mem
          BY <1>12, <3>3 DEF CommitRecord
        <4> QED BY <2>3, <3>3, <4>1 DEF InMemory, Alike
      <3>4. CASE rec.kind \in {"archive", "economic"}
        <4>1. pc' = "seal"
          BY <1>12, <3>4 DEF CommitRecord
        <4> QED BY <2>4, <4>1 DEF InMemory
      <3> QED BY <2>1, <3>1, <3>2, <3>3, <3>4, RecordKinds
    <2> QED BY <1>0, <1>s, <2>1, <2>2, <2>5
  <1>13. CASE CommitFails
    <2>1. pc' = "idle" /\ gate' = "closed" /\ disk' \in {disk, Committed(disk)}
      BY <1>13 DEF CommitFails
    <2>2. disk'.snap = disk.snap /\ disk'.tail = disk.tail /\ disk'.committed >= disk.committed
      BY <1>0, <2>1 DEF Committed, Stream
    <2>3. InMemory(t)'
      BY <1>g, <2>1
    <2> QED BY <1>s, <2>1, <2>2, <2>3
  <1>14. ASSUME NEW o \in Order, ArchiveOrder(o)
         PROVE  Goal
    <2>1. pc = "idle" /\ gate = "open" /\ pc' = "archived" /\ UNCHANGED <<disk, mem>>
      BY <1>14 DEF ArchiveOrder, Idle, storeVars
    <2> QED BY <1>m, <1>u, <2>1 DEF InMemory
  <1>15. CASE ArchiveEconomic
    <2>1. pc = "idle" /\ gate = "open" /\ pc' = "archived" /\ UNCHANGED <<disk, mem>>
      BY <1>15 DEF ArchiveEconomic, Idle, storeVars
    <2> QED BY <1>m, <1>u, <2>1 DEF InMemory
  <1>16. ASSUME NEW r \in Record, CatchUp(r), r.kind \in {"archive", "economic"}
         PROVE  Goal
    <2>1. /\ pc \in {"idle", "archived"} /\ gate = "open" /\ pc' \in {"append", "seal"}
          /\ rec' = r /\ Accepts(mem, r) /\ UNCHANGED <<disk, mem>>
      BY <1>16 DEF CatchUp, storeVars
    <2>2. Alike(t, mem)
      BY <1>m, <2>1 DEF InMemory
    <2>3. Accepts(t, r)
      BY <1>0, <2>1, <2>2, AlikeApply
    <2>4. InMemory(t)'
      BY <1>16, <2>1, <2>2, <2>3 DEF InMemory
    <2> QED BY <1>u, <2>1, <2>4
  <1>17. CASE Reclaim
    <2>1. shard.root \in Nat /\ shard.last \in Order
      BY <1>17 DEF Reclaim, TypeInv, TypeOK, ShardView
    <2>2. PICK r \in Record : r = [kind |-> "archive", order |-> shard.last,
                                   root |-> shard.root]
      BY <2>1, RecordRanges
    <2> QED BY <1>16, <1>17, <2>2 DEF Reclaim
  <1>18. CASE Acknowledge
    <2>1. shard.root \in Nat
      BY DEF TypeInv, TypeOK, ShardView
    <2>2. PICK r \in Record : r = [kind |-> "economic", root |-> shard.root]
      BY <2>1, RecordRanges
    <2> QED BY <1>16, <1>18, <2>2 DEF Acknowledge
  <1>19. CASE FinishCheckpoint
    <2>1. pc = "idle" /\ gate = "open" /\ pc' = "seal" /\ UNCHANGED <<disk, mem>>
      BY <1>19 DEF FinishCheckpoint, Idle, storeVars
    <2> QED BY <1>m, <1>u, <2>1 DEF InMemory
  <1>20. CASE CheckpointFresh
    <2>1. /\ pc = "seal" /\ Fresh(disk) /\ pc' = "idle" /\ disk' = disk
          /\ \/ disk.snap = cand /\ mem' = cand
             \/ mem' = CheckpointError(mem)
      BY <1>20 DEF CheckpointFresh, CheckpointDone, storeVars
    <2>2. t = disk.snap
      BY <1>f, <1>p, <2>1 DEF Fresh
    <2>3. Alike(t, mem')
      BY <1>0, <1>m, <2>1, <2>2, LatchAlike DEF InMemory, Alike
    <2> QED BY <1>u, <2>1, <2>3 DEF InMemory
  <1>21. CASE Seal
    <2>1. pc' = "publish" /\ disk'.snap = disk.snap /\ disk'.tail = disk.tail
          /\ disk'.committed = disk.committed
      BY <1>0, <1>21 DEF Seal, Sealed, Stream
    <2>2. InMemory(t)'
      BY <2>1 DEF InMemory
    <2> QED BY <1>0, <1>s, <2>1, <2>2
  <1>22. CASE Publish
    <2>1. pc = "publish" /\ pc' = "rotate" /\ disk' = Published(disk)
      BY <1>22 DEF Publish
    <2>2. \A x : InMemory(x)'
      BY <2>1 DEF InMemory
    <2> QED BY <1>b, <2>1, <2>2
  <1>23. CASE Rotate
    <2>1. /\ pc = "rotate" /\ pc' = "idle" /\ mem' = cand /\ disk'.snap = disk.snap
          /\ disk'.tail = disk.tail /\ disk'.committed = disk.committed
      BY <1>0, <1>23 DEF Rotate, Rotated, CheckpointDone, Stream
    <2>2. t = cand
      BY <1>f, <1>p, <2>1 DEF Committing
    <2>3. InMemory(t)'
      BY <2>1, <2>2 DEF InMemory, Alike
    <2> QED BY <1>0, <1>s, <2>1, <2>3
  <1>24. CASE CheckpointFails
    <2>1. /\ pc' = "idle" /\ gate' = "closed"
          /\ \/ disk' \in {disk, Sealed(disk), Rotated(disk)}
             \/ pc = "publish" /\ disk' = Published(disk)
      BY <1>24 DEF CheckpointFails
    <2>2. \A x : InMemory(x)'
      BY <1>g, <2>1
    <2>3. CASE disk' \in {disk, Sealed(disk), Rotated(disk)}
      <3>1. /\ disk'.snap = disk.snap /\ disk'.tail = disk.tail
            /\ disk'.committed = disk.committed
        BY <1>0, <2>3 DEF Sealed, Rotated, Stream
      <3> QED BY <1>0, <1>s, <2>1, <2>2, <3>1
    <2> QED BY <1>b, <2>1, <2>2, <2>3
  <1>25. CASE Crash
    <2>1. /\ pc' = "down" /\ gate' = "closed"
          /\ disk' \in {disk, [disk EXCEPT !.tail = SubSeq(@, 1, disk.committed)]}
      BY <1>25 DEF Crash
    <2>2. \A x : InMemory(x)'
      BY <1>g, <2>1
    <2>3. CASE disk' = [disk EXCEPT !.tail = SubSeq(@, 1, disk.committed)]
      <3>1. /\ disk'.tail = SubSeq(disk.tail, 1, disk.committed)
            /\ disk'.snap = disk.snap /\ disk'.committed = disk.committed
        BY <1>0, <2>3 DEF Stream
      <3>2. /\ Len(disk'.tail) = disk.committed
            /\ \E g : Trace(g, disk') /\ \A i \in 0 .. disk.committed : g[i] = f[i]
        BY <1>0, <1>f, <3>1, TraceCut
      <3>3. PICK g : Trace(g, disk') /\ \A i \in 0 .. disk.committed : g[i] = f[i]
        BY <3>2
      <3>4. Follows(f, g)
        BY <1>0, <3>1, <3>2, <3>3 DEF Follows
      <3>5. Replays(g)'
        BY <2>1, <2>2, <3>3 DEF Replays, Trace, InMemory, Alike
      <3> QED BY <3>4, <3>5
    <2> QED BY <1>u, <2>1, <2>2, <2>3
  <1>26. CASE Recover
    <2>1. pc' = "replay" /\ cand' = disk.snap /\ idx' = 0 /\ disk' = disk
      BY <1>26 DEF Recover
    <2>2. InMemory(t)'
      BY <2>1 DEF InMemory
    <2> QED BY <1>0, <1>f, <1>s, <2>1, <2>2
  <1>27. CASE ReplayRecord
    <2>1. /\ pc = "replay" /\ pc' = "replay" /\ idx < n /\ idx' = idx + 1
          /\ cand' = Apply(cand, disk.tail[idx + 1]) /\ disk' = disk
      BY <1>27 DEF ReplayRecord, storeVars
    <2>2. cand = f[idx]
      BY <2>1 DEF Replays
    <2>3. idx + 1 \in 1 .. n /\ (idx + 1) - 1 = idx
      BY <1>0, <2>1
    <2>4. f[idx + 1] = Apply(f[idx], disk.tail[idx + 1])
      BY <1>f, <2>3 DEF Trace
    <2>5. InMemory(t)' /\ idx' <= n /\ cand' = f[idx']
      BY <2>1, <2>2, <2>3, <2>4 DEF InMemory
    <2> QED BY <1>0, <1>s, <2>1, <2>5
  <1>28. CASE Attach
    <2>1. pc = "replay" /\ pc' = "idle" /\ mem' = cand /\ idx = n /\ disk' = disk
      BY <1>28 DEF Attach, storeVars
    <2>2. t = cand
      BY <1>p, <2>1 DEF Replays
    <2> QED BY <1>u, <2>1, <2>2 DEF InMemory, Alike
  <1> HIDE DEF Goal
  <1> QED
    BY <1>1, <1>2, <1>3, <1>4, <1>5, <1>6, <1>7, <1>8, <1>9, <1>10, <1>11, <1>12, <1>13,
       <1>14, <1>15, <1>17, <1>18, <1>19, <1>20, <1>21, <1>22, <1>23, <1>24, <1>25,
       <1>26, <1>27, <1>28
       DEF Next, GatewayNext, Send, Write, Archive, CheckpointStep, Restart, Goal

-----------------------------------------------------------------------------
(* Tables that stay good.                                                  *)

\* What is archived stays archived.
LEMMA ArchivedKept ==
    ASSUME TypeInv, SendInv, [Next]_vars
    PROVE  \A c \in Command : Archived(c) => Archived(c)'
  <1> SUFFICES ASSUME NEW c \in Command, Archived(c) PROVE Archived(c)'
    OBVIOUS
  <1>1. OrderOf[c] \in Order /\ old.root \in Nat
    BY GatewayAssumption DEF TypeInv, TypeOK, ShardView
  <1>2. PICK b \in Nat : b = old.root + 1
    BY <1>1
  <1>3. ArchFact(OrderOf[c], b)
    BY <1>1, <1>2 DEF ArchFact, Archived
  <1>4. ArchFact(OrderOf[c], b)'
    BY <1>1, <1>3, ViewsKept
  <1> QED BY <1>4 DEF ArchFact, Archived

\* Good tables stay good as long as nobody is answered and no root is committed.
LEMMA GoodKept ==
    ASSUME TypeInv, SendInv, [Next]_vars, told' = told, shard'.root = shard.root,
           NEW t \in Tables, Good(t)
    PROVE  Good(t)'
  BY ArchivedKept DEF Good, Near, Holds

LEMMA GoodAlike ==
    ASSUME NEW t \in Tables, NEW u \in Tables, Alike(t, u), Good(t)
    PROVE  Good(u)
  BY DEF Good, Near, Holds, Alike

\* They may change in the rows of unanswered commands.
LEMMA GoodRow ==
    ASSUME NEW t \in Tables, NEW u \in Tables, u.bound = t.bound, u.orderRoot = t.orderRoot,
           ~SnapshotsSurvive =>
               \A c \in Command : u.row[c] = t.row[c] \/ told[c].st = "none",
           Good(t)
    PROVE  Good(u)
  BY DEF Good, Near, Holds

LEMMA GoodApply ==
    ASSUME TypeInv, NEW t \in Tables, NEW r \in Record, Good(t),
           ~SnapshotsSurvive /\ r.kind \in {"dispatch", "accepted", "resolution"}
               => told[r.cmd].st = "none",
           r.kind \in {"archive", "economic"} => r.root = shard.root,
           r.kind = "archive" => shard.ord[r.order].state = "archived"
    PROVE  Good(Apply(t, r))
  <1>0. PICK u \in Tables : u = Apply(t, r)
    BY ApplyTyped
  <1>1. CASE r.kind \in {"dispatch", "accepted", "resolution"}
    <2>1. /\ u.bound = t.bound /\ u.orderRoot = t.orderRoot
          /\ u.row = [t.row EXCEPT ![r.cmd] = RowAfter(t.row[r.cmd], r)]
      BY <1>0, <1>1, ApplyCommand
    <2>2. \A c \in Command : c # r.cmd => u.row[c] = t.row[c]
      BY <2>1 DEF Tables
    <2>3. Good(u)
      BY <1>1, <2>1, <2>2, GoodRow
    <2> QED BY <1>0, <2>3
  <1>2. CASE r.kind \in {"archive", "economic"}
    <2>0. /\ t.bound \in Nat /\ t.orderRoot \in Nat /\ shard.root \in Nat
          /\ r.root = shard.root
      BY <1>2 DEF Tables, TypeInv, TypeOK, ShardView
    <2>1. /\ u.bound = shard.root
          /\ r.kind = "archive" => u.row = Cleared(t.row, r.order) /\ u.orderRoot = shard.root
          /\ r.kind = "economic" => u.row = t.row /\ u.orderRoot = t.orderRoot
      BY <1>0, <1>2, <2>0, ApplyRoot
    <2>2. Near(u)
      BY <1>2, <2>0, <2>1 DEF Near, Good
    <2>3. ~SnapshotsSurvive => Holds(u)
      BY <1>2, <2>1 DEF Good, Holds, Cleared, Archived
    <2> QED BY <1>0, <2>2, <2>3 DEF Good
  <1> QED BY <1>1, <1>2, RecordKinds

\* The steps that answer a caller, and the steps that commit a root.
LEMMA QuietSteps ==
    ASSUME TypeInv, [Next]_vars
    PROVE  /\ told' = told \/ CommitRecord
           /\ \/ shard'.root = shard.root
              \/ \E o \in Order : ArchiveOrder(o)
              \/ ArchiveEconomic
  <1>1. told' = told \/ CommitRecord
    <2>1. ShardNext => told' = told
      BY ShardStepLeaves DEF ghosts
    <2> QED
      BY <2>1
         DEF Next, GatewayNext, Send, Write, Archive, CheckpointStep, Restart, vars, ghosts,
         BeginSend, Refuse, AdapterAccepts, AdapterDeclines, AdapterFails, ObserveUnknown,
         AppendRecord, AppendFails, CommitFails, BeginResolve, ArchiveOrder,
         ArchiveEconomic, Reclaim, Acknowledge, CatchUp, FinishCheckpoint, CheckpointFresh,
         Seal, Publish, Rotate, CheckpointFails, Crash, Recover, ReplayRecord, Attach
  <1>2. \/ shard'.root = shard.root
        \/ \E o \in Order : ArchiveOrder(o)
        \/ ArchiveEconomic
    BY ViewSteps, ShardStepLeaves DEF Crash, TypeInv, TypeOK
  <1> QED BY <1>1, <1>2

-----------------------------------------------------------------------------
(* What is said of the shard, the snapshots and the answers.               *)

\* The record of a handler that is under way is kept, made from nothing or dropped.
LEMMA HandlerSteps ==
    ASSUME TypeInv, [Next]_vars
    PROVE  \/ pc' \in {"idle", "down", "replay", "archived"}
           \/ UNCHANGED <<pc, rec, mem, cand, shard, told, disk, history, wire>>
           \/ \E c \in Command, v \in {shard, old} : BeginSend(c, v)
           \/ \E c \in Command : BeginResolve(c)
           \/ AdapterAccepts
           \/ Reclaim \/ Acknowledge \/ FinishCheckpoint
           \/ AppendRecord \/ Seal \/ Publish
           \/ CommitRecord
  <1>1. ShardNext => pc' \in {"idle", "down", "replay", "archived"}
    BY ShardStepLeaves DEF ShardNext
  <1> QED
    BY <1>1
       DEF Next, GatewayNext, Send, Write, Archive, CheckpointStep, Restart, vars, ghosts,
       storeVars, shardVars,
       Refuse, AdapterDeclines, AdapterFails, ObserveUnknown,
       AppendFails, CommitFails, ArchiveOrder, ArchiveEconomic, CheckpointFresh,
       CheckpointDone, Rotate, CheckpointFails, Crash, Recover, ReplayRecord, Attach

\* No archive is begun while one is unfinished, so the roots never run ahead.
LEMMA CaughtUp ==
    ASSUME TypeInv, ShardRoots, Good(mem), PreviousComplete, Acknowledged
    PROVE  mem.bound = shard.root
  <1>1. /\ mem.bound \in Nat /\ mem.orderRoot \in Nat /\ shard.root \in Nat
        /\ shard.kind \in {"none", "order", "other"}
    BY DEF TypeInv, TypeOK, Tables, ShardView
  <1>2. Near(mem)
    BY DEF Good
  <1> QED BY <1>1, <1>2 DEF Near, ShardRoots, PreviousComplete, Acknowledged

LEMMA RootsStep ==
    ASSUME TypeInv, ShardRoots, [Next]_vars
    PROVE  ShardRoots'
  <1>0. /\ shard \in ShardView /\ shard.root \in Nat /\ mem \in Tables
        /\ mem.bound \in Nat /\ cand \in Tables
    BY DEF TypeInv, TypeOK, ShardView, Tables
  <1> DEFINE K == /\ shard.kind = "none" => shard.root = 0
                  /\ shard.kind = "order" => shard.orderRoot = shard.root /\ shard.root > 0
  <1>1. K'
    <2>1. ASSUME NEW o \in Order, ArchiveOrder(o) PROVE K'
      <3>1. /\ shard'.root = shard.root + 1 /\ shard'.orderRoot = shard.root + 1
            /\ shard'.kind = "order"
        BY <1>0, <2>1 DEF ArchiveOrder, ShardView
      <3> QED BY <1>0, <3>1
    <2>2. CASE ArchiveEconomic
      <3>1. shard'.kind = "other"
        BY <1>0, <2>2 DEF ArchiveEconomic, ShardView
      <3> QED BY <3>1
    <2>3. CASE ShardNext
      BY <1>0, <2>3, ShardStepLeaves DEF ShardRoots
    <2>4. CASE UNCHANGED <<shard, old>> \/ Crash
      BY <2>4 DEF ShardRoots, Crash
    <2> QED BY <2>1, <2>2, <2>3, <2>4, ViewSteps
  <1>2. (Writing /\ Archives => rec.root = shard.root /\ cand.bound = rec.root)'
    <2> SUFFICES ASSUME Writing', Archives'
                 PROVE  (rec.root = shard.root /\ cand.bound = rec.root)'
      OBVIOUS
    <2>1. ASSUME NEW r \in Record, CatchUp(r), r.root = shard.root,
                 r.kind \in {"archive", "economic"}
          PROVE  (rec.root = shard.root /\ cand.bound = rec.root)'
      <3>1. rec' = r /\ cand' = Apply(mem, r) /\ shard' = shard
        BY <2>1 DEF CatchUp, shardVars
      <3>2. Apply(mem, r).bound = r.root
        BY <1>0, <2>1, ApplyRoot
      <3> QED BY <2>1, <3>1, <3>2
    <2>2. CASE Reclaim
      <3>1. shard.last \in Order
        BY <2>2 DEF Reclaim, TypeInv
      <3>2. PICK r \in Record : r = [kind |-> "archive", order |-> shard.last,
                                     root |-> shard.root]
        BY <1>0, <3>1, RecordRanges
      <3> QED BY <2>1, <2>2, <3>2 DEF Reclaim
    <2>3. CASE Acknowledge
      <3>1. PICK r \in Record : r = [kind |-> "economic", root |-> shard.root]
        BY <1>0, RecordRanges
      <3> QED BY <2>1, <2>3, <3>1 DEF Acknowledge
    <2>4. CASE UNCHANGED <<pc, rec, mem, cand, shard, told, disk, history, wire>>
      BY <2>4 DEF ShardRoots, Writing, Archives
    <2>5. CASE AppendRecord
      BY <2>5 DEF AppendRecord, ShardRoots, Writing, Archives, shardVars
    <2>6. CASE CommitRecord
      BY <2>6 DEF CommitRecord, Writing
    <2>7. CASE \E c \in Command, v \in {shard, old} : BeginSend(c, v)
      BY <2>7 DEF BeginSend, Archives
    <2>8. CASE \E c \in Command : BeginResolve(c)
      BY <2>8 DEF BeginResolve, Archives
    <2>9. CASE AdapterAccepts
      BY <2>9 DEF AdapterAccepts, Archives
    <2>10. CASE FinishCheckpoint \/ Seal \/ Publish
      BY <2>10 DEF FinishCheckpoint, Seal, Publish, Writing
    <2>11. CASE pc' \in {"idle", "down", "replay", "archived"}
      BY <2>11 DEF Writing
    <2> QED BY <2>2, <2>3, <2>4, <2>5, <2>6, <2>7, <2>8, <2>9, <2>10, <2>11, HandlerSteps
  <1>3. (pc = "archived" /\ shard.kind = "order" => Unsettled(mem, shard.last) = {})'
    <2>1. ASSUME NEW o \in Order, ArchiveOrder(o)
          PROVE  (Unsettled(mem, shard.last) = {})'
      <3>1. shard'.last = o /\ mem' = mem /\ Unsettled(mem, o) = {}
        BY <1>0, <2>1 DEF ArchiveOrder, Archivable, ShardView
      <3> QED BY <3>1 DEF Unsettled
    <2>2. CASE ArchiveEconomic
      <3>1. shard'.kind = "other"
        BY <1>0, <2>2 DEF ArchiveEconomic, ShardView
      <3> QED BY <3>1
    <2>3. CASE pc' # "archived"
      BY <2>3
    <2>4. CASE UNCHANGED vars
      BY <2>4 DEF vars, shardVars, ShardRoots, Unsettled
    <2>5. ShardNext => pc' # "archived"
      BY ShardStepLeaves DEF ShardNext
    <2> QED
      BY <2>1, <2>2, <2>3, <2>4, <2>5
         DEF Next, GatewayNext, Send, Write, Archive, CheckpointStep, Restart,
         BeginSend, Refuse, AdapterAccepts, AdapterDeclines, AdapterFails, ObserveUnknown,
         AppendRecord, AppendFails, CommitRecord, CommitFails, BeginResolve,
         Reclaim, Acknowledge, CatchUp, FinishCheckpoint, CheckpointFresh, CheckpointDone,
         Seal, Publish, Rotate, CheckpointFails, Crash, Recover, ReplayRecord, Attach
  <1> QED BY <1>1, <1>2, <1>3 DEF ShardRoots

LEMMA StaleStep ==
    ASSUME TypeInv, SendInv, Committing, ShardRoots, ~SnapshotsSurvive, StaleRefused,
           [Next]_vars
    PROVE  StaleRefused'
  <1>0. /\ shard \in ShardView /\ shard.root \in Nat /\ old.root \in Nat /\ old' \in ShardView
        /\ mem \in Tables /\ mem.bound \in Nat /\ cand \in Tables /\ cand.bound \in Nat
        /\ mem' \in Tables /\ mem'.bound \in Nat /\ cand' \in Tables /\ cand'.bound \in Nat
        /\ old'.root \in Nat
    BY TypeStep DEF TypeInv, TypeOK, ShardView, Tables
  <1>m. \A a, b \in Nat : Stale(a) /\ a <= b => Stale(b)
    BY <1>0 DEF Stale
  <1>u. ASSUME UNCHANGED <<shard, old>> PROVE \A b : Stale(b) => Stale(b)'
    BY <1>u DEF Stale, Archived
  <1>c. shard' = shard /\ old' = shard => \A b : Stale(b)'
    BY DEF Stale, SendInv, ArchivedForgotten, Archived
  <1>1. CASE ShardNext
    <2>1. UNCHANGED <<pc, rec, mem, cand, gate, disk>>
      BY <1>1, ShardStepLeaves DEF storeVars
    <2>2. \A b : Stale(b) => Stale(b)'
      <3>1. CASE old' = old
        BY <1>1, <3>1, ShardKeepsArchived, GatewayAssumption DEF Stale, Archived
      <3>2. CASE old' = shard /\ shard' = shard
        BY <1>c, <3>2
      <3> QED BY <1>1, <3>1, <3>2, ShardKeepsArchived
    <2>3. pc \in {"idle", "down"} /\ ~Candidate' /\ ~Writing'
      BY <1>1, <2>1 DEF ShardNext, Candidate, Writing
    <2> QED BY <2>1, <2>2, <2>3 DEF StaleRefused
  <1>2. CASE ArchiveEconomic \/ \E o \in Order : ArchiveOrder(o)
    <2>1. pc' = "archived" /\ old' = old /\ shard'.root = shard.root + 1
      BY <1>0, <1>2 DEF ArchiveEconomic, ArchiveOrder, ShardView
    <2>2. old'.root < shard'.root
      BY <1>0, <2>1 DEF SendInv, RootsOrdered
    <2>3. Stale(shard.root)'
      BY <2>2 DEF Stale
    <2> QED BY <2>1, <2>3 DEF StaleRefused, Writing, Candidate
  <1>3. CASE Crash
    <2>1. pc' = "down" /\ shard' = shard /\ old' = shard
      BY <1>3 DEF Crash
    <2>2. \A b : Stale(b)'
      BY <1>c, <2>1
    <2> QED BY <2>1, <2>2 DEF StaleRefused, Writing, Candidate
  <1>4. CASE UNCHANGED <<shard, old>>
    <2>0. \A b : Stale(b) => Stale(b)'
      BY <1>4, <1>u
    <2>1. ASSUME Stale(mem.bound), mem'.bound = mem.bound, ~Candidate',
                 pc' \notin {"archived", "down", "replay"}
          PROVE  StaleRefused'
      BY <2>0, <2>1 DEF StaleRefused, Candidate
    <2>2. ASSUME Stale(cand.bound), cand'.bound = cand.bound, ~(Writing /\ Sends)',
                 pc' \in {"append", "commit", "publish", "rotate"}
          PROVE  StaleRefused'
      BY <2>0, <2>2 DEF StaleRefused, Writing
    <2>3. ASSUME NEW r \in Record, CatchUp(r), r.root = shard.root,
                 r.kind \in {"archive", "economic"}
          PROVE  StaleRefused'
      <3>1. /\ rec' = r /\ cand' = Apply(mem, r) /\ mem' = mem /\ shard' = shard
            /\ pc' = (IF mem.bound = r.root THEN "seal" ELSE "append")
            /\ gate = "open" /\ pc \in {"idle", "archived"}
            /\ Accepts(mem, r)
        BY <2>3 DEF CatchUp, shardVars
      <3>2. cand'.bound = r.root
        BY <1>0, <2>3, <3>1, ApplyRoot
      <3>3. mem.bound <= r.root /\ r.root \in Nat
        BY <1>0, <2>3, <3>1 DEF Accepts, ChainsFrom
      <3>4. Stale(r.root)
        BY <1>0, <1>m, <2>3, <3>1, <3>3 DEF StaleRefused
      <3>5. Stale(r.root)'
        <4>1. PICK b \in Nat : b = r.root
          BY <3>3
        <4>2. Stale(b)'
          BY <2>0, <3>4, <4>1
        <4> QED BY <4>1, <4>2
      <3> QED BY <2>3, <3>1, <3>2, <3>5 DEF StaleRefused, Writing, Sends, Stale
    <2>4. CASE Reclaim
      <3>1. shard.last \in Order
        BY <2>4 DEF Reclaim, TypeInv
      <3>2. PICK r \in Record : r = [kind |-> "archive", order |-> shard.last,
                                     root |-> shard.root]
        BY <1>0, <3>1, RecordRanges
      <3> QED BY <2>3, <2>4, <3>2 DEF Reclaim
    <2>5. CASE Acknowledge
      <3>1. PICK r \in Record : r = [kind |-> "economic", root |-> shard.root]
        BY <1>0, RecordRanges
      <3> QED BY <2>3, <2>5, <3>1 DEF Acknowledge
    <2>6. ASSUME NEW c \in Command, NEW v \in {shard, old}, BeginSend(c, v)
          PROVE  StaleRefused'
      BY <2>1, <2>6 DEF BeginSend, Idle, StaleRefused, Candidate
    <2>7. ASSUME NEW c \in Command, BeginResolve(c)
          PROVE  StaleRefused'
      BY <2>1, <2>7 DEF BeginResolve, Idle, StaleRefused, Candidate
    <2>8. CASE Refuse \/ AdapterAccepts \/ AdapterDeclines \/ AdapterFails
      <3>1. pc = "adapter" /\ rec.cmd \in Command /\ rec.prior \in Nat
        BY <2>8, DispatchRecordFields
           DEF Refuse, AdapterAccepts, AdapterDeclines, AdapterFails, MayReachAdapter
      <3>2. PICK t \in Tables : t = MarkUncertain(mem, rec.cmd, rec.prior)
        BY <1>0, <3>1, MarkUncertainTyped
      <3>3. t.bound = mem.bound
        BY <1>0, <3>2 DEF MarkUncertain, Tables
      <3>4. mem' = t \/ mem' = Latch(t) \/ mem' = MarkAccepted(t, rec.cmd)
        BY <2>8, <3>2 DEF Refuse, AdapterAccepts, AdapterDeclines, AdapterFails
      <3>5. mem'.bound = mem.bound
        BY <3>3, <3>4 DEF Latch, MarkAccepted, Tables
      <3>6. pc' \in {"idle", "append"} /\ ~Candidate'
        BY <2>8 DEF Refuse, AdapterAccepts, AdapterDeclines, AdapterFails, Candidate
      <3> QED BY <2>1, <3>1, <3>5, <3>6 DEF StaleRefused
    <2>9. CASE ObserveUnknown
      <3>1. pc = "idle" /\ pc' = "idle" /\ mem'.bound = mem.bound /\ gate' = gate
        BY <1>0, <2>9 DEF ObserveUnknown, Latch, Tables, storeVars
      <3> QED BY <2>0, <3>1 DEF StaleRefused, Candidate, Writing
    <2>10. CASE AppendRecord
      <3>1. /\ pc = "append" /\ pc' = "commit" /\ UNCHANGED <<rec, mem, cand>>
            /\ rec \in Record
        BY <2>10 DEF AppendRecord, TypeInv
      <3>2. CASE Sends
        BY <2>1, <3>1, <3>2 DEF StaleRefused, Writing, Sends, Candidate
      <3>3. CASE Archives
        BY <2>2, <3>1, <3>3 DEF StaleRefused, Writing, Sends, Archives, Candidate
      <3> QED BY <3>1, <3>2, <3>3, RecordKinds DEF Sends, Archives
    <2>11. CASE CommitRecord
      <3>1. pc = "commit" /\ rec \in Record /\ cand' = cand /\ disk' = Committed(disk)
        BY <2>11 DEF CommitRecord, TypeInv
      <3>2. CASE rec.kind \in {"dispatch", "accepted"}
        <4>1. pc' \in {"adapter", "idle"} /\ mem' = mem
          BY <2>11, <3>2 DEF CommitRecord
        <4> QED BY <2>1, <3>1, <3>2, <4>1 DEF StaleRefused, Writing, Sends, Candidate
      <3>3. CASE rec.kind = "resolution"
        <4>1. pc' = "idle" /\ mem' = Settle(mem, rec.cmd, rec.id, rec.status)
          BY <2>11, <3>3 DEF CommitRecord
        <4>2. mem'.bound = mem.bound
          BY <1>0, <4>1 DEF Settle, Tables
        <4> QED BY <2>1, <3>1, <3>3, <4>1, <4>2 DEF StaleRefused, Writing, Sends, Candidate
      <3>4. CASE rec.kind \in {"archive", "economic"}
        <4>1. pc' = "seal"
          BY <2>11, <3>4 DEF CommitRecord
        <4>2. ~Fresh(disk')
          <5>1. disk.tail \in Seq(Record) /\ disk'.tail = disk.tail /\ Len(disk.tail) > 0
            BY <3>1 DEF Committing, TypeInv, TypeOK, Stream, Committed
          <5> QED BY <5>1 DEF Fresh
        <4> QED BY <2>0, <3>1, <3>4, <4>1, <4>2 DEF StaleRefused, Candidate, Writing
      <3> QED BY <3>1, <3>2, <3>3, <3>4, RecordKinds
    <2>12. CASE AppendFails \/ CommitFails \/ CheckpointFails
      BY <2>12 DEF AppendFails, CommitFails, CheckpointFails, StaleRefused, Candidate, Writing
    <2>13. CASE FinishCheckpoint
      <3>1. /\ pc = "idle" /\ gate = "open" /\ pc' = "seal" /\ cand' = mem /\ mem' = mem
        BY <2>13 DEF FinishCheckpoint, Idle
      <3> QED BY <2>0, <3>1 DEF StaleRefused, Candidate, Writing
    <2>14. CASE CheckpointFresh
      <3>1. /\ pc = "seal" /\ Fresh(disk) /\ pc' = "idle"
            /\ mem' = cand \/ mem' = CheckpointError(mem)
        BY <2>14 DEF CheckpointFresh, CheckpointDone
      <3>2. mem'.bound = cand.bound \/ mem'.bound = mem.bound
        BY <1>0, <3>1 DEF CheckpointError, Latch, Tables
      <3>3. Stale(mem.bound) /\ Stale(cand.bound)
        BY <3>1 DEF StaleRefused, Candidate
      <3> QED BY <2>0, <3>1, <3>2, <3>3 DEF StaleRefused, Candidate, Writing
    <2>15. CASE Seal \/ Publish
      <3>1. /\ pc \in {"seal", "publish"} /\ pc' \in {"publish", "rotate"} /\ cand' = cand
        BY <2>15 DEF Seal, Publish
      <3> QED BY <2>2, <3>1 DEF StaleRefused, Candidate, Writing
    <2>16. CASE Rotate
      <3>1. pc = "rotate" /\ pc' = "idle" /\ mem' = cand
        BY <2>16 DEF Rotate, CheckpointDone
      <3> QED BY <2>0, <3>1 DEF StaleRefused, Candidate, Writing
    <2>17. CASE Recover \/ ReplayRecord
      <3>1. pc \in {"down", "replay"} /\ pc' = "replay"
        BY <2>17 DEF Recover, ReplayRecord
      <3> QED BY <2>0, <3>1 DEF StaleRefused, Candidate, Writing
    <2>18. CASE Attach
      <3>1. pc = "replay" /\ pc' = "idle"
        BY <2>18 DEF Attach
      <3>2. Stale(mem'.bound)
        BY <1>0, <1>m, <3>1 DEF StaleRefused
      <3> QED BY <1>0, <2>0, <3>1, <3>2 DEF StaleRefused, Candidate, Writing
    <2>19. CASE UNCHANGED vars
      BY <2>0, <2>19
         DEF vars, storeVars, shardVars, StaleRefused, Candidate, Writing, Sends, Fresh
    <2> QED
      BY <1>1, <1>2, <1>3, <2>4, <2>5, <2>6, <2>7, <2>8, <2>9, <2>10, <2>11, <2>12, <2>13,
         <2>14, <2>15, <2>16, <2>17, <2>18, <2>19
         DEF Next, GatewayNext, Send, Write, Archive, CheckpointStep, Restart
  <1> QED BY <1>1, <1>2, <1>3, <1>4, ViewSteps

LEMMA AttemptedStep ==
    ASSUME TypeInv, SendInv, ~SnapshotsSurvive,
           StaleRefused, Attempted, HistoryTrue,
           pc = "idle" /\ gate = "open" => Good(mem),
           [Next]_vars
    PROVE  Attempted'
  <1>0. /\ mem \in Tables /\ told \in [Command -> Row] /\ wire \in [Command -> Nat]
        /\ shard \in ShardView /\ old \in ShardView
        /\ mem.bound \in Nat /\ old.root \in Nat
    BY DEF TypeInv, TypeOK, Tables, ShardView
  <1>q. ASSUME pc' \notin {"append", "commit", "adapter"} PROVE Attempted'
    BY <1>q DEF Attempted, Writing
  <1>1. CASE pc' \in {"idle", "down", "replay", "archived"}
    BY <1>1, <1>q
  <1>2. CASE UNCHANGED <<pc, rec, mem, cand, shard, told, disk, history, wire>>
    BY <1>2 DEF Attempted, Writing, Sends, Archived
  <1>3. ASSUME NEW c \in Command, NEW v \in {shard, old}, BeginSend(c, v)
        PROVE  Attempted'
    <2>1. /\ pc = "idle" /\ gate = "open" /\ pc' = "append" /\ UNCHANGED <<shard, told>>
          /\ rec'.kind = "dispatch" /\ rec'.cmd = c
          /\ mem.row[c].st = "none" /\ BindingAdmits(v) /\ v.cmdRev[c] # 0
      BY <1>3 DEF BeginSend, Idle, Current, shardVars, ghosts
    <2>2. ~Archived(c)
      <3>1. CASE v = shard
        BY <2>1, <3>1 DEF SendInv, ArchivedForgotten
      <3>2. CASE v = old
        BY <1>0, <2>1, <3>2 DEF StaleRefused, Stale, BindingAdmits
      <3> QED BY <3>1, <3>2
    <2>3. told[c].st = "none"
      BY <2>1, <2>2 DEF Good, Holds
    <2> QED BY <2>1, <2>2, <2>3 DEF Attempted, Writing, Sends, Archived
  <1>4. ASSUME NEW c \in Command, BeginResolve(c)
        PROVE  Attempted'
    <2>1. /\ pc = "idle" /\ gate = "open" /\ pc' = "append" /\ UNCHANGED <<shard, told, mem>>
          /\ rec'.kind = "resolution" /\ rec'.cmd = c /\ rec'.id = shard.ord[OrderOf[c]].recon
          /\ mem.row[c].st = "uncertain" /\ mem.row[c].id = 0 /\ shard.cmdRev[c] # 0
          /\ shard.ord[OrderOf[c]].recon > mem.row[c].prior
      BY <1>4 DEF BeginResolve, Reconciled, Idle, shardVars, ghosts
    <2>2. ~Archived(c)
      BY <2>1 DEF SendInv, ArchivedForgotten
    <2>3. told[c].st = "none"
      BY <2>1, <2>2 DEF Good, Holds, HistoryTrue
    <2>4. rec'.id # 0
      BY <1>0, <2>1, TableFields, OrderViewFields, GatewayAssumption
    <2> QED BY <2>1, <2>2, <2>3, <2>4 DEF Attempted, Writing, Sends, Archived
  <1>5. CASE AdapterAccepts
    <2>1. /\ pc = "adapter" /\ pc' = "append" /\ UNCHANGED <<shard, told>>
          /\ rec' = [kind |-> "accepted", cmd |-> rec.cmd]
          /\ mem' = MarkAccepted(MarkUncertain(mem, rec.cmd, rec.prior), rec.cmd)
          /\ wire' = [wire EXCEPT ![rec.cmd] = @ + 1]
          /\ rec.cmd \in Command /\ rec.prior \in Nat
      BY <1>5, DispatchRecordFields DEF AdapterAccepts, MayReachAdapter, shardVars
    <2>2. PICK t \in Tables : t = MarkUncertain(mem, rec.cmd, rec.prior)
      BY <1>0, <2>1, MarkUncertainTyped
    <2>3. mem'.row[rec.cmd].st = "accepted"
      BY <2>1, <2>2 DEF MarkAccepted, Tables, Row
    <2>4. wire'[rec.cmd] = 1
      BY <1>0, <2>1 DEF SendInv, FirstAttempt
    <2> QED BY <2>1, <2>3, <2>4 DEF Attempted, Writing, Sends, Archived
  <1>6. CASE Reclaim \/ Acknowledge \/ FinishCheckpoint
    BY <1>6 DEF Reclaim, Acknowledge, CatchUp, FinishCheckpoint, Checkpoint, Attempted,
                Writing, Sends
  <1>7. CASE AppendRecord
    BY <1>7 DEF AppendRecord, Attempted, Writing, Sends, Archived, shardVars, ghosts
  <1>8. CASE Seal \/ Publish
    BY <1>8, <1>q DEF Seal, Publish
  <1>9. CASE CommitRecord
    <2>1. CASE rec.kind = "dispatch"
      BY <1>9, <2>1 DEF CommitRecord, Attempted, Writing, Sends, Archived, shardVars
    <2>2. CASE rec.kind # "dispatch"
      BY <1>9, <2>2, <1>q DEF CommitRecord
    <2> QED BY <2>1, <2>2
  <1> QED BY <1>1, <1>2, <1>3, <1>4, <1>5, <1>6, <1>7, <1>8, <1>9, HandlerSteps

\* The steps that hand a command over, answer a caller or publish to the history.
LEMMA GhostSteps ==
    ASSUME TypeInv, [Next]_vars
    PROVE  \/ UNCHANGED <<wire, told, history>> /\ ~\E o \in Order : ArchiveOrder(o)
           \/ /\ pc = "adapter" /\ wire' = [wire EXCEPT ![rec.cmd] = @ + 1]
              /\ UNCHANGED <<told, history, shard>>
           \/ CommitRecord
           \/ \E o \in Order : ArchiveOrder(o)
  <1>1. ShardNext => UNCHANGED <<wire, told, history>>
    BY ShardStepLeaves DEF ghosts
  <1> QED
    BY <1>1
       DEF Next, GatewayNext, Send, Write, Archive, CheckpointStep, Restart, vars, ghosts,
       shardVars, MayReachAdapter,
       BeginSend, Refuse, AdapterAccepts, AdapterDeclines, AdapterFails, ObserveUnknown,
       AppendRecord, AppendFails, CommitFails, BeginResolve,
       ArchiveEconomic, Reclaim, Acknowledge, CatchUp, FinishCheckpoint, CheckpointFresh,
       Seal, Publish, Rotate, CheckpointFails, Crash, Recover, ReplayRecord, Attach

\* No step but an archive archives an order.
LEMMA ArchivedSame ==
    ASSUME TypeInv, [Next]_vars, ~\E o \in Order : ArchiveOrder(o)
    PROVE  \A c \in Command : Archived(c)' <=> Archived(c)
  <1>1. CASE ShardNext
    BY <1>1, ShardKeepsArchived, GatewayAssumption DEF Archived
  <1>2. CASE ArchiveEconomic
    <2>1. shard'.ord = shard.ord
      BY <1>2 DEF ArchiveEconomic, TypeInv, TypeOK, ShardView
    <2> QED BY <2>1 DEF Archived
  <1>3. CASE UNCHANGED <<shard, old>> \/ Crash
    BY <1>3 DEF Archived, Crash
  <1> QED BY <1>1, <1>2, <1>3, ViewSteps

LEMMA HistoryStep ==
    ASSUME TypeInv, SendInv, Good(mem) \/ pc \in {"down", "replay"}, ~SnapshotsSurvive,
           Attempted, HistoryTrue, [Next]_vars
    PROVE  HistoryTrue'
  <1>0. /\ mem \in Tables /\ told \in [Command -> Row] /\ wire \in [Command -> Nat]
        /\ shard \in ShardView /\ history \in [Command -> Row] /\ told' \in [Command -> Row]
    BY TypeStep DEF TypeInv, TypeOK
  <1>1. CASE UNCHANGED <<wire, told, history>> /\ ~\E o \in Order : ArchiveOrder(o)
    BY <1>1, ArchivedSame DEF HistoryTrue
  <1>2. CASE /\ pc = "adapter" /\ wire' = [wire EXCEPT ![rec.cmd] = @ + 1]
             /\ UNCHANGED <<told, history, shard>>
    BY <1>0, <1>2 DEF HistoryTrue, Attempted, Archived
  <1>3. CASE CommitRecord
    <2>1. pc = "commit" /\ UNCHANGED <<shard, history, wire>> /\ rec \in Record
      BY <1>3 DEF CommitRecord, TypeInv, shardVars
    <2>2. CASE told' = told
      BY <2>1, <2>2 DEF HistoryTrue, Archived
    <2>3. CASE rec.kind = "accepted"
      <3>1. told' = [told EXCEPT ![rec.cmd] = mem.row[rec.cmd]]
        BY <1>3, <2>3 DEF CommitRecord
      <3>2. ~Archived(rec.cmd) /\ mem.row[rec.cmd].st = "accepted" /\ rec.cmd \in Command
        BY <2>1, <2>3, RecordKinds DEF Attempted, Writing, Sends
      <3> QED BY <1>0, <2>1, <3>1, <3>2 DEF HistoryTrue, Archived
    <2>4. CASE rec.kind = "resolution"
      <3>1. /\ told' = [told EXCEPT ![rec.cmd] = mem'.row[rec.cmd]]
            /\ mem' = Settle(mem, rec.cmd, rec.id, rec.status)
        BY <1>3, <2>4 DEF CommitRecord
      <3>2. ~Archived(rec.cmd) /\ rec.id # 0 /\ rec.id > mem.row[rec.cmd].prior /\ rec.cmd \in Command
        BY <2>1, <2>4, RecordKinds DEF Attempted, Writing, Sends
      <3>3. mem'.row[rec.cmd].id = rec.id /\ mem'.row[rec.cmd].prior = mem.row[rec.cmd].prior
        <4>1. mem' = Apply(mem, rec)
          BY <2>4, <3>1 DEF Apply
        <4>2. mem'.row = [mem.row EXCEPT ![rec.cmd] = RowAfter(mem.row[rec.cmd], rec)]
          BY <1>0, <2>1, <2>4, <4>1, ApplyCommand
        <4>3. mem.row[rec.cmd] \in Row
          BY <1>0, <3>2 DEF Tables
        <4>4. mem'.row[rec.cmd] = RowAfter(mem.row[rec.cmd], rec)
          BY <1>0, <3>2, <4>2 DEF Tables
        <4>5. RowAfter(mem.row[rec.cmd], rec) = [st |-> mem.row[rec.cmd].st, prior |-> mem.row[rec.cmd].prior,
                                                 id |-> rec.id, status |-> rec.status]
          BY <2>4 DEF RowAfter
        <4> QED BY <4>4, <4>5
      <3> QED BY <1>0, <2>1, <3>1, <3>2, <3>3 DEF HistoryTrue, Archived
    <2> QED BY <1>3, <2>1, <2>2, <2>3, <2>4 DEF CommitRecord
  <1>4. ASSUME NEW o \in Order, ArchiveOrder(o)
        PROVE  HistoryTrue'
    <2>1. /\ pc = "idle" /\ UNCHANGED <<wire, told>>
          /\ history' = [c \in Command |-> IF OrderOf[c] = o THEN mem.row[c] ELSE history[c]]
          /\ Unsettled(mem, o) = {} /\ shard.ord[o].state = "terminal"
          /\ shard'.ord = [shard.ord EXCEPT ![o] = [NoOrderView EXCEPT !.state = "archived"]]
      BY <1>0, <1>4 DEF ArchiveOrder, Archivable, Idle, ghosts, ShardView
    <2> SUFFICES ASSUME NEW c \in Command
                 PROVE  (/\ told[c].st = "uncertain" => told[c].id # 0 /\ told[c].id > told[c].prior
                         /\ Archived(c) /\ told[c].st # "none" => history[c] = told[c]
                         /\ Archived(c) /\ wire[c] > 0 =>
                              history[c].st = "accepted" \/ history[c].id # 0)'
      BY DEF HistoryTrue
    <2>2. CASE OrderOf[c] # o
      <3>1. Archived(c)' <=> Archived(c)
        BY <1>0, <2>1, <2>2, GatewayAssumption DEF Archived, ShardView
      <3> QED BY <2>1, <2>2, <3>1 DEF HistoryTrue
    <2>3. CASE OrderOf[c] = o
      <3>1. ~Archived(c) /\ history'[c] = mem.row[c]
        BY <2>1, <2>3 DEF Archived
      <3>2. told[c].st # "none" => mem.row[c] = told[c]
        BY <2>1, <3>1 DEF Good, Holds
      <3>3. wire[c] > 0 => mem.row[c].st # "none"
        BY <2>1, <3>1 DEF SendInv, MemCovers, Covered, Gone, ArchFact, Archived
      <3>4. mem.row[c].st \in {"none", "accepted", "uncertain"}
        BY <1>0, TableFields DEF Row
      <3>5. mem.row[c].st = "uncertain" => mem.row[c].id # 0
        BY <2>1, <2>3 DEF Unsettled, CommandsOf
      <3> QED BY <2>1, <3>1, <3>2, <3>3, <3>4, <3>5 DEF HistoryTrue
    <2> QED BY <2>2, <2>3
  <1> QED BY <1>1, <1>2, <1>3, <1>4, GhostSteps

\* Memory stays good under every step that answers nobody and commits no root.
LEMMA MemoryStep ==
    ASSUME TypeInv, SendInv, Committing, ShardRoots, AnswerInv,
           NEW f, Replays(f), AllGood(f), [Next]_vars,
           told' = told, shard'.root = shard.root,
           pc' \notin {"down", "replay"}, NEW m \in Tables, m = mem'
    PROVE  Good(m)
  <1>0. /\ mem \in Tables /\ cand \in Tables /\ disk \in Stream
        /\ disk.committed \in Nat /\ Len(disk.tail) \in Nat
        /\ disk.committed <= Len(disk.tail)
    BY DEF TypeInv, TypeOK, Stream
  <1>m. pc \notin {"down", "replay"} => Good(mem)
    BY DEF AllGood
  <1>c. Candidate => Good(cand)
    BY DEF AllGood
  <1>l. ASSUME NEW t \in Tables, Good(t) PROVE Good(Latch(t)) /\ Good(CheckpointError(t))
    BY <1>l, LatchAlike, GoodAlike, BindLatchTyped, CheckpointErrorTyped DEF Alike
  <1>t. pc \in {"append", "commit", "adapter"} /\ rec.kind \in {"dispatch", "accepted", "resolution"}
          => (~SnapshotsSurvive => told[rec.cmd].st = "none")
    BY DEF AnswerInv, Attempted, Writing, Sends
  <1>u. ASSUME NEW c \in Command, NEW k \in Nat, Good(mem), ~SnapshotsSurvive => told[c].st = "none"
        PROVE  /\ Good(MarkUncertain(mem, c, k)) /\ MarkUncertain(mem, c, k) \in Tables
               /\ Good(MarkAccepted(MarkUncertain(mem, c, k), c))
    <2>1. PICK t \in Tables : t = MarkUncertain(mem, c, k)
      BY <1>0, MarkUncertainTyped
    <2>2. PICK u \in Tables : u = MarkAccepted(t, c)
      BY MarkAcceptedTyped
    <2>3. /\ t.bound = mem.bound /\ t.orderRoot = mem.orderRoot
          /\ \A d \in Command : d # c => t.row[d] = mem.row[d]
      BY <1>0, <2>1 DEF MarkUncertain, Tables
    <2>4. /\ u.bound = t.bound /\ u.orderRoot = t.orderRoot
          /\ \A d \in Command : d # c => u.row[d] = t.row[d]
      BY <2>2 DEF MarkAccepted, Tables
    <2>5. Good(t)
      BY <1>0, <1>u, <2>3, GoodRow
    <2>6. Good(u)
      BY <1>u, <2>4, <2>5, GoodRow
    <2> QED BY <2>1, <2>2, <2>5, <2>6
  <1>k. CASE mem' = mem /\ pc \notin {"down", "replay"}
    BY <1>k, <1>m
  <1>1. CASE UNCHANGED vars
    BY <1>1, <1>k DEF vars
  <1>2. CASE ShardNext
    <2>1. mem' = mem /\ pc' = pc /\ pc \in {"idle", "down"}
      BY <1>2, ShardStepLeaves DEF ShardNext
    <2> QED BY <1>k, <2>1
  <1>3. CASE Refuse \/ AdapterAccepts \/ AdapterDeclines \/ AdapterFails
    <2>1. /\ pc = "adapter" /\ rec.cmd \in Command /\ rec.prior \in Nat /\ rec.kind = "dispatch"
      BY <1>3, DispatchRecordFields
         DEF Refuse, AdapterAccepts, AdapterDeclines, AdapterFails, MayReachAdapter, TypeInv,
             DispatchRecord
    <2>2. PICK t \in Tables : t = MarkUncertain(mem, rec.cmd, rec.prior)
      BY <1>0, <2>1, MarkUncertainTyped
    <2>3. Good(t) /\ Good(MarkAccepted(t, rec.cmd))
      BY <1>m, <1>t, <1>u, <2>1, <2>2
    <2>4. mem' = t \/ mem' = Latch(t) \/ mem' = MarkAccepted(t, rec.cmd)
      BY <1>3, <2>2 DEF Refuse, AdapterAccepts, AdapterDeclines, AdapterFails
    <2> QED BY <1>l, <2>3, <2>4
  <1>4. CASE ObserveUnknown
    BY <1>0, <1>4, <1>l, <1>m DEF ObserveUnknown
  <1>5. CASE AppendFails \/ CommitFails
    <2>1. PICK b \in BOOLEAN : mem' = AfterFailure(b)
      BY <1>5 DEF AppendFails, CommitFails
    <2>2. pc \in {"append", "commit"} /\ rec \in Record /\ Good(mem)
      BY <1>5, <1>m DEF AppendFails, CommitFails, TypeInv
    <2>3. CASE rec.kind = "dispatch"
      <3>1. rec.cmd \in Command /\ rec.prior \in Nat
        BY <2>2, <2>3, RecordKinds
      <3>2. PICK t \in Tables : t = MarkUncertain(mem, rec.cmd, rec.prior)
        BY <1>0, <3>1, MarkUncertainTyped
      <3>3. Good(t)
        BY <1>t, <1>u, <2>2, <2>3, <3>1, <3>2
      <3>4. mem' = Latch(t) \/ mem' = Latch(mem)
        BY <2>1, <2>3, <3>2 DEF AfterFailure
      <3> QED BY <1>0, <1>l, <2>2, <3>3, <3>4
    <2>4. CASE rec.kind = "accepted"
      <3>1. rec.cmd \in Command /\ mem.row[rec.cmd].prior \in Nat
        BY <1>0, <2>2, <2>4, RecordKinds, TableFields
      <3>2. PICK t \in Tables : t = MarkUncertain(mem, rec.cmd, mem.row[rec.cmd].prior)
        BY <1>0, <3>1, MarkUncertainTyped
      <3>3. Good(t)
        BY <1>t, <1>u, <2>2, <2>4, <3>1, <3>2
      <3>4. mem' = Latch(t)
        BY <2>1, <2>4, <3>2 DEF AfterFailure
      <3> QED BY <1>l, <3>3, <3>4
    <2>5. CASE rec.kind \in {"resolution", "archive", "economic"}
      <3>1. mem' = Latch(mem) \/ mem' = mem
        BY <2>1, <2>5 DEF AfterFailure
      <3> QED BY <1>0, <1>l, <2>2, <3>1
    <2> QED BY <2>2, <2>3, <2>4, <2>5, RecordKinds
  <1>6. CASE CommitRecord
    <2>1. pc = "commit" /\ rec \in Record /\ Good(mem)
      BY <1>6, <1>m DEF CommitRecord, TypeInv
    <2>2. CASE rec.kind = "resolution"
      <3>1. mem' = Apply(mem, rec)
        BY <1>6, <2>2 DEF CommitRecord, Apply
      <3> QED BY <1>0, <1>t, <2>1, <2>2, <3>1, GoodApply
    <2>3. CASE rec.kind # "resolution"
      BY <1>6, <2>1, <2>3 DEF CommitRecord
    <2> QED BY <2>2, <2>3
  <1>7. CASE CheckpointFresh \/ CheckpointFails
    <2>1. /\ pc \in {"seal", "publish", "rotate"}
          /\ mem' = cand \/ mem' = CheckpointError(mem)
      BY <1>7 DEF CheckpointFresh, CheckpointFails, CheckpointDone
    <2> QED BY <1>0, <1>c, <1>l, <1>m, <2>1 DEF Candidate
  <1>8. CASE Rotate
    BY <1>8, <1>c DEF Rotate, CheckpointDone, Candidate
  <1>9. CASE Attach
    <2>1. mem' = f[Len(disk.tail)]
      BY <1>9 DEF Attach, Replays
    <2>2. Good(f[Len(disk.tail)])
      BY <1>0 DEF AllGood
    <2> QED BY <2>1, <2>2
  <1>10. CASE \/ AppendRecord \/ Seal \/ Publish \/ Archive
              \/ \E c \in Command : BeginResolve(c)
              \/ \E c \in Command, v \in {shard, old} : BeginSend(c, v)
    <2>1. mem' = mem /\ pc \notin {"down", "replay"}
      BY <1>10 DEF AppendRecord, Seal, Publish, Archive, ArchiveOrder, ArchiveEconomic, Idle,
                   Reclaim, Acknowledge, CatchUp, FinishCheckpoint, BeginResolve, BeginSend
    <2> QED BY <1>k, <2>1
  <1>11. CASE Crash \/ Recover \/ ReplayRecord
    BY <1>11 DEF Crash, Recover, ReplayRecord
  <1> QED
    BY <1>1, <1>2, <1>3, <1>4, <1>5, <1>6, <1>7, <1>8, <1>9, <1>10, <1>11
       DEF Next, GatewayNext, Send, Write, CheckpointStep, Restart

\* So does the candidate of a checkpoint.
LEMMA CandidateStep ==
    ASSUME TypeInv, SendInv, ShardRoots, Good(mem) \/ pc \in {"down", "replay"},
           Candidate => Good(cand), [Next]_vars,
           told' = told, shard'.root = shard.root, Candidate', NEW m \in Tables, m = cand'
    PROVE  Good(m)
  <1>0. mem \in Tables /\ cand \in Tables /\ shard \in ShardView /\ shard.root \in Nat
    BY DEF TypeInv, TypeOK, ShardView
  <1>1. ASSUME NEW r \in Record, CatchUp(r), r.root = shard.root,
               r.kind \in {"archive", "economic"},
               r.kind = "archive" => shard.ord[r.order].state = "archived"
        PROVE  Good(m)
    <2>1. cand' = Apply(mem, r) /\ Good(mem)
      BY <1>1 DEF CatchUp
    <2> QED BY <1>0, <1>1, <2>1, GoodApply
  <1>2. CASE Reclaim
    <2>1. shard.last \in Order /\ shard.ord[shard.last].state = "archived"
      BY <1>2 DEF Reclaim, TypeInv, SendInv, LastArchived, ArchFact
    <2>2. PICK r \in Record : r = [kind |-> "archive", order |-> shard.last,
                                   root |-> shard.root]
      BY <1>0, <2>1, RecordRanges
    <2> QED BY <1>1, <1>2, <2>1, <2>2 DEF Reclaim
  <1>3. CASE Acknowledge
    <2>1. PICK r \in Record : r = [kind |-> "economic", root |-> shard.root]
      BY <1>0, RecordRanges
    <2> QED BY <1>1, <1>3, <2>1 DEF Acknowledge
  <1>4. CASE FinishCheckpoint
    BY <1>4 DEF FinishCheckpoint, Idle
  <1>5. CASE UNCHANGED <<pc, rec, mem, cand, shard, told, disk, history, wire>>
    BY <1>5 DEF Candidate
  <1>6. CASE AppendRecord \/ Seal \/ Publish
    BY <1>6 DEF AppendRecord, Seal, Publish, Candidate
  <1>7. CASE CommitRecord
    <2>1. cand' = cand /\ pc = "commit" /\ rec.kind \in {"archive", "economic"}
      BY <1>7 DEF CommitRecord, Candidate
    <2> QED BY <2>1 DEF Candidate
  <1>8. CASE \/ pc' \in {"idle", "down", "replay", "archived"} \/ AdapterAccepts
             \/ \E c \in Command : BeginResolve(c)
             \/ \E c \in Command, v \in {shard, old} : BeginSend(c, v)
    BY <1>8 DEF Candidate, AdapterAccepts, BeginResolve, BeginSend
  <1> QED BY <1>2, <1>3, <1>4, <1>5, <1>6, <1>7, <1>8, HandlerSteps

LEMMA GoodStep ==
    ASSUME TypeInv, SendInv, Committing, ShardRoots, AnswerInv,
           NEW f, Replays(f), AllGood(f), [Next]_vars,
           NEW g, Replays(g)', Follows(f, g)
    PROVE  AllGood(g)'
  <1> DEFINE n == Len(disk.tail)
  <1>0. /\ mem \in Tables /\ cand \in Tables /\ disk \in Stream /\ shard \in ShardView
        /\ disk.committed \in Nat /\ n \in Nat /\ disk.committed <= n
        /\ mem' \in Tables /\ cand' \in Tables /\ disk' \in Stream
        /\ disk'.committed \in Nat /\ Len(disk'.tail) \in Nat
        /\ told \in [Command -> Row] /\ told' \in [Command -> Row]
    BY TypeStep DEF TypeInv, TypeOK, Stream
  <1>f. /\ \A i \in 0 .. n : f[i] \in Tables
        /\ \A i \in disk.committed .. n : Good(f[i]) /\ i \in 0 .. n
    BY <1>0, TraceTyped DEF AllGood, Replays
  <1>g. \A i \in 0 .. Len(disk'.tail) : g[i] \in Tables
    BY <1>0, TraceTyped DEF Replays
  <1>m. pc \notin {"down", "replay"} => Good(mem)
    BY DEF AllGood
  <1>1. CASE told' = told /\ shard'.root = shard.root
    <2>1. ASSUME NEW i \in disk'.committed .. Len(disk'.tail) PROVE Good(g[i])'
      <3>1. PICK t \in Tables : t = g[i]
        BY <1>0, <1>g
      <3>2. CASE i \in disk.committed .. n /\ g[i] = f[i]
        BY <1>1, <1>f, <3>1, <3>2, GoodKept
      <3>3. CASE pc = "append" /\ g[i] = Apply(f[n], rec)
        <4>1. PICK r \in Record : r = rec
          BY <3>3 DEF TypeInv
        <4>2. f[n] \in Tables /\ Good(f[n])
          BY <1>0, <1>f
        <4>3. /\ ~SnapshotsSurvive /\ r.kind \in {"dispatch", "accepted", "resolution"}
                   => told[r.cmd].st = "none"
              /\ r.kind \in {"archive", "economic"} => r.root = shard.root
              /\ r.kind = "archive" => shard.ord[r.order].state = "archived"
          BY <3>3, <4>1 DEF AnswerInv, Attempted, ShardRoots, Writing, Sends, Archives,
                            SendInv, RecordTrue, ArchFact
        <4>4. Good(t)
          BY <3>1, <3>3, <4>1, <4>2, <4>3, GoodApply
        <4> QED BY <1>1, <3>1, <4>4, GoodKept
      <3>4. CASE pc = "publish" /\ g[i] = cand
        BY <1>1, <3>1, <3>4, GoodKept DEF AllGood, Candidate
      <3> QED BY <3>2, <3>3, <3>4 DEF Follows
    <2>2. ASSUME pc' \notin {"down", "replay"} PROVE Good(mem)'
      <3>1. PICK m \in Tables : m = mem'
        BY <1>0
      <3>2. Good(m)'
        BY <1>1, <2>2, <3>1, MemoryStep, GoodKept
      <3> QED BY <3>1, <3>2 DEF Good, Near, Holds
    <2>3. ASSUME Candidate' PROVE Good(cand)'
      <3>1. PICK m \in Tables : m = cand'
        BY <1>0
      <3>2. Good(m)
        BY <1>1, <1>m, <2>3, <3>1, CandidateStep DEF AllGood
      <3>3. Good(m)'
        BY <1>1, <3>2, GoodKept
      <3> QED BY <3>1, <3>3 DEF Good, Near, Holds
    <2> QED BY <2>1, <2>2, <2>3 DEF AllGood, Good, Near, Holds
  <1>2. CASE ArchiveEconomic \/ \E o \in Order : ArchiveOrder(o)
    <2>1. /\ pc = "idle" /\ gate = "open" /\ pc' = "archived"
          /\ UNCHANGED <<mem, disk, told>> /\ shard'.root = shard.root + 1
          /\ PreviousComplete /\ Acknowledged
      BY <1>0, <1>2 DEF ArchiveEconomic, ArchiveOrder, Idle, storeVars, ghosts, ShardView
    <2>2. mem.bound = shard.root /\ Good(mem)
      BY <1>m, <2>1, CaughtUp
    <2>3. Good(mem)'
      <3>1. Near(mem)'
        BY <1>0, <2>1, <2>2 DEF Near, Good, Tables, ShardView
      <3>2. ~SnapshotsSurvive => Holds(mem)'
        BY <2>1, <2>2, ArchivedKept DEF Good, Holds
      <3> QED BY <3>1, <3>2 DEF Good
    <2>4. Alike(f[n], mem) /\ disk.committed = n
      BY <2>1 DEF Replays, InMemory, Committing
    <2>5. ASSUME NEW i \in disk'.committed .. Len(disk'.tail) PROVE Good(g[i])'
      <3>1. i = n /\ g[i] = f[n]
        BY <1>0, <2>1, <2>4 DEF Follows
      <3>2. PICK t \in Tables : t = g[i]
        BY <1>0, <1>g
      <3>3. Good(t)'
        BY <2>1, <2>3, <2>4, <3>1, <3>2 DEF Good, Near, Holds, Alike
      <3> QED BY <3>2, <3>3 DEF Good, Near, Holds
    <2>6. ~Candidate'
      BY <2>1 DEF Candidate
    <2> QED BY <2>3, <2>5, <2>6 DEF AllGood, Good, Near, Holds
  <1>3. CASE CommitRecord /\ told' # told
    <2>1. /\ pc = "commit" /\ rec \in Record /\ disk' = Committed(disk) /\ shard' = shard
          /\ rec.kind \in {"accepted", "resolution"} /\ pc' = "idle"
          /\ told' = [told EXCEPT ![rec.cmd] = mem'.row[rec.cmd]]
          /\ mem' = (IF rec.kind = "accepted" THEN mem ELSE Apply(mem, rec))
      BY <1>3 DEF CommitRecord, TypeInv, shardVars, Apply
    <2>2. rec.cmd \in Command /\ disk'.committed = n /\ disk'.tail = disk.tail
      BY <1>0, <2>1, RecordKinds DEF Committed, Stream
    <2>3. Alike(f[n], mem')
      BY <2>1 DEF Replays, InMemory
    <2>4. PICK m \in Tables : m = mem'
      BY <1>0
    <2>5. Good(m)
      <3>1. rec.kind # "accepted" => Good(Apply(mem, rec))
        BY <1>0, <1>m, <2>1, GoodApply DEF AnswerInv, Attempted, Writing, Sends
      <3> QED BY <1>m, <2>1, <2>4, <3>1
    <2>6. Good(m)'
      <3>1. Near(m)'
        BY <2>1, <2>5 DEF Good, Near
      <3>2. ~SnapshotsSurvive => Holds(m)'
        BY <1>0, <2>1, <2>2, <2>4, <2>5 DEF Good, Holds, Archived
      <3> QED BY <3>1, <3>2 DEF Good
    <2>7. Good(mem)'
      BY <2>4, <2>6 DEF Good, Near, Holds
    <2>8. ASSUME NEW i \in disk'.committed .. Len(disk'.tail) PROVE Good(g[i])'
      <3>1. i = n /\ g[i] = f[n]
        BY <1>0, <2>1, <2>2 DEF Follows
      <3>2. PICK t \in Tables : t = g[i]
        BY <1>0, <1>g
      <3>3. Good(t)'
        BY <2>3, <2>4, <2>6, <3>1, <3>2 DEF Good, Near, Holds, Alike
      <3> QED BY <3>2, <3>3 DEF Good, Near, Holds
    <2>9. ~Candidate'
      BY <2>1 DEF Candidate
    <2> QED BY <2>7, <2>8, <2>9 DEF AllGood, Good, Near, Holds
  <1>4. CASE told' = told
    BY <1>1, <1>2, <1>4, QuietSteps
  <1>5. CommitRecord => shard'.root = shard.root
    BY DEF CommitRecord, shardVars
  <1> QED BY <1>1, <1>2, <1>3, <1>4, <1>5, QuietSteps

-----------------------------------------------------------------------------
(* The theorems.                                                           *)

LEMMA InitJournal == Init => JournalInv
  <1> SUFFICES ASSUME Init PROVE JournalInv
    OBVIOUS
  <1>0. /\ disk.snap = EmptyTables /\ disk.tail = <<>> /\ disk.committed = 0
        /\ disk \in Stream /\ mem = EmptyTables /\ pc = "idle" /\ gate = "open"
        /\ shard.root = 0 /\ shard.kind = "none"
    BY InitTyped DEF Init, TypeInv, TypeOK
  <1>1. Committing
    BY <1>0 DEF Committing
  <1>2. ShardRoots
    BY <1>0 DEF ShardRoots, Writing
  <1>3. Good(EmptyTables)
    BY <1>0 DEF Init, Good, Near, Holds, EmptyTables, NoRow
  <1>4. AnswerInv
    <2>1. \A c \in Command : shard.ord[OrderOf[c]].state # "archived"
      BY GatewayAssumption DEF Init, NoOrderView
    <2>2. StaleRefused
      BY <1>0, <2>1 DEF StaleRefused, Stale, Archived, Writing, Candidate
    <2>3. Attempted
      BY <1>0 DEF Attempted, Writing
    <2>4. HistoryTrue
      BY <2>1 DEF Init, HistoryTrue, Archived, NoRow
    <2> QED BY <2>2, <2>3, <2>4 DEF AnswerInv
  <1>5. PICK f : Trace(f, disk) /\ f[0] = disk.snap
    BY <1>0, TraceNew
  <1>6. f[Len(disk.tail)] = EmptyTables /\ Len(disk.tail) = 0
    BY <1>0, <1>5
  <1>7. Replays(f)
    BY <1>0, <1>5, <1>6 DEF Replays, InMemory, Alike
  <1>8. AllGood(f)
    BY <1>0, <1>3, <1>6 DEF AllGood, Candidate
  <1> QED BY <1>1, <1>2, <1>4, <1>7, <1>8 DEF JournalInv

LEMMA JournalStep == TypeInv /\ SendInv /\ JournalInv /\ [Next]_vars => JournalInv'
  <1> SUFFICES ASSUME TypeInv, SendInv, JournalInv, [Next]_vars PROVE JournalInv'
    OBVIOUS
  <1>1. Committing /\ ShardRoots /\ AnswerInv
    BY DEF JournalInv
  <1>2. PICK f : Replays(f) /\ AllGood(f)
    BY DEF JournalInv
  <1>3. Committing' /\ ShardRoots'
    BY <1>1, CommittingStep, RootsStep
  <1>4. AnswerInv'
    <2> SUFFICES ASSUME ~SnapshotsSurvive PROVE (StaleRefused /\ Attempted /\ HistoryTrue)'
      BY DEF AnswerInv
    <2>1. StaleRefused /\ Attempted /\ HistoryTrue
      BY <1>1 DEF AnswerInv
    <2>2. /\ pc = "idle" /\ gate = "open" => Good(mem)
          /\ Good(mem) \/ pc \in {"down", "replay"}
      BY <1>2 DEF AllGood
    <2> QED BY <1>1, <2>1, <2>2, StaleStep, AttemptedStep, HistoryStep
  <1>5. PICK g : Replays(g)' /\ Follows(f, g)
    BY <1>1, <1>2, LogStep
  <1>6. AllGood(g)'
    BY <1>1, <1>2, <1>5, GoodStep
  <1> QED BY <1>3, <1>4, <1>5, <1>6 DEF JournalInv

LEMMA JournalInvariant == Spec => [](TypeInv /\ SendInv /\ JournalInv)
  <1>1. Init => TypeInv /\ SendInv /\ JournalInv
    BY InitTyped, InitSends, InitJournal
  <1>2. TypeInv /\ SendInv /\ JournalInv /\ [Next]_vars => (TypeInv /\ SendInv /\ JournalInv)'
    BY TypeStep, SendStep, JournalStep
  <1> QED BY <1>1, <1>2, PTL DEF Spec

\* Recovery accepts every committed record the gateway's own writers produced,
\* whatever crashes and store failures cut the log, for any commands and bounds
\* (attachRecoveredDurableDispatch).
THEOREM LogRecovers == Spec => []RecoverableLog
  <1>1. TypeInv /\ JournalInv => RecoverableLog
    <2> SUFFICES ASSUME TypeInv, JournalInv, pc = "replay", idx < Len(disk.tail)
                 PROVE  Accepts(cand, disk.tail[idx + 1])
      BY DEF RecoverableLog
    <2>1. PICK f : Replays(f)
      BY DEF JournalInv
    <2>2. idx + 1 \in 1 .. Len(disk.tail) /\ (idx + 1) - 1 = idx
      BY DEF TypeInv, TypeOK, Stream
    <2>3. Accepts(f[idx], disk.tail[idx + 1])
      BY <2>1, <2>2 DEF Replays, Trace
    <2> QED BY <2>1, <2>3 DEF Replays
  <1> QED BY <1>1, JournalInvariant, PTL

\* The gateway is never more than one business-history root behind the shard,
\* so that one unfinished archive can always be resumed
\* (completePreviousOrderArchive, acknowledgeEconomicHistory).
THEOREM LagsAtMostOne == Spec => []LagAtMostOne
  <1>1. TypeInv /\ JournalInv => LagAtMostOne
    BY DEF LagAtMostOne, JournalInv, AllGood, Good, Near, ShardRoots
  <1> QED BY <1>1, JournalInvariant, PTL

\* Where no snapshot outlives a restart, an answer given to a caller survives
\* restarts, store failures and archives unchanged.
THEOREM AnswersKept ==
    ASSUME ~SnapshotsSurvive
    PROVE  Spec => []AnswersSurvive
  <1>1. JournalInv => AnswersSurvive
    BY DEF AnswersSurvive, JournalInv, AnswerInv, HistoryTrue, AllGood, Good, Holds
  <1> QED BY <1>1, JournalInvariant, PTL

\* Where no snapshot outlives a restart, whatever reached the adapter can be
\* proved from the dispatch stream or from the business history.
THEOREM AttemptsProved ==
    ASSUME ~SnapshotsSurvive
    PROVE  Spec => []DurableProof
  <1>1. SendInv /\ JournalInv => DurableProof
    <2> SUFFICES ASSUME SendInv, JournalInv, NEW c \in Command, wire[c] > 0
                 PROVE  \/ OnDisk(c)
                        \/ /\ Archived(c)
                           /\ history[c].st = "accepted" \/ history[c].id # 0
      BY DEF DurableProof
    <2>1. HistoryTrue
      BY DEF JournalInv, AnswerInv
    <2>2. CASE \E i \in 1..disk.committed : DispatchOf(disk.tail[i], c)
      BY <2>2 DEF OnDisk, DispatchOf
    <2>3. CASE disk.snap.row[c].st # "none"
      BY <2>3 DEF OnDisk
    <2>4. CASE Gone(c, disk.snap.bound)
      <3>1. Archived(c)
        BY <2>4 DEF Gone, ArchFact, Archived
      <3> QED BY <2>1, <3>1 DEF HistoryTrue
    <2> QED BY <2>2, <2>3, <2>4 DEF SendInv, DiskCovers, Covered
  <1> QED BY <1>1, JournalInvariant, PTL

\* Where no snapshot outlives a restart, no command of an archived order is
\* handed to the adapter, although this process still holds older snapshots.
THEOREM ArchivedNotSent ==
    ASSUME ~SnapshotsSurvive
    PROVE  Spec => NoSendAfterArchive
  <1>1. TypeInv /\ JournalInv /\ [Next]_vars
          => [\A c \in Command : wire'[c] > wire[c] => ~Archived(c)]_vars
    <2> SUFFICES ASSUME TypeInv, JournalInv, [Next]_vars, NEW c \in Command,
                        wire'[c] > wire[c]
                 PROVE  ~Archived(c)
      OBVIOUS
    <2>0. wire \in [Command -> Nat]
      BY DEF TypeInv, TypeOK
    <2>1. CASE pc = "adapter" /\ wire' = [wire EXCEPT ![rec.cmd] = @ + 1]
      <3>1. c = rec.cmd
        BY <2>0, <2>1
      <3> QED BY <2>1, <3>1 DEF JournalInv, AnswerInv, Attempted
    <2>2. CASE wire' = wire
      BY <2>0, <2>2
    <2> QED
      BY <2>1, <2>2, GhostSteps DEF CommitRecord, ArchiveOrder, ghosts
  <1> QED BY <1>1, JournalInvariant, PTL DEF Spec, NoSendAfterArchive

\* Where no snapshot outlives a restart, the gateway implements the contract it
\* has with its callers: at most one hand-over and at most one answer for each
\* command, and no hand-over after an answer.
THEOREM GatewayKeepsContract ==
    ASSUME ~SnapshotsSurvive
    PROVE  Spec => ImplementsContract
  <1>1. Init => Contract!Init
    BY DEF Init, Contract!Init, NoRow
  <1>2. ASSUME TypeInv, SendInv, JournalInv, [Next]_vars
        PROVE  [Contract!Next]_<<wire, [c \in Command |-> told[c].st]>>
    <2> DEFINE answer == [c \in Command |-> told[c].st]
    <2>0. /\ wire \in [Command -> Nat] /\ told \in [Command -> Row]
          /\ mem \in Tables
      BY <1>2 DEF TypeInv, TypeOK
    <2>1. Attempted /\ FirstAttempt
      BY <1>2 DEF JournalInv, AnswerInv, SendInv
    <2>2. CASE UNCHANGED <<wire, told>>
      BY <2>2
    <2>3. CASE /\ pc = "adapter" /\ wire' = [wire EXCEPT ![rec.cmd] = @ + 1]
               /\ told' = told
      <3>1. rec.cmd \in Command /\ wire[rec.cmd] = 0 /\ told[rec.cmd].st = "none"
        BY <1>2, <2>1, <2>3, DispatchRecordFields DEF FirstAttempt, Attempted
      <3>2. wire' = [wire EXCEPT ![rec.cmd] = 1] /\ answer' = answer
        BY <2>0, <2>3, <3>1
      <3>3. Contract!Send(rec.cmd)
        BY <2>0, <3>1, <3>2 DEF Contract!Send
      <3> QED BY <3>1, <3>3 DEF Contract!Next
    <2>4. CASE CommitRecord /\ told' # told
      <3>1. /\ pc = "commit" /\ rec \in Record /\ rec.kind \in {"accepted", "resolution"}
            /\ wire' = wire /\ told' = [told EXCEPT ![rec.cmd] = mem'.row[rec.cmd]]
            /\ mem' = (IF rec.kind = "accepted" THEN mem ELSE Apply(mem, rec))
        BY <1>2, <2>4 DEF CommitRecord, TypeInv, Apply
      <3>2. rec.cmd \in Command /\ told[rec.cmd].st = "none"
        BY <2>1, <3>1, RecordKinds DEF Attempted, Writing, Sends
      <3>3. answer' = [answer EXCEPT ![rec.cmd] = mem'.row[rec.cmd].st]
        BY <2>0, <3>1, <3>2
      <3>4. CASE rec.kind = "accepted"
        <4>1. mem'.row[rec.cmd].st = "accepted" /\ wire[rec.cmd] = 1
          BY <2>1, <3>1, <3>4 DEF Attempted, Writing
        <4>2. PICK c \in Command : c = rec.cmd
          BY <3>2
        <4>3. Contract!Accept(c)
          BY <2>0, <3>1, <3>2, <3>3, <4>1, <4>2 DEF Contract!Accept
        <4>4. Contract!Next
          BY <4>3 DEF Contract!Next
        <4> QED BY <4>4
      <3>5. CASE rec.kind = "resolution"
        <4>1. mem'.row[rec.cmd].st = "uncertain"
          <5>1. mem'.row = [mem.row EXCEPT ![rec.cmd] = RowAfter(mem.row[rec.cmd], rec)]
            BY <2>0, <3>1, <3>5, ApplyCommand
          <5>2. mem.row[rec.cmd].st = "uncertain"
            BY <2>1, <3>1, <3>5 DEF Attempted, Writing
          <5> QED BY <2>0, <3>2, <3>5, <5>1, <5>2 DEF RowAfter, Tables
        <4>2. PICK c \in Command : c = rec.cmd
          BY <3>2
        <4>3. Contract!Settle(c)
          BY <2>0, <3>1, <3>2, <3>3, <4>1, <4>2 DEF Contract!Settle
        <4>4. Contract!Next
          BY <4>3 DEF Contract!Next
        <4> QED BY <4>4
      <3> QED BY <3>1, <3>4, <3>5
    <2>5. CommitRecord \/ (\E o \in Order : ArchiveOrder(o)) => wire' = wire
      BY DEF CommitRecord, ArchiveOrder, ghosts
    <2>6. (\E o \in Order : ArchiveOrder(o)) => told' = told
      BY DEF ArchiveOrder, ghosts
    <2> QED BY <1>2, <2>2, <2>3, <2>4, <2>5, <2>6, GhostSteps
  <1> QED
    BY <1>1, <1>2, JournalInvariant, PTL DEF Spec, ImplementsContract, Contract!Spec

=============================================================================

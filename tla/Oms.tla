--------------------------------- MODULE Oms ---------------------------------
(***************************************************************************)
(* The order management system of a trading shard                          *)
(* (src/src/execution/oms.zig) as the shard drives it                      *)
(* (src/src/trading/trading_shard.zig): intent groups, dispatch results,   *)
(* execution reports, reconciliation results and safety cancellations.     *)
(*                                                                         *)
(* An order is a record and each handler's effect on one order an operator *)
(* on that record.  Every handler of the code either takes all of its      *)
(* effect or none of it (MutationUndo, and the copy the shard works on): a *)
(* conflict alone leaves `recovery_only' behind.  The pressure that a      *)
(* refused group meets in createOrder is discarded with the shard's copy.  *)
(* An input that is refused and leaves nothing is not a step of the model. *)
(*                                                                         *)
(* Identities of intents, reports and reconciliation results are left out: *)
(* an exact duplicate has no effect in the code.  What is kept is the same *)
(* content under another identity, which the code processes in full.      *)
(***************************************************************************)
EXTENDS Integers, Sequences, FiniteSets

CONSTANTS
    Quantity,       \* lots an intent may ask for
    Atoms,          \* reservations the risk layer may attach to an intent
    Operations,     \* operations strategies use: "place", "amend", "replace", "cancel"
    Policies,       \* execution policies groups use
    MaxGroup,       \* max_group_members
    MaxLive,        \* max_live_orders
    MaxTerminal,    \* max_retained_terminal_orders
    Gated,          \* operational_state.initialized: safety gates cancel orders
    ReduceOnly      \* orders that only reduce a position, which gates spare

ASSUME OmsAssumption ==
    /\ Quantity \subseteq Nat \ {0} /\ Atoms \subseteq Nat \ {0}
    /\ Operations \subseteq {"place", "amend", "replace", "cancel"}
    /\ Policies \subseteq {"independent", "cancel_remaining"}
    /\ MaxGroup \in 1 .. 4 /\ MaxLive \in Nat \ {0} /\ MaxTerminal \in Nat \ {0}
    /\ Gated \in BOOLEAN /\ ReduceOnly \subseteq Nat

VARIABLES
    orders,             \* the orders, at the index that is their identity
    recovery_only,      \* a conflict was met: no order is created any more
    capacity_pressure   \* a table is full: nothing new is sent any more

omsVars == <<orders, recovery_only, capacity_pressure>>

-----------------------------------------------------------------------------
(* Data.                                                                   *)

OrderState == {"pending_submit", "live", "partially_filled", "pending_cancel",
               "pending_amend", "unknown", "filled", "canceled", "rejected"}
Terminal == {"filled", "canceled", "rejected"}
ReportStatus == {"accepted", "amended", "partially_filled"} \cup Terminal
DispatchState == {"not_sent", "submitted", "unknown"}

\* `atoms' stands for the limit price: the reservation of `qty' lots at it.
Command == [op : {"place", "amend", "cancel"}, rev : Nat, qty : Int, total : Nat,
            atoms : Nat]
Report == [status : ReportStatus, rev : Nat, cum : Nat, rem : Nat]
NoReport == [status |-> "accepted", rev |-> 0, cum |-> 0, rem |-> 0]
Result == [status : {"unresolved", "found_live", "confirmed_absent"} \cup Terminal,
           rev : Nat, cum : Nat, rem : Nat]
Replacement == [rev : Nat, cum : Nat, qty : Nat, atoms : Nat]
NoReplacement == [rev |-> 0, cum |-> 0, qty |-> 0, atoms |-> 0]

\* createOrder.  pbasis = 0 stands for the null pending_reservation; `totals' is
\* what report_history and command_history say of a revision's total quantity,
\* `settled' whether reconciliation_history holds a resolved result.
NewOrder(qty, atoms, group, policy, predecessor) ==
    [state |-> "pending_submit", rev |-> 1, qty |-> qty, cum |-> 0,
     res |-> atoms, active |-> TRUE, cres |-> atoms, cqty |-> qty, basis |-> qty,
     pres |-> 0, pbasis |-> 0, submitted |-> FALSE, repl |-> NoReplacement,
     group |-> group, policy |-> policy, predecessor |-> predecessor,
     last |-> NoReport, settled |-> FALSE, totals |-> [v \in {1} |-> qty], cmds |-> <<>>]

Ids == DOMAIN orders
LastCommand(o) == o.cmds[Len(o.cmds)]
Pending(o) == o.pbasis > 0
Total(r) == r.cum + r.rem
Greater(a, b) == IF a > b THEN a ELSE b

Emit(o, op, atoms) ==
    [o EXCEPT !.cmds = Append(@, [op |-> op, rev |-> o.rev, qty |-> o.qty - o.cum,
                                  total |-> o.qty, atoms |-> atoms])]

-----------------------------------------------------------------------------
(* Reservations.                                                           *)

\* scaledReservation: what `remaining' of `basis' lots needs, rounded up.
Scaled(atoms, remaining, basis) == (atoms * remaining + basis - 1) \div basis

\* Mutant of Rebalanced: the new price alone decides while an amend is unanswered.
RebalancedToPending(o, remaining) ==
    [o EXCEPT !.res = IF Pending(o) THEN o.pres ELSE Scaled(o.cres, remaining, o.basis)]

\* rebalanceReservation: the larger of what the confirmed specification needs
\* for the remaining lots and what the amend still unanswered would need.
Rebalanced(o, remaining) ==
    LET old == Scaled(o.cres, remaining, o.basis) IN
    [o EXCEPT !.res = IF Pending(o) THEN Greater(old, o.pres) ELSE old]

ClearPending(o) == [o EXCEPT !.pres = 0, !.pbasis = 0]
Release(o) == ClearPending([o EXCEPT !.active = FALSE, !.res = 0])

\* An amended specification is confirmed with `rem' lots left.
Promote(o, r) ==
    LET kept == IF Pending(o) THEN Scaled(o.pres, r.rem, o.pbasis) ELSE o.cres IN
    Rebalanced(ClearPending([o EXCEPT !.cres = kept, !.cqty = Total(r), !.qty = Total(r),
                                      !.basis = r.rem]), r.rem)

-----------------------------------------------------------------------------
(* Intent groups.                                                          *)

\* retainedTerminal; liveOrderCount
RetainedTerminal(o) ==
    /\ o.state \in Terminal /\ ~o.active /\ o.res = 0
    /\ ~Pending(o) /\ o.repl = NoReplacement
LiveCount(s) == Cardinality({i \in DOMAIN s : ~RetainedTerminal(s[i])})
TerminalCount(s) == Len(s) - LiveCount(s)

OrderCapacityReached(s) == LiveCount(s) >= MaxLive \/ Len(s) >= MaxLive + MaxTerminal
NoRoom(s) == OrderCapacityReached(s) \/ TerminalCount(s) >= MaxTerminal

\* blocksNewSend
Uncertain(o) == o.state \in {"unknown", "pending_cancel"}
BlocksNewSend(s, pressure) == pressure \/ \E i \in DOMAIN s : Uncertain(s[i])

\* An intent, with the fields its operation does not read left at zero.
Intent ==
    [op : Operations \cap {"place"}, target : {0}, qty : Quantity, atoms : Atoms]
    \cup [op : Operations \cap {"amend", "replace"}, target : Ids, qty : Quantity, atoms : Atoms]
    \cup [op : Operations \cap {"cancel"}, target : Ids, qty : {0}, atoms : {0}]

\* validateTarget.  An intent names the revision and the cumulative quantity it
\* was decided on; one that names others is refused, so it names the current ones.
Targetable(o) == o.state \in {"live", "partially_filled"}

Accepts(s, i) ==
    CASE i.op = "place"  -> ~recovery_only /\ ~NoRoom(s)
      [] i.op = "cancel" -> Targetable(s[i.target])
      [] OTHER -> Targetable(s[i.target]) /\ s[i.target].cqty >= s[i.target].cum

Cancel(o) == Emit([o EXCEPT !.state = "pending_cancel"], "cancel", 0)

\* A native amend: one more revision, both specifications reserved.
Amend(o, qty, atoms) ==
    LET asked == [o EXCEPT !.rev = @ + 1, !.state = "pending_amend", !.qty = o.cum + qty,
                           !.pres = atoms, !.pbasis = qty]
    IN Emit(Rebalanced(asked, o.cqty - o.cum), "amend", atoms)

\* The other amend: cancel, and place anew once the cancellation is confirmed.
CancelConfirmCreate(o, qty, atoms) ==
    Cancel([o EXCEPT !.repl = [rev |-> o.rev, cum |-> o.cum, qty |-> qty, atoms |-> atoms]])

Place(s, qty, atoms, group, policy, predecessor) ==
    Append(s, Emit(NewOrder(qty, atoms, group, policy, predecessor), "place", atoms))

\* applyIntent
ApplyIntent(s, i, group, policy) ==
    CASE i.op = "place" -> Place(s, i.qty, i.atoms, group, policy, 0)
      [] i.op = "amend" -> [s EXCEPT ![i.target] = Amend(@, i.qty, i.atoms)]
      [] i.op = "replace" -> [s EXCEPT ![i.target] = CancelConfirmCreate(@, i.qty, i.atoms)]
      [] i.op = "cancel" -> [s EXCEPT ![i.target] = Cancel(@)]

\* applyGroupInPlace: blocksNewSend is asked once, before the first member.
\* The group's identity is that of the first order it may create.
AfterMembers(g, policy) ==
    LET after[n \in 0 .. Len(g)] ==
          IF n = 0 THEN orders ELSE ApplyIntent(after[n - 1], g[n], Len(orders) + 1, policy)
    IN after

\* Mutant of AdmitsNew: a group is held back by a full table only.
AdmitsNewAmongUncertain(g) == capacity_pressure => \A n \in DOMAIN g : g[n].op = "cancel"

AdmitsNew(g) == BlocksNewSend(orders, capacity_pressure) => \A n \in DOMAIN g : g[n].op = "cancel"

ApplyGroup(g, policy) ==
    LET after == AfterMembers(g, policy) IN
    /\ AdmitsNew(g)
    /\ \A n \in DOMAIN g : Accepts(after[n - 1], g[n])
    /\ orders' = after[Len(g)]
    /\ UNCHANGED <<recovery_only, capacity_pressure>>

-----------------------------------------------------------------------------
(* Safety cancellations: cancelOpenOrders (all orders, or those that do not *)
(* only reduce) and cancelStrategyOrders (those of one strategy).          *)

Open(s, scope) == {i \in scope : ~Uncertain(s[i]) /\ s[i].state \notin Terminal}
CancelOpen(s, scope) ==
    [i \in DOMAIN s |-> IF i \in Open(s, scope) THEN Cancel(s[i]) ELSE s[i]]

\* A gate closed elsewhere, a lifecycle operation, the fence of a strategy.
CancelOpenOrders(scope) ==
    /\ Gated /\ Open(orders, scope) # {}
    /\ orders' = CancelOpen(orders, scope)
    /\ UNCHANGED <<recovery_only, capacity_pressure>>

\* The event itself latches a gate (applyOperationalGate).
GateCloses(s) == IF Gated THEN CancelOpen(s, DOMAIN s \ ReduceOnly) ELSE s

-----------------------------------------------------------------------------
(* Dispatch results.                                                       *)

\* rejectCommand
Reopened(o) == IF o.cum = 0 THEN "live" ELSE "partially_filled"
RejectAmend(o) ==
    IF ~Pending(o) THEN o
    ELSE Rebalanced(ClearPending([o EXCEPT !.state = Reopened(o), !.qty = o.cqty,
                                           !.rev = @ - 1]),
                    Greater(0, o.cqty - o.cum))

\* Mutant of RejectCommand: a refused cancel is taken for a closed order.
RejectCommandCloses(o, op) ==
    CASE op = "place"  -> [o EXCEPT !.state = "rejected", !.active = FALSE]
      [] op = "amend"  -> RejectAmend(o)
      [] op = "cancel" -> Release([o EXCEPT !.state = "canceled"])

RejectCommand(o, op) ==
    CASE op = "place"  -> [o EXCEPT !.state = "rejected", !.active = FALSE]
      [] op = "amend"  -> RejectAmend(o)
      [] op = "cancel" -> [o EXCEPT !.state = Reopened(o)]

\* Mutant of CancelMember: members not yet at the venue are left to be sent.
CancelMemberIfOpen(o) == IF o.state \in {"live", "partially_filled"} THEN Cancel(o) ELSE o

\* cancelGroup, for one member
CancelMember(o) ==
    CASE o.state \in {"live", "partially_filled"} -> Cancel(o)
      [] o.state \in {"pending_submit", "pending_amend"} ->
           IF o.submitted THEN Cancel(o)
           ELSE [o EXCEPT !.state = "rejected", !.active = FALSE]
      [] OTHER -> o
CancelGroup(s, group) ==
    [i \in DOMAIN s |-> IF s[i].group = group THEN CancelMember(s[i]) ELSE s[i]]

\* retainCapacityPressure
Pressed(s) == capacity_pressure \/ TerminalCount(s) > MaxTerminal

\* Mutant of Uncertainly: an order whose send is uncertain does not count as sent.
UncertainlyUnsent(o) == [o EXCEPT !.state = "unknown"]

Uncertainly(o) == [o EXCEPT !.state = "unknown", !.submitted = TRUE]

\* applyDispatchInPlace, one result at a time as canonical events carry them.
Dispatched(i, command, result) ==
    LET o == orders[i]
        refused == [orders EXCEPT ![i] = RejectCommand(o, command.op)]
    IN CASE result = "unknown" -> [orders EXCEPT ![i] = Uncertainly(o)]
         [] result = "submitted" -> [orders EXCEPT ![i] = [o EXCEPT !.submitted = TRUE]]
         [] result = "not_sent" ->
              IF o.policy = "cancel_remaining" THEN CancelGroup(refused, o.group) ELSE refused

ApplyDispatch(i, command, result) ==
    /\ orders' = Dispatched(i, command, result)
    /\ capacity_pressure' = Pressed(orders')
    /\ UNCHANGED recovery_only

-----------------------------------------------------------------------------
(* Replacements, which follow a report or a result in the same event:      *)
(* confirmPendingReplacement, confirmReplacement, createReplacement.       *)

Due(o) == o.repl # NoReplacement /\ o.state = "canceled"

\* Mutant of Evidenced: the fills since the amend was decided are not looked at.
EvidencedAnyFill(o) == o.rev = o.repl.rev

\* replacementIntent
Evidenced(o) == o.rev = o.repl.rev /\ o.cum = o.repl.cum

Discard(s, i) == [s EXCEPT ![i].repl = NoReplacement]
Replace(s, i) == Place(Discard(s, i), s[i].repl.qty, s[i].repl.atoms, s[i].group, s[i].policy, i)

MayReplace(s, i) ==
    /\ Evidenced(s[i]) /\ ~BlocksNewSend(s, Pressed(s))
    /\ ~recovery_only /\ ~NoRoom(Discard(s, i))

\* The risk layer may refuse the replacement.  Without room for it the whole
\* event is refused, so that is not among the outcomes.
Replacements(s, i) ==
    IF ~Due(s[i]) THEN {s}
    ELSE {Discard(s, i)} \cup {t \in {Replace(s, i)} : MayReplace(s, i)}

\* The event that left `s' ends; `i' is the order it was about.
Settle(s, i) ==
    /\ orders' \in Replacements(s, i)
    /\ capacity_pressure' = Pressed(s)
    /\ UNCHANGED recovery_only

\* TerminalFactConflict, InvalidExecutionReport or StaleOrderRevision: the input
\* is dropped, a gate closes and the shard may only recover
\* (applyVenueOnOwnedCandidate).
Break ==
    /\ recovery_only' = TRUE
    /\ orders' = GateCloses(orders)
    /\ UNCHANGED capacity_pressure

-----------------------------------------------------------------------------
(* Execution reports: applyReportInPlace for canonical reports.            *)

OldRevision(o, r) == Pending(o) /\ r.rev < o.rev
CancelUnsettled(o) ==
    o.state = "pending_cancel" \/ (o.state = "unknown" /\ LastCommand(o).op = "cancel")

\* A report about a revision that an amend has since replaced.
Historical(o, r) == ~Pending(o) /\ r.rev < o.rev
HistoricalConflict(o, r) ==
    \/ r.rev \notin DOMAIN o.totals
    \/ Total(r) > o.totals[r.rev]
    \/ r.status \notin {"accepted", "partially_filled"}
    \/ r.cum > o.cum

\* The quantities or the revision cannot be those of this order.
Malformed(o, r) ==
    \/ r.rev > o.rev
    \/ OldRevision(o, r) /\ Total(r) > o.cqty
    \/ ~Pending(o) /\ Total(r) > o.qty
    \/ /\ Pending(o) /\ r.rev = o.rev /\ r.status # "rejected"
       /\ \/ Total(r) < o.qty
          \/ Total(r) > o.cum + o.pbasis
          \/ r.rem > o.pbasis
    \/ /\ r.status = "filled"
       /\ \/ r.rem # 0
          \/ OldRevision(o, r) /\ r.cum # o.cqty
          \/ ~Pending(o) /\ r.cum # o.qty
    \/ r.status = "amended" /\ (r.rev # o.rev \/ r.rem = 0)
    \/ r.status \in Terminal /\ r.cum < o.cum

\* The order already knows as much: progress is revision and cumulative quantity.
NoNews(o, r) ==
    \/ r.cum < o.cum
    \/ /\ r.cum = o.cum
       /\ \/ r.rev < o.last.rev
          \/ /\ r.rev = o.last.rev
             /\ \/ r.status = "accepted" /\ o.last.status # "accepted"
                \/ r.status = o.last.status /\ r.rem = o.last.rem

RefusesAmend(o, r) == r.status = "rejected" /\ Pending(o) /\ ~OldRevision(o, r)

Conflicts(o, r) ==
    IF Historical(o, r) THEN HistoricalConflict(o, r)
    ELSE \/ Malformed(o, r)
         \/ ~NoNews(o, r) /\ (o.state \in Terminal \/ (RefusesAmend(o, r) /\ Total(r) > o.cqty))

\* The state a report that is news leaves.
Reported(o, r) ==
    IF r.status \in Terminal THEN r.status
    ELSE IF CancelUnsettled(o) THEN "pending_cancel"
    ELSE IF r.status = "amended" THEN "live"
    ELSE IF Pending(o) THEN IF o.state = "unknown" THEN "unknown" ELSE "pending_amend"
    ELSE IF r.status = "accepted" THEN "live" ELSE "partially_filled"

Progressed(o, r) ==
    LET known == [o EXCEPT !.last = r, !.cum = r.cum, !.state = Reported(o, r)] IN
    CASE r.status = "filled" -> Release([known EXCEPT !.repl = NoReplacement])
      [] r.status \in {"canceled", "rejected"} -> Release(known)
      [] r.status = "amended" -> Promote(known, r)
      [] OTHER -> Rebalanced(known, IF Pending(o) THEN Greater(0, o.cqty - r.cum) ELSE r.rem)

\* Mutant of WithTotal: only the latest revision is remembered.
WithTotalOnly(o, r) == [o EXCEPT !.totals = [v \in {r.rev} |-> Total(r)]]

\* What the report and command histories come to say of the revision's total.
WithTotal(o, r) ==
    [o EXCEPT !.totals = [v \in DOMAIN @ \cup {r.rev} |-> IF v = r.rev THEN Total(r) ELSE @[v]]]

AfterReport(o, r) ==
    LET kept == IF r.status = "amended" THEN WithTotal(o, r) ELSE o
    IN IF Historical(o, r) \/ NoNews(o, r) THEN kept
       ELSE IF RefusesAmend(o, r) THEN RejectAmend([kept EXCEPT !.last = r, !.cum = r.cum])
       ELSE IF r.status = "rejected" /\ o.state = "pending_cancel"
            THEN RejectCommand([kept EXCEPT !.last = r], "cancel")
       ELSE Progressed(kept, r)

ApplyReport(i, r) ==
    IF Conflicts(orders[i], r) THEN Break
    ELSE Settle([orders EXCEPT ![i] = AfterReport(orders[i], r)], i)

-----------------------------------------------------------------------------
(* Reconciliation results: the order_reconciliation_result branch of       *)
(* handleCanonical, then applyReconciliationInPlace.                       *)

\* canConfirmAbsent.  A claim about another session than the place's, or about
\* an order with a fill applied already, becomes unresolved as well: an honest
\* venue makes none, and an answer may be unresolved in any case.
CanConfirmAbsent(o, rev) ==
    /\ ~o.settled /\ o.state = "unknown" /\ o.submitted /\ o.last = NoReport
    /\ o.cum = 0 /\ o.rev = rev
    /\ LastCommand(o).op = "place" /\ LastCommand(o).rev = rev

\* The shard takes a result whose quantities are not the order's for unresolved.
Implausible(o, r) ==
    \/ r.status = "unresolved"
    \/ Total(r) > o.qty
    \/ r.status \in {"found_live", "filled", "confirmed_absent"} /\ Total(r) # o.qty
    \/ r.status = "filled" /\ r.rem # 0
    \/ r.status = "confirmed_absent" /\ (r.cum # 0 \/ ~CanConfirmAbsent(o, r.rev))
Plausible(o, r) ==
    IF Implausible(o, r)
    THEN [status |-> "unresolved", rev |-> o.rev, cum |-> o.cum, rem |-> o.qty - o.cum]
    ELSE r

\* ConflictingReconciliationEvidence and the like: the event is refused.
Inadmissible(o, r) ==
    \/ r.rem < 0
    \/ r.status # "unresolved" /\ r.cum < o.cum
    \/ Pending(o) /\ r.rev > o.rev
    \/ OldRevision(o, r) /\ Total(r) > o.cqty
    \/ ~Pending(o) /\ Total(r) > o.qty
    \/ /\ Pending(o) /\ r.rev = o.rev
       /\ (Total(r) < o.qty \/ Total(r) > o.cum + o.pbasis \/ r.rem > o.pbasis)
    \/ r.status = "found_live" /\ (r.rem = 0 \/ (OldRevision(o, r) /\ Total(r) # o.cqty))
    \/ r.status = "filled" /\ OldRevision(o, r) /\ r.cum # o.cqty

\* A terminal order accepts only the result that says the same.
Contradicts(o, r) ==
    /\ o.state \in Terminal
    /\ ~(r.status = o.state /\ r.cum = o.cum /\ r.rem = o.qty - o.cum /\ r.rev = o.rev)

FoundLive(o, r) ==
    LET seen == [o EXCEPT !.cum = r.cum]
        current == [seen EXCEPT !.rev = r.rev]
        state(p) == IF CancelUnsettled(o) THEN "pending_cancel"
                    ELSE IF OldRevision(o, r) /\ o.state = "unknown" THEN "unknown"
                    ELSE IF Pending(p) THEN "pending_amend" ELSE Reopened(p)
        found == IF OldRevision(o, r) THEN Rebalanced(seen, r.rem)
                 ELSE IF Pending(o) THEN Promote(current, r)
                 ELSE Rebalanced([current EXCEPT !.qty = Total(r), !.cqty = Total(r)], r.rem)
    IN [found EXCEPT !.state = state(found)]

AfterResult(o, r) ==
    IF o.state \in Terminal THEN o ELSE
    CASE r.status = "unresolved" -> [o EXCEPT !.state = "unknown"]
      [] r.status = "found_live" -> FoundLive(o, r)
      [] r.status = "confirmed_absent" ->
           [o EXCEPT !.state = "canceled", !.active = FALSE, !.res = 0]
      [] OTHER -> Release([o EXCEPT !.cum = r.cum, !.state = r.status])

Remembered(o, r) == [o EXCEPT !.settled = @ \/ r.status # "unresolved"]

\* An unresolved result closes a gate.
Resolve(i, o, r) ==
    LET s == [orders EXCEPT ![i] = Remembered(o, r)] IN
    Settle(IF r.status = "unresolved" THEN GateCloses(s) ELSE s, i)

ApplyReconciliation(i, result) ==
    LET o == orders[i]
        r == Plausible(o, result)
    IN /\ ~Inadmissible(o, r)
       /\ IF Contradicts(o, r) THEN Break
          ELSE Resolve(i, AfterResult(o, r), r)

\* A result whose identity is below the last one only enters the history.
ApplyLateReconciliation(i, result) ==
    LET o == orders[i]
        r == Plausible(o, result)
    IN ~Inadmissible(o, r) /\ Resolve(i, o, r)
=============================================================================

------------------------------ MODULE OmsVenue ------------------------------
(***************************************************************************)
(* The order management system in front of a venue: what the OMS believes  *)
(* about an order against what became of it.                               *)
(*                                                                         *)
(* Commands leave through the dispatch gateway, each at most once and only *)
(* while it is still the order's current command (DispatchGateway).  They  *)
(* may be delayed, lost, refused, answered late, or never answered.  The   *)
(* venue's reports arrive in any order, any number of times; a             *)
(* reconciliation result shows the venue as it was when it was asked, and  *)
(* may reach the shard after later reports did.                            *)
(*                                                                         *)
(* The venue is honest: its reports and answers are true when it makes     *)
(* them.  It is modelled from what the adapters translate (see README).    *)
(***************************************************************************)
EXTENDS Oms

CONSTANTS
    MaxOrders,      \* bound: orders ever created
    MaxCommands,    \* bound: commands per order
    MaxEmitted,     \* bound: commands of all orders together
    MaxQueries,     \* bound: orders with a reconciliation under way
    MayAnswerLate   \* whether results under an older identity are delivered

ASSUME VenueAssumption ==
    /\ MaxOrders \in Nat \ {0} /\ MaxCommands \in Nat \ {0} /\ MaxEmitted \in Nat
    /\ MaxQueries \in Nat
    /\ MayAnswerLate \in BOOLEAN

VARIABLES
    venue,      \* the order at the venue
    wire,       \* where each command of each order is
    answered,   \* the commands whose dispatch result the shard has applied
    reports,    \* every report the venue has made
    query       \* the reconciliation result under way

vars == <<omsVars, venue, wire, answered, reports, query>>

Order == 1 .. MaxOrders
Slot == 1 .. MaxCommands
Cmd(i, k) == orders[i].cmds[k]
Emitted == {c \in Order \X Slot : c[1] \in Ids /\ c[2] \in DOMAIN orders[c[1]].cmds}

-----------------------------------------------------------------------------
(* The venue.                                                              *)

\* "idle": not sent; "refused": refused by the adapter or by the venue, or lost,
\* which is a refusal whose answer is unknown.
WireState == {"idle", "flying", "taken", "refused"}
NoQuery == [status |-> "none"]
NoVenueOrder == [st |-> "none", rev |-> 0, qty |-> 0, cum |-> 0, atoms |-> 0, basis |-> 1]

Alive(i) == venue[i].st = "live"
Remaining(v) == v.qty - v.cum
Told(v, status) == [status |-> status, rev |-> v.rev, cum |-> v.cum, rem |-> Remaining(v)]
Make(i, status, v) ==
    /\ venue' = [venue EXCEPT ![i] = v]
    /\ reports' = [reports EXCEPT ![i] = @ \cup {Told(v, status)}]

\* The place command of an order may still create it.
PlaceAtLarge(i) == wire[i][1] \in {"idle", "flying"}

Init ==
    /\ orders = <<>> /\ recovery_only = FALSE /\ capacity_pressure = FALSE
    /\ venue = [i \in Order |-> NoVenueOrder]
    /\ wire = [i \in Order |-> [k \in Slot |-> "idle"]]
    /\ answered = {}
    /\ reports = [i \in Order |-> {}]
    /\ query = [i \in Order |-> NoQuery]

venueVars == <<venue, wire, answered, reports, query>>

\* The bounds of the instance, on orders and on commands.
Bounded ==
    /\ Len(orders') <= MaxOrders
    /\ \A i \in DOMAIN orders' : Len(orders'[i].cmds) <= MaxCommands
    /\ Cardinality(Emitted') <= MaxEmitted

-----------------------------------------------------------------------------
(* Commands on their way.                                                  *)

PendingState == [place |-> "pending_submit", amend |-> "pending_amend",
                 cancel |-> "pending_cancel"]

\* sendFromShard: still the current command of its order; a shard that may only
\* recover sends cancels alone.
Sendable(i, k) ==
    /\ wire[i][k] = "idle"
    /\ orders[i].state = PendingState[Cmd(i, k).op] /\ orders[i].rev = Cmd(i, k).rev
    /\ recovery_only => Cmd(i, k).op = "cancel"

Moves(i, k, at) == wire' = [wire EXCEPT ![i][k] = at]

\* The adapter takes the command.
Send(i, k) ==
    /\ Sendable(i, k) /\ Moves(i, k, "flying")
    /\ UNCHANGED <<omsVars, venue, answered, reports, query>>

\* The adapter or the venue may refuse any command outright: a limit, an order
\* it does not know, an order already closed.
Refuse(i, k) ==
    /\ wire[i][k] = "flying" /\ Moves(i, k, "refused")
    /\ UNCHANGED <<omsVars, venue, answered, reports, query>>

\* It takes a place, and may reject the order afterwards.
VenuePlaces(i, k) ==
    /\ wire[i][k] = "flying" /\ Cmd(i, k).op = "place"
    /\ Moves(i, k, "taken")
    /\ \E st \in {"live", "rejected"} :
         Make(i, IF st = "live" THEN "accepted" ELSE "rejected",
              [st |-> st, rev |-> Cmd(i, k).rev, qty |-> Cmd(i, k).total, cum |-> 0,
               atoms |-> Cmd(i, k).atoms, basis |-> Cmd(i, k).qty])
    /\ UNCHANGED <<omsVars, answered, query>>

\* An amend sets the order's total quantity and price.
VenueAmends(i, k) ==
    /\ wire[i][k] = "flying" /\ Cmd(i, k).op = "amend"
    /\ Alive(i) /\ Cmd(i, k).total > venue[i].cum
    /\ Moves(i, k, "taken")
    /\ Make(i, "amended", [venue[i] EXCEPT !.rev = Cmd(i, k).rev, !.qty = Cmd(i, k).total,
                                           !.atoms = Cmd(i, k).atoms, !.basis = Cmd(i, k).qty])
    /\ UNCHANGED <<omsVars, answered, query>>

VenueCancels(i, k) ==
    /\ wire[i][k] = "flying" /\ Cmd(i, k).op = "cancel" /\ Alive(i)
    /\ Moves(i, k, "taken")
    /\ Make(i, "canceled", [venue[i] EXCEPT !.st = "canceled"])
    /\ UNCHANGED <<omsVars, answered, query>>

\* One lot trades.
Fill(i) ==
    /\ Alive(i)
    /\ LET v == [venue[i] EXCEPT !.cum = @ + 1]
           full == v.cum = v.qty
       IN Make(i, IF full THEN "filled" ELSE "partially_filled",
               [v EXCEPT !.st = IF full THEN "filled" ELSE "live"])
    /\ UNCHANGED <<omsVars, wire, answered, query>>

-----------------------------------------------------------------------------
(* What the shard is told.                                                 *)

\* The adapters classify a refusal as not_sent, and anything they cannot
\* classify as unknown.
ResultOf(at) ==
    CASE at = "taken"   -> {"submitted", "unknown"}
      [] at = "refused" -> {"not_sent", "unknown"}
      [] at = "flying"  -> {"unknown"}
      [] OTHER          -> {}

DispatchResult(i, k) ==
    /\ <<i, k>> \notin answered
    /\ \E result \in ResultOf(wire[i][k]) : ApplyDispatch(i, Cmd(i, k), result)
    /\ Bounded
    /\ answered' = answered \cup {<<i, k>>}
    /\ UNCHANGED <<venue, wire, reports, query>>

ExecutionReport(i, r) ==
    /\ ApplyReport(i, r) /\ Bounded
    /\ UNCHANGED venueVars

\* What the venue answers about an order at this moment.
Truth(i) ==
    LET v == venue[i] IN
    CASE v.st = "live" -> Told(v, "found_live")
      [] v.st \in Terminal -> Told(v, v.st)
      [] OTHER -> IF PlaceAtLarge(i) THEN [status |-> "unresolved", rev |-> 1, cum |-> 0, rem |-> 0]
                  ELSE [status |-> "confirmed_absent", rev |-> 1, cum |-> 0,
                        rem |-> Cmd(i, 1).total]

Ask(i) ==
    /\ query[i] = NoQuery /\ Cardinality({j \in Order : query[j] # NoQuery}) < MaxQueries
    /\ query' = [query EXCEPT ![i] = Truth(i)]
    /\ UNCHANGED <<omsVars, venue, wire, answered, reports>>

\* The answer arrives, incomplete perhaps, perhaps under an older identity.
Answer(i) ==
    /\ query[i] # NoQuery
    /\ \/ ApplyReconciliation(i, query[i])
       \/ ApplyReconciliation(i, [query[i] EXCEPT !.status = "unresolved"])
       \/ MayAnswerLate /\ ApplyLateReconciliation(i, query[i])
    /\ Bounded
    /\ query' = [query EXCEPT ![i] = NoQuery]
    /\ UNCHANGED <<venue, wire, answered, reports>>

\* An answer the shard refuses is gone.
AnswerRefused(i) ==
    /\ query[i] # NoQuery /\ Inadmissible(orders[i], Plausible(orders[i], query[i]))
    /\ query' = [query EXCEPT ![i] = NoQuery]
    /\ UNCHANGED <<omsVars, venue, wire, answered, reports>>

-----------------------------------------------------------------------------
(* What strategies and safety gates ask.                                   *)

Groups == UNION {[1 .. n -> Intent] : n \in 1 .. MaxGroup}

SubmitGroup(g, policy) == ApplyGroup(g, policy) /\ Bounded /\ UNCHANGED venueVars
SafetyCancel ==
    /\ \E scope \in SUBSET Ids : CancelOpenOrders(scope)
    /\ Bounded /\ UNCHANGED venueVars

OmsNext ==
    \/ \E p \in Policies, g \in Groups : SubmitGroup(g, p)
    \/ SafetyCancel
    \/ \E c \in Emitted : DispatchResult(c[1], c[2])
    \/ \E i \in Ids : \/ \E r \in reports[i] : ExecutionReport(i, r)
                      \/ Answer(i)
                      \/ AnswerRefused(i)

VenueNext ==
    \/ \E c \in Emitted : \/ Send(c[1], c[2])
                          \/ Refuse(c[1], c[2])
                          \/ VenuePlaces(c[1], c[2])
                          \/ VenueAmends(c[1], c[2])
                          \/ VenueCancels(c[1], c[2])
    \/ \E i \in Ids : Fill(i) \/ Ask(i)

Next == OmsNext \/ VenueNext
Spec == Init /\ [][Next]_vars

-----------------------------------------------------------------------------
(* Properties.                                                             *)

OrderRecord(totals) ==
    [state : OrderState, rev : Nat, qty : Nat, cum : Nat, res : Nat, active : BOOLEAN,
     cres : Nat, cqty : Nat, basis : Nat, pres : Nat, pbasis : Nat, submitted : BOOLEAN,
     repl : Replacement, group : Nat, policy : Policies, predecessor : Nat, last : Report,
     settled : BOOLEAN, totals : {totals}, cmds : Seq(Command)]
IsOrder(o) ==
    /\ o \in OrderRecord(o.totals)
    /\ 1 \in DOMAIN o.totals /\ \A v \in DOMAIN o.totals : v \in Nat /\ o.totals[v] \in Nat

\* The types of the variables of the OMS, the venue and the wire.
TypeOK ==
    /\ \A i \in Ids : i \in Order /\ IsOrder(orders[i])
    /\ recovery_only \in BOOLEAN /\ capacity_pressure \in BOOLEAN
    /\ \A i \in Order : /\ venue[i].st \in {"none", "live"} \cup Terminal
                        /\ reports[i] \subseteq Report
                        /\ query[i] \in Result \cup {NoQuery}
    /\ wire \in [Order -> [Slot -> WireState]] /\ answered \subseteq Order \X Slot

Held(i) == IF orders[i].active THEN orders[i].res ELSE 0

\* What the order could still cost: its lots at the venue, a place that may
\* still arrive, an amend that may still be taken.
Exposures(i) ==
    LET v == venue[i]
        may(op) == {k \in DOMAIN orders[i].cmds :
                      Cmd(i, k).op = op /\ (wire[i][k] = "flying" \/ Sendable(i, k))}
        taken == {k \in may("amend") : Alive(i) /\ Cmd(i, k).total > v.cum}
    IN (IF Alive(i) THEN {Scaled(v.atoms, Remaining(v), v.basis)} ELSE {})
       \cup {Cmd(i, k).atoms : k \in may("place")}
       \cup {Scaled(Cmd(i, k).atoms, Cmd(i, k).total - v.cum, Cmd(i, k).qty) : k \in taken}

\* Whatever an order can still cost at the venue is reserved, while its amends,
\* lost answers and late reports are sorted out (oms.zig rebalanceReservation,
\* rejectCommand, applyReconciliationInPlace).
ReservationCovers == \A i \in Ids : \A e \in Exposures(i) : Held(i) >= e

\* What the OMS takes for executed the venue did execute, and an order it calls
\* filled or canceled is closed there with the same fills, or was never there
\* and never will be (applyReportInPlace, found_terminal, confirmed_absent).
EvidenceTrue ==
    \A i \in Ids :
      /\ orders[i].cum <= venue[i].cum
      /\ orders[i].state \in {"filled", "canceled"} =>
           \/ venue[i].st = orders[i].state /\ venue[i].cum = orders[i].cum
           \/ venue[i].st = "none" /\ ~PlaceAtLarge(i)

\* A replacement exists only after its predecessor is closed at the venue with
\* the fills that were known when it was to be replaced, which the cancel of
\* that moment tells: total less remaining (confirmPendingReplacement).
SuccessorAfterClose ==
    \A j \in Ids : LET i == orders[j].predecessor IN
      i # 0 => /\ venue[i].st = "canceled"
               /\ \E k \in DOMAIN orders[i].cmds :
                    Cmd(i, k).op = "cancel" /\ Cmd(i, k).total - Cmd(i, k).qty = venue[i].cum

NewlySent(i) ==
    /\ i \notin Ids \/ Len(orders'[i].cmds) > Len(orders[i].cmds)
    /\ orders'[i].cmds[Len(orders'[i].cmds)].op # "cancel"

\* No place or amend is emitted while another order is Unknown or PendingCancel
\* (blocksNewSend: "must not overlap a later place or amend send"): a group is
\* judged before its first member, a replacement after the event that made it due.
SendsAlone ==
    [][\A i \in DOMAIN orders' : NewlySent(i) =>
         LET judged == IF i \notin Ids /\ orders'[i].predecessor # 0 THEN orders' ELSE orders
         IN \A j \in Ids \ {i} : ~Uncertain(judged[j])]_vars

\* Asking the venue about an order it has closed settles the order, unless an
\* amend is still unanswered or the order was told of its closing already and a
\* late dispatch result reopened it; asking about one that it never had does, if
\* nothing but the place was ever emitted and no earlier answer came late
\* (applyReconciliation).
TruthResolves ==
    \A i \in Ids :
      LET o == orders[i]
          r == Plausible(o, Truth(i))
      IN /\ o.state \notin Terminal /\ ~Pending(o)
         /\ \/ venue[i].st \in Terminal /\ o.last.status \notin Terminal
            \/ venue[i].st = "none" /\ wire[i][1] = "refused" /\ <<i, 1>> \in answered
               /\ Len(o.cmds) = 1 /\ ~o.settled
         => ~Inadmissible(o, r) /\ ~Contradicts(o, r) /\ AfterResult(o, r).state \in Terminal

\* Once the place of a member of a cancel_remaining group was answered not_sent,
\* no other place of the group is sent any more, replacements that were decided
\* before apart (cancelGroup).
StopsUnsent ==
    \A c \in Emitted : LET o == orders[c[1]] IN
      /\ o.policy = "cancel_remaining" /\ o.predecessor = 0
      /\ Cmd(c[1], c[2]).op = "place" /\ Sendable(c[1], c[2])
      =>
        \A j \in Ids : orders[j].group = o.group =>
          ~(orders[j].state = "rejected" /\ orders[j].last = NoReport /\ ~orders[j].settled)
=============================================================================

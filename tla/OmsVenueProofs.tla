--------------------------- MODULE OmsVenueProofs ---------------------------
(***************************************************************************)
(* What the order manager may believe of a venue, for every number of      *)
(* orders, lots, prices, commands and commands of a group: what it takes   *)
(* for filled or closed is so, a replacement follows a closed order, and a *)
(* place that never left stops its group.                                  *)
(*                                                                         *)
(* The invariant goes order by order.  A handler changes one order, or     *)
(* some of one group, and says of each order before and after which of     *)
(* the relations `Follows', `Tame', `Quiet' and `Same' holds.              *)
(***************************************************************************)
EXTENDS OmsVenue, TLAPS

-----------------------------------------------------------------------------
(* What holds of every order by itself, and against its venue.             *)

\* A cancel command among them was emitted when `cum' lots were known to be filled.
CancelEmitted(cmds, cum) ==
    \E k \in DOMAIN cmds : cmds[k].op = "cancel" /\ cmds[k].total - cmds[k].qty = cum

\* The place comes first and once; a replacement waits for a cancel of its moment;
\* no reservation is divided by nothing and no revision taken back that was not given.
Commanded(o) ==
    /\ Len(o.cmds) > 0 /\ o.cmds[1].total > 0
    /\ \A k \in DOMAIN o.cmds : o.cmds[k].op = "place" <=> k = 1
Sane(o) ==
    /\ IsOrder(o) /\ o.basis > 0 /\ (Pending(o) => o.rev > 0) /\ Commanded(o)
    /\ o.repl # NoReplacement => o.repl.qty > 0
Orderly(o) == Sane(o) /\ (o.repl # NoReplacement => CancelEmitted(o.cmds, o.repl.cum))

\* What the OMS believes of the order is so at the venue; `w' is the wire.
Honest(o, v, w) ==
    /\ o.cum <= v.cum
    /\ o.state \in {"filled", "canceled"} =>
         \/ v.st = o.state /\ v.cum = o.cum
         \/ v.st = "none" /\ w[1] \notin {"idle", "flying"} /\ Len(o.cmds) = 1

Unsent(o) == o.state = "rejected" /\ o.last = NoReport /\ ~o.settled

\* `p' is what a handler may make of `o'.
Follows(o, p) ==
    /\ Orderly(p)
    /\ p.group = o.group /\ p.policy = o.policy /\ p.predecessor = o.predecessor
    /\ p.state = "pending_submit" => o.state = "pending_submit"
    /\ \A cum : CancelEmitted(o.cmds, cum) => CancelEmitted(p.cmds, cum)

\* Without evidence of the venue no order comes to be closed and no lot filled.
Tame(o, p) ==
    /\ Follows(o, p) /\ p.cum = o.cum
    /\ p.state \in {"filled", "canceled"} => p.state = o.state /\ p.cmds = o.cmds

Quiet(o, p) == Tame(o, p) /\ (Unsent(p) => Unsent(o))

\* Only what is reserved and asked for differs.
Same(o, p) ==
    /\ Follows(o, p) /\ p.cum = o.cum /\ p.state = o.state /\ p.cmds = o.cmds
    /\ p.last = o.last /\ p.settled = o.settled

-----------------------------------------------------------------------------
(* Lemmas about the operators on one order.                                *)

\* Reservations are natural numbers (scaledReservation).
LEMMA ScaledTyped ==
    ASSUME NEW atoms \in Nat, NEW remaining \in Nat, NEW basis \in Nat, basis > 0
    PROVE  Scaled(atoms, remaining, basis) \in Nat
<1>1. atoms * remaining \in Nat
    OBVIOUS
<1>2. ASSUME NEW a \in Nat PROVE (a + basis - 1) \div basis \in Nat
    <2>1. a + basis - 1 \in Nat
        OBVIOUS
    <2>2. ASSUME NEW n \in Nat PROVE n \div basis \in Nat
        OBVIOUS
    <2> QED BY <2>1, <2>2
<1> QED BY <1>1, <1>2 DEF Scaled

\* The fields of an order.
LEMMA OrderTyped ==
    ASSUME NEW o, Sane(o)
    PROVE  /\ o \in OrderRecord(o.totals) /\ o.cmds \in Seq(Command)
           /\ 1 \in DOMAIN o.totals
           /\ \A v \in DOMAIN o.totals : v \in Nat /\ o.totals[v] \in Nat
BY DEF Sane, IsOrder, OrderRecord

\* A new command is the last one, and leaves those before it.
LEMMA EmitFollows ==
    ASSUME NEW o, Sane(o), NEW op \in {"amend", "cancel"}, NEW atoms \in Nat,
           o.repl # NoReplacement =>
             CancelEmitted(o.cmds, o.repl.cum) \/ (op = "cancel" /\ o.repl.cum = o.cum)
    PROVE  LET p == Emit(o, op, atoms) IN
           /\ Follows(o, p) /\ p.cum = o.cum /\ p.state = o.state
           /\ p.last = o.last /\ p.settled = o.settled
<1> DEFINE c == [op |-> op, rev |-> o.rev, qty |-> o.qty - o.cum, total |-> o.qty, atoms |-> atoms]
           p == Emit(o, op, atoms)
<1>1. o \in OrderRecord(o.totals) /\ o.cmds \in Seq(Command)
    BY OrderTyped
<1>2. c \in Command /\ c.op # "place" /\ (c.op = "cancel" => c.total - c.qty = o.cum)
    BY <1>1 DEF OrderRecord, Command
<1>3. p = [o EXCEPT !.cmds = Append(o.cmds, c)] /\ c.op = op
    BY DEF Emit
<1>4. Append(o.cmds, c) \in Seq(Command)
    BY <1>1, <1>2
<1> HIDE DEF c, p
<1>5. p \in OrderRecord(o.totals) /\ p.totals = o.totals /\ p.cmds = Append(o.cmds, c)
    BY <1>1, <1>3, <1>4 DEF OrderRecord
<1>6. \A k \in 1 .. Len(o.cmds) : p.cmds[k] = o.cmds[k]
    BY <1>1, <1>2, <1>5
<1>7. Len(p.cmds) = Len(o.cmds) + 1 /\ p.cmds[Len(o.cmds) + 1] = c /\ Len(o.cmds) \in Nat
    BY <1>1, <1>2, <1>5
<1>8. DOMAIN p.cmds = 1 .. Len(p.cmds) /\ DOMAIN o.cmds = 1 .. Len(o.cmds)
    BY <1>1, <1>4, <1>5
<1>9. \A cum : CancelEmitted(o.cmds, cum) => CancelEmitted(p.cmds, cum)
    BY <1>6, <1>7, <1>8 DEF CancelEmitted
<1>10. /\ p.basis = o.basis /\ p.pbasis = o.pbasis /\ p.rev = o.rev /\ p.repl = o.repl
       /\ p.group = o.group /\ p.policy = o.policy /\ p.predecessor = o.predecessor
       /\ p.state = o.state /\ p.cum = o.cum /\ p.last = o.last /\ p.settled = o.settled
    BY <1>1, <1>3 DEF OrderRecord
<1>11. op = "cancel" => CancelEmitted(p.cmds, o.cum)
    BY <1>2, <1>3, <1>7, <1>8 DEF CancelEmitted
<1>12. Sane(p)
    BY <1>2, <1>5, <1>6, <1>7, <1>8, <1>10 DEF Sane, Commanded, IsOrder, Pending
<1>13. Orderly(p)
    BY <1>9, <1>10, <1>11, <1>12 DEF Orderly
<1>14. Follows(o, p)
    BY <1>9, <1>10, <1>13 DEF Follows
<1> QED BY <1>10, <1>14 DEF p

\* Changing what is not a command keeps an order orderly.
LEMMA Revised ==
    ASSUME NEW o, Orderly(o), NEW p, p \in OrderRecord(o.totals), p.cmds = o.cmds,
           p.basis > 0, Pending(p) => p.rev > 0, p.repl \in {o.repl, NoReplacement}
    PROVE  Orderly(p)
<1>1. p.totals = o.totals
    BY DEF OrderRecord
<1> QED BY <1>1 DEF Orderly, Sane, Commanded, IsOrder

\* ... and an order that differs in nothing else is the same.
LEMMA RevisedSame ==
    ASSUME NEW o, Orderly(o), NEW p, p \in OrderRecord(o.totals), p.cmds = o.cmds,
           p.basis > 0, Pending(p) => p.rev > 0, p.repl = o.repl \/ p.repl = NoReplacement,
           p.group = o.group, p.policy = o.policy, p.predecessor = o.predecessor,
           p.cum = o.cum, p.state = o.state, p.last = o.last, p.settled = o.settled
    PROVE  Same(o, p)
<1>1. Orderly(p)
    BY Revised
<1> QED BY <1>1 DEF Same, Follows

LEMMA SameChain ==
    ASSUME NEW o, NEW p, NEW q, Same(o, p), Same(p, q)
    PROVE  Same(o, q)
BY DEF Same, Follows

LEMMA QuietChain ==
    ASSUME NEW o, NEW p, NEW q, Quiet(o, p), Quiet(p, q)
    PROVE  Quiet(o, q)
BY DEF Quiet, Tame, Follows

LEMMA SameQuiet == ASSUME NEW o, NEW p, Same(o, p) PROVE Quiet(o, p)
BY DEF Same, Quiet, Tame, Unsent

LEMMA RebalancedSame ==
    ASSUME NEW o, Orderly(o), NEW remaining \in Nat
    PROVE  LET p == Rebalanced(o, remaining) IN
           Same(o, p) /\ (Pending(p) <=> Pending(o)) /\ p.repl = o.repl
<1> DEFINE old == Scaled(o.cres, remaining, o.basis)
           res == IF Pending(o) THEN Greater(old, o.pres) ELSE old
           p == Rebalanced(o, remaining)
<1>1. o \in OrderRecord(o.totals) /\ o.basis > 0 /\ (Pending(o) => o.rev > 0)
    BY OrderTyped DEF Orderly, Sane
<1>2. o.cres \in Nat /\ o.basis \in Nat /\ o.pres \in Nat
    BY <1>1 DEF OrderRecord
<1>3. old \in Nat
    BY <1>1, <1>2, ScaledTyped
<1>4. p = [o EXCEPT !.res = res]
    BY DEF Rebalanced
<1>5. res \in Nat
    BY <1>2, <1>3 DEF Greater
<1> HIDE DEF res, p
<1>6. /\ p \in OrderRecord(o.totals) /\ p.cmds = o.cmds /\ p.basis = o.basis /\ p.rev = o.rev
      /\ p.pbasis = o.pbasis /\ p.repl = o.repl /\ p.group = o.group /\ p.policy = o.policy
      /\ p.predecessor = o.predecessor /\ p.cum = o.cum /\ p.state = o.state
      /\ p.last = o.last /\ p.settled = o.settled
    BY <1>1, <1>4, <1>5 DEF OrderRecord
<1>7. Pending(p) <=> Pending(o)
    BY <1>6 DEF Pending
<1>8. Same(o, p)
    BY <1>1, <1>6, <1>7, RevisedSame
<1> QED BY <1>6, <1>7, <1>8 DEF p

LEMMA ClearPendingSame ==
    ASSUME NEW o, Orderly(o)
    PROVE  LET p == ClearPending(o) IN Same(o, p) /\ ~Pending(p) /\ p.repl = o.repl
<1> DEFINE p == ClearPending(o)
<1>1. o \in OrderRecord(o.totals) /\ o.basis > 0
    BY OrderTyped DEF Orderly, Sane
<1>2. p = [o EXCEPT !.pres = 0, !.pbasis = 0]
    BY DEF ClearPending
<1> HIDE DEF p
<1>3. /\ p \in OrderRecord(o.totals) /\ p.cmds = o.cmds /\ p.basis = o.basis
      /\ p.pbasis = 0 /\ p.repl = o.repl /\ p.group = o.group /\ p.policy = o.policy
      /\ p.predecessor = o.predecessor /\ p.cum = o.cum /\ p.state = o.state
      /\ p.last = o.last /\ p.settled = o.settled
    BY <1>1, <1>2 DEF OrderRecord
<1>4. ~Pending(p)
    BY <1>3 DEF Pending
<1>5. Same(o, p)
    BY <1>1, <1>3, <1>4, RevisedSame
<1> QED BY <1>3, <1>4, <1>5 DEF p

LEMMA ReleaseSame ==
    ASSUME NEW o, Orderly(o)
    PROVE  Same(o, Release(o))
<1> DEFINE p == [o EXCEPT !.active = FALSE, !.res = 0]
<1>1. o \in OrderRecord(o.totals) /\ o.basis > 0 /\ (Pending(o) => o.rev > 0)
    BY OrderTyped DEF Orderly, Sane
<1>2. /\ p \in OrderRecord(o.totals) /\ p.cmds = o.cmds /\ p.basis = o.basis /\ p.rev = o.rev
      /\ p.pbasis = o.pbasis /\ p.repl = o.repl /\ p.group = o.group /\ p.policy = o.policy
      /\ p.predecessor = o.predecessor /\ p.cum = o.cum /\ p.state = o.state
      /\ p.last = o.last /\ p.settled = o.settled
    BY <1>1 DEF OrderRecord
<1>3. Release(o) = ClearPending(p)
    BY DEF Release
<1> HIDE DEF p
<1>4. Pending(p) <=> Pending(o)
    BY <1>2 DEF Pending
<1>5. Same(o, p)
    BY <1>1, <1>2, <1>4, RevisedSame
<1>6. Same(p, ClearPending(p))
    BY <1>5, ClearPendingSame DEF Same, Follows
<1> QED BY <1>3, <1>5, <1>6, SameChain

LEMMA PromoteSame ==
    ASSUME NEW o, Orderly(o), NEW r, r.rem \in Nat \ {0}, r.cum \in Nat
    PROVE  Same(o, Promote(o, r)) /\ ~Pending(Promote(o, r))
<1> DEFINE kept == IF Pending(o) THEN Scaled(o.pres, r.rem, o.pbasis) ELSE o.cres
           p == [o EXCEPT !.cres = kept, !.cqty = Total(r), !.qty = Total(r), !.basis = r.rem]
           q == ClearPending(p)
<1>1. o \in OrderRecord(o.totals) /\ (Pending(o) => o.rev > 0)
    BY OrderTyped DEF Orderly, Sane
<1>2. kept \in Nat
    <2>1. o.pres \in Nat /\ o.pbasis \in Nat /\ o.cres \in Nat
        BY <1>1 DEF OrderRecord
    <2> QED BY <2>1, ScaledTyped DEF Pending
<1>3. Total(r) \in Nat
    BY DEF Total
<1>4. Promote(o, r) = Rebalanced(q, r.rem)
    BY DEF Promote
<1> HIDE DEF kept
<1>5. /\ p \in OrderRecord(o.totals) /\ p.cmds = o.cmds /\ p.basis = r.rem /\ p.rev = o.rev
      /\ p.pbasis = o.pbasis /\ p.repl = o.repl /\ p.group = o.group /\ p.policy = o.policy
      /\ p.predecessor = o.predecessor /\ p.cum = o.cum /\ p.state = o.state
      /\ p.last = o.last /\ p.settled = o.settled
    BY <1>1, <1>2, <1>3 DEF OrderRecord
<1> HIDE DEF p, q
<1>6. Pending(p) <=> Pending(o)
    BY <1>5 DEF Pending
<1>7. Same(o, p)
    BY <1>1, <1>5, <1>6, RevisedSame
<1>8. Same(p, q) /\ ~Pending(q)
    BY <1>7, ClearPendingSame DEF Same, Follows, q
<1>9. Same(q, Promote(o, r)) /\ ~Pending(Promote(o, r))
    <2>1. Orderly(q)
        BY <1>8 DEF Same, Follows
    <2> QED BY <1>4, <1>8, <2>1, RebalancedSame
<1> QED BY <1>7, <1>8, <1>9, SameChain

\* An order put into another state, neither a first nor a last one.
LEMMA RevisedQuiet ==
    ASSUME NEW o, Orderly(o), NEW p, p \in OrderRecord(o.totals), p.cmds = o.cmds,
           p.basis > 0, Pending(p) => p.rev > 0, p.repl = o.repl \/ p.repl = NoReplacement,
           p.group = o.group, p.policy = o.policy, p.predecessor = o.predecessor,
           p.cum = o.cum, p.state \notin Terminal \cup {"pending_submit"}
    PROVE  Quiet(o, p)
<1>1. Orderly(p)
    BY Revised
<1> QED BY <1>1 DEF Quiet, Tame, Follows, Unsent, Terminal

\* ... or rejected.
LEMMA RevisedTame ==
    ASSUME NEW o, Orderly(o), NEW p, p \in OrderRecord(o.totals), p.cmds = o.cmds,
           p.basis > 0, Pending(p) => p.rev > 0, p.repl = o.repl,
           p.group = o.group, p.policy = o.policy, p.predecessor = o.predecessor,
           p.cum = o.cum, p.state = "rejected"
    PROVE  Tame(o, p)
<1>1. Orderly(p)
    BY Revised
<1> QED BY <1>1 DEF Tame, Follows

LEMMA CancelQuiet ==
    ASSUME NEW o, Orderly(o)
    PROVE  Quiet(o, Cancel(o)) /\ Cancel(o).state = "pending_cancel"
<1> DEFINE p == [o EXCEPT !.state = "pending_cancel"]
<1>1. o \in OrderRecord(o.totals) /\ o.basis > 0 /\ (Pending(o) => o.rev > 0)
    BY OrderTyped DEF Orderly, Sane
<1>2. /\ p \in OrderRecord(o.totals) /\ p.cmds = o.cmds /\ p.basis = o.basis /\ p.rev = o.rev
      /\ p.pbasis = o.pbasis /\ p.repl = o.repl /\ p.group = o.group /\ p.policy = o.policy
      /\ p.predecessor = o.predecessor /\ p.cum = o.cum /\ p.state = "pending_cancel"
    BY <1>1 DEF OrderRecord, OrderState
<1>3. Cancel(o) = Emit(p, "cancel", 0)
    BY DEF Cancel
<1> HIDE DEF p
<1>4. Quiet(o, p)
    BY <1>1, <1>2, RevisedQuiet DEF Pending, Terminal
<1>5. Follows(p, Emit(p, "cancel", 0)) /\ Emit(p, "cancel", 0).cum = p.cum
      /\ Emit(p, "cancel", 0).state = p.state
    <2>1. Sane(p) /\ (p.repl # NoReplacement => CancelEmitted(p.cmds, p.repl.cum))
        BY <1>4 DEF Quiet, Tame, Follows, Orderly
    <2> QED BY <2>1, EmitFollows
<1>6. Quiet(p, Emit(p, "cancel", 0))
    BY <1>2, <1>5 DEF Quiet, Tame, Unsent
<1> QED BY <1>2, <1>3, <1>4, <1>5, <1>6, QuietChain

LEMMA AmendQuiet ==
    ASSUME NEW o, Orderly(o), NEW qty \in Nat, NEW atoms \in Nat, o.cqty >= o.cum
    PROVE  Quiet(o, Amend(o, qty, atoms)) /\ Amend(o, qty, atoms).state = "pending_amend"
<1> DEFINE rev == o.rev + 1
           total == o.cum + qty
           m == [o EXCEPT !.rev = rev, !.state = "pending_amend", !.qty = total]
           p == [m EXCEPT !.pres = atoms, !.pbasis = qty]
           q == Rebalanced(p, o.cqty - o.cum)
           t == Emit(q, "amend", atoms)
<1>1. o \in OrderRecord(o.totals) /\ o.basis > 0
    BY OrderTyped DEF Orderly, Sane
<1>2. o.cqty - o.cum \in Nat /\ rev \in Nat /\ rev > 0 /\ total \in Nat
    <2>1. o.cqty \in Nat /\ o.cum \in Nat /\ o.rev \in Nat
        BY <1>1 DEF OrderRecord
    <2> QED BY <2>1
<1>3. Amend(o, qty, atoms) = t
    BY DEF Amend
<1> HIDE DEF rev, total
<1>4. /\ p \in OrderRecord(o.totals) /\ p.cmds = o.cmds /\ p.basis = o.basis /\ p.rev > 0
      /\ p.repl = o.repl /\ p.group = o.group /\ p.policy = o.policy
      /\ p.predecessor = o.predecessor /\ p.cum = o.cum /\ p.state = "pending_amend"
    <2>1. /\ m \in OrderRecord(o.totals) /\ m.cmds = o.cmds /\ m.basis = o.basis /\ m.rev = rev
          /\ m.repl = o.repl /\ m.group = o.group /\ m.policy = o.policy
          /\ m.predecessor = o.predecessor /\ m.cum = o.cum /\ m.state = "pending_amend"
        BY <1>1, <1>2 DEF OrderRecord, OrderState
    <2> HIDE DEF m
    <2> QED BY <1>2, <2>1 DEF OrderRecord
<1> HIDE DEF p, q, t
<1>5. Quiet(o, p)
    BY <1>1, <1>4, RevisedQuiet DEF Terminal
<1>6. Same(p, q) /\ q.repl = p.repl
    <2>1. Orderly(p)
        BY <1>5 DEF Quiet, Tame, Follows
    <2> QED BY <1>2, <2>1, RebalancedSame DEF q
<1>7. Follows(q, t) /\ t.cum = q.cum /\ t.state = q.state
    <2>1. Sane(q) /\ (q.repl # NoReplacement => CancelEmitted(q.cmds, q.repl.cum))
        BY <1>6 DEF Same, Follows, Orderly
    <2> QED BY <2>1, EmitFollows DEF t
<1>8. q.state = "pending_amend"
    BY <1>4, <1>6 DEF Same
<1>9. Quiet(q, t)
    BY <1>7, <1>8 DEF Quiet, Tame, Unsent
<1>10. Quiet(o, t)
    BY <1>5, <1>6, <1>9, SameQuiet, QuietChain
<1> QED BY <1>3, <1>7, <1>8, <1>10

LEMMA CancelConfirmCreateQuiet ==
    ASSUME NEW o, Orderly(o), NEW qty \in Nat \ {0}, NEW atoms \in Nat
    PROVE  /\ Quiet(o, CancelConfirmCreate(o, qty, atoms))
           /\ CancelConfirmCreate(o, qty, atoms).state = "pending_cancel"
<1> DEFINE R == [rev |-> o.rev, cum |-> o.cum, qty |-> qty, atoms |-> atoms]
           p == [[o EXCEPT !.repl = R] EXCEPT !.state = "pending_cancel"]
           t == Emit(p, "cancel", 0)
<1>1. /\ o \in OrderRecord(o.totals) /\ Commanded(o) /\ o.basis > 0 /\ (Pending(o) => o.rev > 0)
      /\ 1 \in DOMAIN o.totals /\ \A v \in DOMAIN o.totals : v \in Nat /\ o.totals[v] \in Nat
    BY OrderTyped DEF Orderly, Sane
<1>2. R \in Replacement /\ R.cum = o.cum /\ R.qty > 0
    <2>1. o.rev \in Nat /\ o.cum \in Nat /\ qty \in Nat /\ qty > 0
        BY <1>1 DEF OrderRecord
    <2> QED BY <2>1 DEF Replacement
<1>3. CancelConfirmCreate(o, qty, atoms) = t
    BY DEF CancelConfirmCreate, Cancel
<1> HIDE DEF R
<1>4. /\ p \in OrderRecord(o.totals) /\ p.cmds = o.cmds /\ p.basis = o.basis /\ p.rev = o.rev
      /\ p.pbasis = o.pbasis /\ p.repl = R /\ p.group = o.group /\ p.policy = o.policy
      /\ p.predecessor = o.predecessor /\ p.cum = o.cum /\ p.state = "pending_cancel"
      /\ p.totals = o.totals
    BY <1>1, <1>2 DEF OrderRecord, OrderState
<1> HIDE DEF p, t
<1>5. Sane(p)
    <2>1. IsOrder(p) /\ p.basis > 0
        BY <1>1, <1>4 DEF IsOrder
    <2>2. Commanded(p) /\ (Pending(p) => p.rev > 0)
        BY <1>1, <1>4 DEF Commanded, Pending
    <2> QED BY <1>2, <1>4, <2>1, <2>2 DEF Sane
<1>6. Follows(p, t) /\ t.cum = p.cum /\ t.state = p.state
    BY <1>2, <1>4, <1>5, EmitFollows DEF t
<1>7. Follows(o, t)
    BY <1>4, <1>6 DEF Follows
<1>8. Quiet(o, t)
    BY <1>4, <1>6, <1>7 DEF Quiet, Tame, Unsent
<1> QED BY <1>3, <1>4, <1>6, <1>8

\* rejectCommand, for an amend: the confirmed specification is back.
LEMMA RejectAmendQuiet ==
    ASSUME NEW o, Orderly(o)
    PROVE  /\ Quiet(o, RejectAmend(o))
           /\ Pending(o) => RejectAmend(o).state \in {"live", "partially_filled"}
<1>1. CASE ~Pending(o)
    <2>1. RejectAmend(o) = o
        BY <1>1 DEF RejectAmend
    <2>2. Quiet(o, o)
        BY DEF Quiet, Tame, Follows
    <2> QED BY <1>1, <2>1, <2>2
<1>2. CASE Pending(o)
    <2> DEFINE state == Reopened(o)
               rev == o.rev - 1
               left == Greater(0, o.cqty - o.cum)
               p == [o EXCEPT !.state = state, !.qty = o.cqty, !.rev = rev]
               q == ClearPending(p)
               t == [p EXCEPT !.pres = 0, !.pbasis = 0]
    <2>1. o \in OrderRecord(o.totals) /\ o.basis > 0 /\ o.rev > 0
        BY <1>2, OrderTyped DEF Orderly, Sane
    <2>2. state \in {"live", "partially_filled"} /\ rev \in Nat /\ left \in Nat
        BY <2>1 DEF OrderRecord, Greater, Reopened
    <2>3. RejectAmend(o) = Rebalanced(q, left) /\ q = t
        BY <1>2 DEF RejectAmend, ClearPending
    <2> HIDE DEF state, rev, left
    <2>4. /\ p \in OrderRecord(o.totals) /\ p.cmds = o.cmds /\ p.basis = o.basis
          /\ p.repl = o.repl /\ p.group = o.group /\ p.policy = o.policy
          /\ p.predecessor = o.predecessor /\ p.cum = o.cum /\ p.state = state
        BY <2>1, <2>2 DEF OrderRecord, OrderState
    <2>5. /\ t \in OrderRecord(o.totals) /\ t.cmds = o.cmds /\ t.basis = o.basis /\ t.pbasis = 0
          /\ t.repl = o.repl /\ t.group = o.group /\ t.policy = o.policy
          /\ t.predecessor = o.predecessor /\ t.cum = o.cum /\ t.state = state
        BY <2>4 DEF OrderRecord
    <2> HIDE DEF p, q, t
    <2>6. Quiet(o, t)
        BY <2>1, <2>2, <2>5, RevisedQuiet DEF Pending, Terminal
    <2>7. Same(t, Rebalanced(t, left))
        BY <2>2, <2>6, RebalancedSame DEF Quiet, Tame, Follows
    <2>8. Rebalanced(t, left).state = state
        BY <2>5, <2>7 DEF Same
    <2> QED BY <2>2, <2>3, <2>6, <2>7, <2>8, SameQuiet, QuietChain
<1> QED BY <1>1, <1>2

\* An order put aside as rejected.
LEMMA RejectedTame ==
    ASSUME NEW o, Orderly(o)
    PROVE  LET p == [o EXCEPT !.state = "rejected", !.active = FALSE] IN
           Tame(o, p) /\ p.state = "rejected"
<1> DEFINE p == [o EXCEPT !.state = "rejected", !.active = FALSE]
<1>1. o \in OrderRecord(o.totals) /\ o.basis > 0 /\ (Pending(o) => o.rev > 0)
    BY OrderTyped DEF Orderly, Sane
<1>2. /\ p \in OrderRecord(o.totals) /\ p.cmds = o.cmds /\ p.basis = o.basis /\ p.rev = o.rev
      /\ p.pbasis = o.pbasis /\ p.repl = o.repl /\ p.group = o.group /\ p.policy = o.policy
      /\ p.predecessor = o.predecessor /\ p.cum = o.cum /\ p.state = "rejected"
    BY <1>1 DEF OrderRecord, OrderState
<1> HIDE DEF p
<1>3. Tame(o, p)
    BY <1>1, <1>2, RevisedTame DEF Pending
<1> QED BY <1>2, <1>3 DEF p

\* An order put back to work, or left uncertain.
LEMMA MovedQuiet ==
    ASSUME NEW o, Orderly(o),
           NEW state \in OrderState \ (Terminal \cup {"pending_submit"})
    PROVE  Quiet(o, [o EXCEPT !.state = state])
<1> DEFINE p == [o EXCEPT !.state = state]
<1>1. o \in OrderRecord(o.totals) /\ o.basis > 0 /\ (Pending(o) => o.rev > 0)
    BY OrderTyped DEF Orderly, Sane
<1>2. /\ p \in OrderRecord(o.totals) /\ p.cmds = o.cmds /\ p.basis = o.basis /\ p.rev = o.rev
      /\ p.pbasis = o.pbasis /\ p.repl = o.repl /\ p.group = o.group /\ p.policy = o.policy
      /\ p.predecessor = o.predecessor /\ p.cum = o.cum /\ p.state = state
    BY <1>1 DEF OrderRecord, OrderState
<1> HIDE DEF p
<1>3. Quiet(o, p)
    BY <1>1, <1>2, RevisedQuiet DEF Pending
<1> QED BY <1>3 DEF p

\* rejectCommand
LEMMA RejectCommandTame ==
    ASSUME NEW o, Orderly(o), NEW op \in {"place", "amend", "cancel"}
    PROVE  /\ Tame(o, RejectCommand(o, op))
           /\ op # "place" => Quiet(o, RejectCommand(o, op))
           /\ op = "place" => RejectCommand(o, op).state = "rejected"
<1>1. CASE op = "place"
    <2>1. RejectCommand(o, op) = [o EXCEPT !.state = "rejected", !.active = FALSE]
        BY <1>1 DEF RejectCommand
    <2> QED BY <1>1, <2>1, RejectedTame
<1>2. CASE op = "amend"
    <2>1. RejectCommand(o, op) = RejectAmend(o)
        BY <1>2 DEF RejectCommand
    <2> QED BY <1>2, <2>1, RejectAmendQuiet DEF Quiet
<1>3. CASE op = "cancel"
    <2>1. RejectCommand(o, op) = [o EXCEPT !.state = Reopened(o)]
        BY <1>3 DEF RejectCommand
    <2>2. Reopened(o) \in OrderState \ (Terminal \cup {"pending_submit"})
        BY DEF Reopened, OrderState, Terminal
    <2> QED BY <1>3, <2>1, <2>2, MovedQuiet DEF Quiet
<1> QED BY <1>1, <1>2, <1>3

\* cancelGroup, for one member
LEMMA CancelMemberTame ==
    ASSUME NEW o, Orderly(o)
    PROVE  Tame(o, CancelMember(o)) /\ CancelMember(o).state # "pending_submit"
<1>1. CASE CancelMember(o) = Cancel(o)
    BY <1>1, CancelQuiet DEF Quiet
<1>2. CASE CancelMember(o) = [o EXCEPT !.state = "rejected", !.active = FALSE]
    BY <1>2, RejectedTame
<1>3. CASE CancelMember(o) = o /\ o.state # "pending_submit"
    BY <1>3 DEF Tame, Follows
<1> QED BY <1>1, <1>2, <1>3 DEF CancelMember

\* A dispatch result that does not refuse; the end of a replacement.
LEMMA MarkedQuiet ==
    ASSUME NEW o, Orderly(o)
    PROVE  /\ Quiet(o, Uncertainly(o))
           /\ Quiet(o, [o EXCEPT !.submitted = TRUE])
           /\ Same(o, [o EXCEPT !.repl = NoReplacement])
<1> DEFINE p == [o EXCEPT !.state = "unknown", !.submitted = TRUE]
           q == [o EXCEPT !.submitted = TRUE]
           t == [o EXCEPT !.repl = NoReplacement]
<1>1. o \in OrderRecord(o.totals) /\ o.basis > 0 /\ (Pending(o) => o.rev > 0)
    BY OrderTyped DEF Orderly, Sane
<1>2. NoReplacement \in Replacement
    BY DEF NoReplacement, Replacement
<1>3. /\ p \in OrderRecord(o.totals) /\ p.cmds = o.cmds /\ p.basis = o.basis /\ p.rev = o.rev
      /\ p.pbasis = o.pbasis /\ p.repl = o.repl /\ p.group = o.group /\ p.policy = o.policy
      /\ p.predecessor = o.predecessor /\ p.cum = o.cum /\ p.state = "unknown"
    BY <1>1 DEF OrderRecord, OrderState
<1>4. /\ q \in OrderRecord(o.totals) /\ q.cmds = o.cmds /\ q.basis = o.basis /\ q.rev = o.rev
      /\ q.pbasis = o.pbasis /\ q.repl = o.repl /\ q.group = o.group /\ q.policy = o.policy
      /\ q.predecessor = o.predecessor /\ q.cum = o.cum /\ q.state = o.state
      /\ q.last = o.last /\ q.settled = o.settled
    BY <1>1 DEF OrderRecord
<1>5. /\ t \in OrderRecord(o.totals) /\ t.cmds = o.cmds /\ t.basis = o.basis /\ t.rev = o.rev
      /\ t.pbasis = o.pbasis /\ t.repl = NoReplacement /\ t.group = o.group
      /\ t.policy = o.policy /\ t.predecessor = o.predecessor /\ t.cum = o.cum
      /\ t.state = o.state /\ t.last = o.last /\ t.settled = o.settled
    BY <1>1, <1>2 DEF OrderRecord
<1>6. Uncertainly(o) = p
    BY DEF Uncertainly
<1> HIDE DEF p, q, t
<1>7. Quiet(o, p)
    BY <1>1, <1>3, RevisedQuiet DEF Pending, Terminal
<1>8. Same(o, q)
    BY <1>1, <1>4, RevisedSame DEF Pending
<1>9. Same(o, t)
    BY <1>1, <1>5, RevisedSame DEF Pending
<1> QED BY <1>6, <1>7, <1>8, <1>9, SameQuiet DEF q, t

-----------------------------------------------------------------------------
(* Evidence of the venue.                                                  *)

\* A report or an answer says no more than the venue did; `v' is the venue's order.
TrueOf(r, v) ==
    /\ r.cum <= v.cum
    /\ r.status \in Terminal => v.st = r.status /\ v.cum = r.cum

Faithful(o, p, v, w) == Follows(o, p) /\ Honest(p, v, w) /\ (Unsent(p) => Unsent(o))

LEMMA QuietFaithful ==
    ASSUME NEW o, NEW p, NEW v, NEW w, Quiet(o, p), Honest(o, v, w)
    PROVE  Faithful(o, p, v, w)
BY DEF Quiet, Tame, Honest, Faithful

LEMMA FaithfulSame ==
    ASSUME NEW o, NEW p, NEW q, NEW v, NEW w, Faithful(o, p, v, w), Same(p, q)
    PROVE  Faithful(o, q, v, w)
BY DEF Faithful, Same, Follows, Honest, Unsent

\* What the histories say of a revision's total touches nothing else.
LEMMA WithTotalSame ==
    ASSUME NEW o, Orderly(o), NEW r \in Report
    PROVE  LET p == WithTotal(o, r) IN
           Same(o, p) /\ p.pbasis = o.pbasis /\ p.cqty = o.cqty /\ p.rev = o.rev
<1> DEFINE T == [v \in DOMAIN o.totals \cup {r.rev} |-> IF v = r.rev THEN Total(r) ELSE o.totals[v]]
           p == [o EXCEPT !.totals = T]
<1>1. /\ o \in OrderRecord(o.totals) /\ 1 \in DOMAIN o.totals
      /\ \A v \in DOMAIN o.totals : v \in Nat /\ o.totals[v] \in Nat
    BY OrderTyped DEF Orderly
<1>2. Total(r) \in Nat /\ r.rev \in Nat
    BY DEF Total, Report
<1>3. 1 \in DOMAIN T /\ \A v \in DOMAIN T : v \in Nat /\ T[v] \in Nat
    BY <1>1, <1>2
<1>4. WithTotal(o, r) = p
    BY DEF WithTotal
<1> HIDE DEF T
<1>5. /\ p \in OrderRecord(T) /\ p.totals = T /\ p.cmds = o.cmds /\ p.basis = o.basis
      /\ p.rev = o.rev /\ p.pbasis = o.pbasis /\ p.cqty = o.cqty
    BY <1>1 DEF OrderRecord
<1>6. /\ p.repl = o.repl /\ p.group = o.group /\ p.policy = o.policy
      /\ p.predecessor = o.predecessor /\ p.cum = o.cum /\ p.state = o.state
      /\ p.last = o.last /\ p.settled = o.settled
    BY <1>1 DEF OrderRecord
<1> HIDE DEF p
<1>7. Orderly(p)
    BY <1>3, <1>5, <1>6 DEF Orderly, Sane, IsOrder, Commanded, Pending
<1>8. Same(o, p)
    BY <1>5, <1>6, <1>7 DEF Same, Follows
<1> QED BY <1>4, <1>5, <1>8

\* An order told of `cum' lots, in a state that follows from it, or in its own.
LEMMA ToldFollows ==
    ASSUME NEW o, Orderly(o), NEW p, p \in OrderRecord(o.totals), p.cmds = o.cmds,
           p.basis = o.basis, Pending(p) => p.rev > 0, p.repl = o.repl,
           p.group = o.group, p.policy = o.policy, p.predecessor = o.predecessor,
           p.state = "pending_submit" => o.state = "pending_submit"
    PROVE  Orderly(p) /\ Follows(o, p)
<1>1. o.basis > 0
    BY DEF Orderly, Sane
<1>2. Orderly(p)
    BY <1>1, Revised
<1> QED BY <1>2 DEF Follows

LEMMA Known ==
    ASSUME NEW o, Orderly(o), NEW last \in Report, NEW cum \in Nat,
           NEW state \in OrderState \ {"pending_submit"}
    PROVE  LET p == [o EXCEPT !.last = last, !.cum = cum, !.state = state] IN
           Orderly(p) /\ Follows(o, p)
<1> DEFINE p == [o EXCEPT !.last = last, !.cum = cum, !.state = state]
<1>1. o \in OrderRecord(o.totals) /\ (Pending(o) => o.rev > 0)
    BY OrderTyped DEF Orderly, Sane
<1>2. /\ p \in OrderRecord(o.totals) /\ p.cmds = o.cmds /\ p.basis = o.basis /\ p.rev = o.rev
      /\ p.pbasis = o.pbasis /\ p.repl = o.repl /\ p.group = o.group /\ p.policy = o.policy
      /\ p.predecessor = o.predecessor /\ p.cum = cum /\ p.state = state /\ p.last = last
    BY <1>1 DEF OrderRecord
<1> HIDE DEF p
<1>3. Orderly(p) /\ Follows(o, p)
    BY <1>1, <1>2, ToldFollows DEF Pending
<1> QED BY <1>2, <1>3 DEF p

LEMMA Heard ==
    ASSUME NEW o, Orderly(o), NEW last \in Report, NEW cum \in Nat
    PROVE  LET p == [o EXCEPT !.last = last, !.cum = cum] IN
           /\ Orderly(p) /\ Follows(o, p) /\ p.cum = cum /\ p.pbasis = o.pbasis
<1> DEFINE p == [o EXCEPT !.last = last, !.cum = cum]
<1>1. o \in OrderRecord(o.totals) /\ (Pending(o) => o.rev > 0)
    BY OrderTyped DEF Orderly, Sane
<1>2. /\ p \in OrderRecord(o.totals) /\ p.cmds = o.cmds /\ p.basis = o.basis /\ p.rev = o.rev
      /\ p.pbasis = o.pbasis /\ p.repl = o.repl /\ p.group = o.group /\ p.policy = o.policy
      /\ p.predecessor = o.predecessor /\ p.cum = cum /\ p.state = o.state
    BY <1>1 DEF OrderRecord
<1> HIDE DEF p
<1>3. Orderly(p) /\ Follows(o, p)
    BY <1>1, <1>2, ToldFollows DEF Pending
<1> QED BY <1>2, <1>3 DEF p

LEMMA Noted ==
    ASSUME NEW o, Orderly(o), NEW last \in Report
    PROVE  LET p == [o EXCEPT !.last = last] IN
           /\ Orderly(p) /\ Follows(o, p) /\ p.cum = o.cum
<1> DEFINE p == [o EXCEPT !.last = last]
<1>1. o \in OrderRecord(o.totals) /\ (Pending(o) => o.rev > 0)
    BY OrderTyped DEF Orderly, Sane
<1>2. /\ p \in OrderRecord(o.totals) /\ p.cmds = o.cmds /\ p.basis = o.basis /\ p.rev = o.rev
      /\ p.pbasis = o.pbasis /\ p.repl = o.repl /\ p.group = o.group /\ p.policy = o.policy
      /\ p.predecessor = o.predecessor /\ p.cum = o.cum /\ p.state = o.state
    BY <1>1 DEF OrderRecord
<1> HIDE DEF p
<1>3. Orderly(p) /\ Follows(o, p)
    BY <1>1, <1>2, ToldFollows DEF Pending
<1> QED BY <1>2, <1>3 DEF p

LEMMA ReportedTyped ==
    ASSUME NEW o, NEW r \in Report
    PROVE  /\ Reported(o, r) \in OrderState \ {"pending_submit"}
           /\ Reported(o, r) \in Terminal => Reported(o, r) = r.status /\ r.status \in Terminal
BY DEF Reported, Report, ReportStatus, OrderState, Terminal

\* A report that is news.
LEMMA ProgressedFaithful ==
    ASSUME NEW o, Orderly(o), NEW r \in Report, NEW v, NEW w, TrueOf(r, v),
           r.status = "amended" => r.rem # 0
    PROVE  Faithful(o, Progressed(o, r), v, w)
<1> DEFINE state == Reported(o, r)
           known == [o EXCEPT !.last = r, !.cum = r.cum, !.state = state]
           left == IF Pending(o) THEN Greater(0, o.cqty - r.cum) ELSE r.rem
<1>1. r.cum \in Nat /\ r.rem \in Nat
    BY DEF Report
<1>2. /\ state \in OrderState \ {"pending_submit"}
      /\ state \in Terminal => state = r.status /\ r.status \in Terminal
    BY ReportedTyped
<1> HIDE DEF state
<1>a. /\ Orderly(known) /\ Follows(o, known) /\ known.last = r /\ known.cum = r.cum
      /\ known.state = state
    <2>1. state \in OrderState \ {"pending_submit"}
        BY <1>2
    <2>2. Orderly(known)
        BY <1>1, <2>1, Known
    <2>3. Follows(o, known)
        BY <1>1, <2>1, Known
    <2>4. known.last = r /\ known.cum = r.cum /\ known.state = state
        BY OrderTyped DEF Orderly, OrderRecord
    <2> QED BY <2>2, <2>3, <2>4
<1>3. left \in Nat
    <2>1. o.cqty \in Nat
        BY OrderTyped DEF Orderly, OrderRecord
    <2> QED BY <1>1, <2>1 DEF Greater
<1>4. /\ r.status = "filled" => Progressed(o, r) = Release([known EXCEPT !.repl = NoReplacement])
      /\ r.status \in {"canceled", "rejected"} => Progressed(o, r) = Release(known)
      /\ r.status = "amended" => Progressed(o, r) = Promote(known, r)
      /\ r.status \notin {"filled", "canceled", "rejected", "amended"} =>
           Progressed(o, r) = Rebalanced(known, left)
    BY DEF Progressed, state
<1> HIDE DEF known, left
<1>5. Faithful(o, known, v, w)
    <2>1. Honest(known, v, w)
        BY <1>2, <1>a DEF Honest, TrueOf, Terminal
    <2>2. ~Unsent(known)
        BY <1>2, <1>a DEF Unsent, NoReport, Terminal
    <2> QED BY <1>a, <2>1, <2>2 DEF Faithful
<1>6. CASE r.status = "filled"
    <2> DEFINE q == [known EXCEPT !.repl = NoReplacement]
    <2>1. Same(known, q)
        BY <1>a, MarkedQuiet
    <2>2. Same(q, Release(q))
        BY <2>1, ReleaseSame DEF Same, Follows
    <2>3. Same(known, Release(q))
        BY <2>1, <2>2, SameChain
    <2> QED BY <1>4, <1>5, <1>6, <2>3, FaithfulSame
<1>7. CASE r.status \in {"canceled", "rejected"}
    BY <1>a, <1>4, <1>5, <1>7, ReleaseSame, FaithfulSame
<1>8. CASE r.status = "amended"
    <2>1. Same(known, Promote(known, r))
        BY <1>1, <1>a, <1>8, PromoteSame
    <2> QED BY <1>4, <1>5, <1>8, <2>1, FaithfulSame
<1>9. CASE r.status \notin {"filled", "canceled", "rejected", "amended"}
    <2>1. Same(known, Rebalanced(known, left))
        BY <1>a, <1>3, RebalancedSame
    <2> QED BY <1>4, <1>5, <1>9, <2>1, FaithfulSame
<1> QED BY <1>6, <1>7, <1>8, <1>9

\* applyReportInPlace, for a report that does not conflict.
LEMMA AfterReportFaithful ==
    ASSUME NEW o, Orderly(o), NEW r \in Report, NEW v, NEW w, Honest(o, v, w), TrueOf(r, v),
           ~Conflicts(o, r)
    PROVE  Faithful(o, AfterReport(o, r), v, w)
<1> DEFINE kept == IF r.status = "amended" THEN WithTotal(o, r) ELSE o
           told == [kept EXCEPT !.last = r, !.cum = r.cum]
           seen == [kept EXCEPT !.last = r]
<1>1. Same(o, kept) /\ kept.pbasis = o.pbasis
    <2>1. Same(o, o)
        BY DEF Same, Follows
    <2> QED BY <2>1, WithTotalSame
<1>2. Orderly(kept) /\ kept.state = o.state /\ kept.cum = o.cum
    BY <1>1 DEF Same, Follows
<1>3. kept \in OrderRecord(kept.totals) /\ r.cum \in Nat
    BY <1>2, OrderTyped DEF Orderly, Report
<1>4. /\ Historical(o, r) \/ NoNews(o, r) => AfterReport(o, r) = kept
      /\ ~(Historical(o, r) \/ NoNews(o, r)) =>
           /\ RefusesAmend(o, r) => AfterReport(o, r) = RejectAmend(told)
           /\ ~RefusesAmend(o, r) /\ r.status = "rejected" /\ o.state = "pending_cancel" =>
                AfterReport(o, r) = RejectCommand(seen, "cancel")
           /\ ~RefusesAmend(o, r) /\ ~(r.status = "rejected" /\ o.state = "pending_cancel") =>
                AfterReport(o, r) = Progressed(kept, r)
    BY DEF AfterReport
<1> HIDE DEF kept
<1>5. CASE Historical(o, r) \/ NoNews(o, r)
    <2>1. Quiet(o, kept)
        BY <1>1, SameQuiet
    <2> QED BY <1>4, <1>5, <2>1, QuietFaithful
<1>6. CASE ~(Historical(o, r) \/ NoNews(o, r)) /\ RefusesAmend(o, r)
    <2>1. Orderly(told) /\ Follows(kept, told) /\ told.cum = r.cum /\ told.pbasis = o.pbasis
        <3>1. /\ Orderly(told) /\ Follows(kept, told) /\ told.cum = r.cum
              /\ told.pbasis = kept.pbasis
            BY <1>2, <1>3, Heard, Zenon
        <3> QED BY <1>1, <3>1
    <2> HIDE DEF told
    <2>2. Pending(told)
        BY <1>6, <2>1 DEF RefusesAmend, Pending
    <2>3. Quiet(told, RejectAmend(told))
          /\ RejectAmend(told).state \in {"live", "partially_filled"}
        BY <2>1, <2>2, RejectAmendQuiet
    <2>4. Follows(o, RejectAmend(told))
        BY <1>1, <2>1, <2>3 DEF Quiet, Tame, Same, Follows
    <2>5. Honest(RejectAmend(told), v, w)
        BY <2>1, <2>3 DEF Quiet, Tame, Honest, TrueOf
    <2>6. Faithful(o, RejectAmend(told), v, w)
        BY <2>3, <2>4, <2>5 DEF Faithful, Unsent
    <2> QED BY <1>4, <1>6, <2>6
<1>7. CASE ~(Historical(o, r) \/ NoNews(o, r)) /\ ~RefusesAmend(o, r)
            /\ r.status = "rejected" /\ o.state = "pending_cancel"
    <2> DEFINE p == RejectCommand(seen, "cancel")
    <2>1. Orderly(seen) /\ Follows(kept, seen) /\ seen.cum = o.cum
        BY <1>2, <1>3, Noted
    <2> HIDE DEF seen
    <2>2. p = [seen EXCEPT !.state = Reopened(seen)]
        BY DEF RejectCommand
    <2>3. seen \in OrderRecord(seen.totals)
        BY <2>1, OrderTyped DEF Orderly
    <2>4. p.state \in {"live", "partially_filled"}
        BY <2>2, <2>3 DEF Reopened, OrderRecord
    <2>5. Quiet(seen, p)
        BY <2>1, RejectCommandTame
    <2> HIDE DEF p
    <2>6. Follows(o, p)
        BY <1>1, <2>1, <2>5 DEF Quiet, Tame, Same, Follows
    <2>7. Honest(p, v, w)
        BY <2>1, <2>4, <2>5 DEF Quiet, Tame, Honest
    <2>8. Faithful(o, p, v, w)
        BY <2>4, <2>6, <2>7 DEF Faithful, Unsent
    <2> QED BY <1>4, <1>7, <2>8 DEF p
<1>8. CASE ~(Historical(o, r) \/ NoNews(o, r)) /\ ~RefusesAmend(o, r)
            /\ ~(r.status = "rejected" /\ o.state = "pending_cancel")
    <2>1. ~Malformed(o, r)
        BY <1>8 DEF Conflicts
    <2>2. Faithful(kept, Progressed(kept, r), v, w)
        BY <1>2, <2>1, ProgressedFaithful DEF Malformed
    <2>4. Follows(o, Progressed(kept, r))
        BY <1>1, <2>2 DEF Faithful, Same, Follows
    <2>5. Unsent(kept) => Unsent(o)
        BY <1>1 DEF Same, Unsent
    <2>6. Faithful(o, Progressed(kept, r), v, w)
        BY <2>2, <2>4, <2>5 DEF Faithful
    <2> QED BY <1>4, <1>8, <2>6
<1> QED BY <1>5, <1>6, <1>7, <1>8

\* An order found live at the venue: the revision found decides whose quantities hold.
LEMMA FoundLiveFaithful ==
    ASSUME NEW o, Orderly(o), NEW r, r.status = "found_live", r.rev \in Nat, r.cum \in Nat,
           r.rem \in Nat, ~Inadmissible(o, r), NEW v, NEW w, TrueOf(r, v)
    PROVE  Faithful(o, FoundLive(o, r), v, w)
<1> DEFINE seen == [o EXCEPT !.cum = r.cum]
           current == [seen EXCEPT !.rev = r.rev]
           asked == [current EXCEPT !.qty = Total(r), !.cqty = Total(r)]
           found == IF OldRevision(o, r) THEN Rebalanced(seen, r.rem)
                    ELSE IF Pending(o) THEN Promote(current, r) ELSE Rebalanced(asked, r.rem)
           state == IF CancelUnsettled(o) THEN "pending_cancel"
                    ELSE IF OldRevision(o, r) /\ o.state = "unknown" THEN "unknown"
                    ELSE IF Pending(found) THEN "pending_amend" ELSE Reopened(found)
<1>1. /\ o \in OrderRecord(o.totals) /\ o.basis > 0 /\ (Pending(o) => o.rev > 0)
      /\ o.rev \in Nat /\ r.rem \in Nat \ {0} /\ Total(r) \in Nat
    <2>1. o \in OrderRecord(o.totals) /\ o.basis > 0 /\ (Pending(o) => o.rev > 0)
        BY OrderTyped DEF Orderly, Sane
    <2>2. o.rev \in Nat
        BY <2>1 DEF OrderRecord
    <2>3. r.rem # 0
        BY DEF Inadmissible
    <2>4. Total(r) \in Nat
        BY DEF Total
    <2> QED BY <2>1, <2>2, <2>3, <2>4
<1>2. FoundLive(o, r) = [found EXCEPT !.state = state]
    BY Zenon DEF FoundLive
<1>3. state \in OrderState \ (Terminal \cup {"pending_submit"})
    BY DEF Reopened, OrderState, Terminal
<1>4. /\ seen \in OrderRecord(o.totals) /\ seen.cmds = o.cmds /\ seen.basis = o.basis
      /\ seen.rev = o.rev /\ seen.pbasis = o.pbasis /\ seen.repl = o.repl
      /\ seen.group = o.group /\ seen.policy = o.policy /\ seen.predecessor = o.predecessor
      /\ seen.cum = r.cum /\ seen.state = o.state
    BY <1>1 DEF OrderRecord
<1>5. /\ current \in OrderRecord(o.totals) /\ current.cmds = o.cmds /\ current.basis = o.basis
      /\ current.rev = r.rev /\ current.pbasis = o.pbasis /\ current.repl = o.repl
      /\ current.group = o.group /\ current.policy = o.policy
      /\ current.predecessor = o.predecessor /\ current.cum = r.cum /\ current.state = o.state
    <2> HIDE DEF seen
    <2> QED BY <1>4 DEF OrderRecord
<1>6. /\ asked \in OrderRecord(o.totals) /\ asked.cmds = o.cmds /\ asked.basis = o.basis
      /\ asked.rev = r.rev /\ asked.pbasis = o.pbasis /\ asked.repl = o.repl
      /\ asked.group = o.group /\ asked.policy = o.policy
      /\ asked.predecessor = o.predecessor /\ asked.cum = r.cum /\ asked.state = o.state
    <2> HIDE DEF current
    <2> QED BY <1>1, <1>5 DEF OrderRecord
<1> HIDE DEF seen, current, asked, state
<1>7. Follows(o, found) /\ found.cum = r.cum
    <2>1. CASE OldRevision(o, r)
        <3>1. Orderly(seen) /\ Follows(o, seen)
            BY <1>1, <1>4, ToldFollows DEF Pending
        <3>2. Same(seen, Rebalanced(seen, r.rem))
            BY <3>1, RebalancedSame
        <3> QED BY <1>4, <2>1, <3>1, <3>2 DEF Same, Follows
    <2>2. CASE ~OldRevision(o, r) /\ Pending(o)
        <3>1. r.rev > 0
            BY <1>1, <2>2 DEF OldRevision
        <3>2. Orderly(current) /\ Follows(o, current)
            BY <1>1, <1>5, <3>1, ToldFollows
        <3>3. Same(current, Promote(current, r))
            BY <1>1, <3>2, PromoteSame
        <3> QED BY <1>5, <2>2, <3>2, <3>3 DEF Same, Follows
    <2>3. CASE ~OldRevision(o, r) /\ ~Pending(o)
        <3>1. Orderly(asked) /\ Follows(o, asked)
            BY <1>1, <1>6, <2>3, ToldFollows DEF Pending
        <3>2. Same(asked, Rebalanced(asked, r.rem))
            BY <3>1, RebalancedSame
        <3> QED BY <1>6, <2>3, <3>1, <3>2 DEF Same, Follows
    <2> QED BY <2>1, <2>2, <2>3
<1> HIDE DEF found
<1>8. Quiet(found, [found EXCEPT !.state = state])
    BY <1>3, <1>7, MovedQuiet DEF Follows
<1>9. found \in OrderRecord(found.totals)
    BY <1>7, OrderTyped DEF Follows, Orderly
<1> DEFINE p == [found EXCEPT !.state = state]
<1>10. p.state = state
    BY <1>9 DEF OrderRecord
<1> HIDE DEF p
<1>11. Follows(o, p)
    BY <1>7, <1>8 DEF Quiet, Tame, Follows, p
<1>12. Honest(p, v, w) /\ ~Unsent(p)
    <2>1. p.cum = r.cum
        BY <1>7, <1>8 DEF Quiet, Tame, p
    <2> QED BY <1>3, <1>10, <2>1 DEF Honest, TrueOf, Unsent, Terminal
<1> QED BY <1>2, <1>11, <1>12 DEF Faithful, p

\* Reconciliation remembers that it was resolved.
LEMMA RememberedFollows ==
    ASSUME NEW o, Orderly(o), NEW r
    PROVE  LET p == Remembered(o, r) IN
           /\ Follows(o, p) /\ p.cum = o.cum /\ p.state = o.state /\ p.cmds = o.cmds
           /\ p.last = o.last /\ p.policy = o.policy
           /\ p.settled <=> (o.settled \/ r.status # "unresolved")
<1> DEFINE b == o.settled \/ r.status # "unresolved"
           p == [o EXCEPT !.settled = b]
<1>1. o \in OrderRecord(o.totals) /\ o.basis > 0 /\ (Pending(o) => o.rev > 0)
    BY OrderTyped DEF Orderly, Sane
<1>2. Remembered(o, r) = p
    BY DEF Remembered
<1>3. b \in BOOLEAN
    OBVIOUS
<1> HIDE DEF b
<1>4. /\ p \in OrderRecord(o.totals) /\ p.cmds = o.cmds /\ p.basis = o.basis
      /\ p.rev = o.rev /\ p.pbasis = o.pbasis /\ p.repl = o.repl /\ p.last = o.last
      /\ p.group = o.group /\ p.policy = o.policy /\ p.predecessor = o.predecessor
      /\ p.cum = o.cum /\ p.state = o.state
    BY <1>1, <1>3 DEF OrderRecord
<1>5. p.settled = b
    BY <1>1 DEF OrderRecord
<1> HIDE DEF p
<1>6. Follows(o, p)
    BY <1>1, <1>4, ToldFollows DEF Pending
<1>7. p.settled <=> (o.settled \/ r.status # "unresolved")
    BY <1>5 DEF b
<1> QED BY <1>2, <1>4, <1>6, <1>7, Zenon

LEMMA RememberedFaithful ==
    ASSUME NEW o, Orderly(o), NEW r, NEW v, NEW w, Honest(o, v, w)
    PROVE  Faithful(o, Remembered(o, r), v, w)
<1> DEFINE p == Remembered(o, r)
<1>1. /\ Follows(o, p) /\ p.cum = o.cum /\ p.state = o.state /\ p.cmds = o.cmds
      /\ p.last = o.last /\ (p.settled <=> (o.settled \/ r.status # "unresolved"))
    BY RememberedFollows, Zenon
<1> HIDE DEF p
<1>2. Honest(p, v, w)
    BY <1>1 DEF Honest
<1>3. Unsent(p) => Unsent(o)
    BY <1>1, Zenon DEF Unsent
<1> QED BY <1>1, <1>2, <1>3 DEF Faithful, p

\* An order found closed: what is left of it is released.
LEMMA ClosedFaithful ==
    ASSUME NEW o, Orderly(o), NEW r, r.cum \in Nat, r.status \in Terminal,
           NEW v, NEW w, TrueOf(r, v),
           NEW p, p = Release([o EXCEPT !.cum = r.cum, !.state = r.status])
    PROVE  Follows(o, p) /\ Honest(p, v, w)
<1> DEFINE q == [o EXCEPT !.cum = r.cum, !.state = r.status]
<1>1. o \in OrderRecord(o.totals) /\ (Pending(o) => o.rev > 0)
    BY OrderTyped DEF Orderly, Sane
<1>2. /\ q \in OrderRecord(o.totals) /\ q.cmds = o.cmds /\ q.basis = o.basis
      /\ q.rev = o.rev /\ q.pbasis = o.pbasis /\ q.repl = o.repl
      /\ q.group = o.group /\ q.policy = o.policy /\ q.predecessor = o.predecessor
      /\ q.cum = r.cum /\ q.state = r.status
    BY <1>1 DEF OrderRecord, OrderState, Terminal
<1> HIDE DEF q
<1>3. Orderly(q) /\ Follows(o, q)
    BY <1>1, <1>2, ToldFollows DEF Pending, Terminal
<1>4. Same(q, Release(q))
    BY <1>3, ReleaseSame
<1>5. Follows(o, Release(q)) /\ Release(q).cum = r.cum /\ Release(q).state = r.status
    BY <1>2, <1>3, <1>4 DEF Same, Follows
<1>6. Honest(Release(q), v, w)
    BY <1>5 DEF Honest, TrueOf, Terminal
<1> QED BY <1>5, <1>6 DEF q

\* An order that never was at the venue and never will be.
LEMMA AbsentFaithful ==
    ASSUME NEW o, Orderly(o), NEW v, NEW w, Honest(o, v, w),
           v.st = "none", w[1] \notin {"idle", "flying"}, Len(o.cmds) = 1,
           NEW p, p = [o EXCEPT !.state = "canceled", !.active = FALSE, !.res = 0]
    PROVE  Follows(o, p) /\ Honest(p, v, w)
<1>1. o \in OrderRecord(o.totals) /\ (Pending(o) => o.rev > 0)
    BY OrderTyped DEF Orderly, Sane
<1>2. /\ p \in OrderRecord(o.totals) /\ p.cmds = o.cmds /\ p.basis = o.basis
      /\ p.rev = o.rev /\ p.pbasis = o.pbasis /\ p.repl = o.repl
      /\ p.group = o.group /\ p.policy = o.policy /\ p.predecessor = o.predecessor
      /\ p.cum = o.cum /\ p.state = "canceled"
    BY <1>1 DEF OrderRecord, OrderState
<1>3. Follows(o, p)
    BY <1>1, <1>2, ToldFollows DEF Pending
<1>4. Honest(p, v, w)
    BY <1>2 DEF Honest
<1> QED BY <1>3, <1>4

ResultStatus == {"unresolved", "found_live", "confirmed_absent"} \cup Terminal

\* applyReconciliationInPlace, before the result is remembered.
LEMMA AfterResultHonest ==
    ASSUME NEW o, Orderly(o), NEW v, NEW w, Honest(o, v, w),
           NEW r, r.status \in ResultStatus, r.rev \in Nat, r.cum \in Nat, r.rem \in Nat,
           ~Inadmissible(o, r), r.status # "unresolved" => TrueOf(r, v),
           r.status = "confirmed_absent" =>
             v.st = "none" /\ w[1] \notin {"idle", "flying"} /\ Len(o.cmds) = 1,
           NEW p, p = AfterResult(o, r)
    PROVE  /\ Follows(o, p) /\ Honest(p, v, w)
           /\ r.status = "unresolved" => (Unsent(p) => Unsent(o))
<1>2. /\ o.state \in Terminal => p = o
      /\ o.state \notin Terminal =>
           /\ r.status = "unresolved" => p = [o EXCEPT !.state = "unknown"]
           /\ r.status = "found_live" => p = FoundLive(o, r)
           /\ r.status = "confirmed_absent" =>
                p = [o EXCEPT !.state = "canceled", !.active = FALSE, !.res = 0]
           /\ r.status \in Terminal =>
                p = Release([o EXCEPT !.cum = r.cum, !.state = r.status])
    BY DEF AfterResult, Terminal
<1>3. CASE o.state \in Terminal
    BY <1>2, <1>3 DEF Follows
<1>4. CASE o.state \notin Terminal /\ r.status = "unresolved"
    <2>1. Quiet(o, p)
        BY <1>2, <1>4, MovedQuiet DEF OrderState, Terminal
    <2>2. Faithful(o, p, v, w)
        BY <2>1, QuietFaithful
    <2> QED BY <2>2 DEF Faithful
<1>5. CASE o.state \notin Terminal /\ r.status = "found_live"
    <2>1. Faithful(o, p, v, w)
        BY <1>2, <1>5, FoundLiveFaithful
    <2> QED BY <1>5, <2>1 DEF Faithful
<1>6. CASE o.state \notin Terminal /\ r.status = "confirmed_absent"
    <2>1. p = [o EXCEPT !.state = "canceled", !.active = FALSE, !.res = 0]
        BY <1>2, <1>6
    <2>2. v.st = "none" /\ w[1] \notin {"idle", "flying"} /\ Len(o.cmds) = 1
        BY <1>6
    <2>3. Follows(o, p) /\ Honest(p, v, w)
        BY <2>1, <2>2, AbsentFaithful
    <2> QED BY <1>6, <2>3
<1>7. CASE o.state \notin Terminal /\ r.status \in Terminal
    <2>1. r.status # "unresolved"
        BY <1>7 DEF Terminal
    <2>2. p = Release([o EXCEPT !.cum = r.cum, !.state = r.status])
        BY <1>2, <1>7
    <2>3. TrueOf(r, v)
        BY <2>1
    <2>4. Follows(o, p) /\ Honest(p, v, w)
        BY <1>7, <2>2, <2>3, ClosedFaithful
    <2> QED BY <2>1, <2>4
<1> QED BY <1>3, <1>4, <1>5, <1>6, <1>7 DEF ResultStatus

\* A resolved result that is remembered tells an order from one never sent.
LEMMA ResolvedFaithful ==
    ASSUME NEW o, NEW v, NEW w, NEW r, NEW p, Follows(o, p), Honest(p, v, w),
           r.status = "unresolved" => (Unsent(p) => Unsent(o))
    PROVE  Faithful(o, Remembered(p, r), v, w)
<1> DEFINE q == Remembered(p, r)
<1>1. /\ Follows(p, q) /\ q.cum = p.cum /\ q.state = p.state /\ q.cmds = p.cmds
      /\ q.last = p.last /\ (q.settled <=> (p.settled \/ r.status # "unresolved"))
    BY RememberedFollows, Zenon DEF Follows
<1> HIDE DEF q
<1>2. Follows(o, q)
    BY <1>1 DEF Follows
<1>3. Honest(q, v, w)
    BY <1>1 DEF Honest
<1>4. Unsent(q) => Unsent(o)
    BY <1>1, Zenon DEF Unsent
<1>5. Faithful(o, q, v, w)
    BY <1>2, <1>3, <1>4 DEF Faithful
<1> QED BY <1>5 DEF q

-----------------------------------------------------------------------------
(* New orders.                                                             *)

\* createOrder: a record of its fields.
LEMMA NewOrderFields ==
    ASSUME NEW qty \in Nat \ {0}, NEW atoms \in Nat, NEW group \in Nat, NEW policy \in Policies,
           NEW predecessor \in Nat, NEW t, t = [v \in {1} |-> qty],
           NEW o, o = NewOrder(qty, atoms, group, policy, predecessor)
    PROVE  /\ o = [state |-> "pending_submit", rev |-> 1, qty |-> qty, cum |-> 0,
                   res |-> atoms, active |-> TRUE, cres |-> atoms, cqty |-> qty, basis |-> qty,
                   pres |-> 0, pbasis |-> 0, submitted |-> FALSE, repl |-> NoReplacement,
                   group |-> group, policy |-> policy, predecessor |-> predecessor,
                   last |-> NoReport, settled |-> FALSE, totals |-> t, cmds |-> << >>]
BY DEF NewOrder

LEMMA RecordTyped ==
    ASSUME NEW qty \in Nat, NEW atoms \in Nat, NEW group \in Nat, NEW policy \in Policies,
           NEW predecessor \in Nat, NEW t, NEW s \in Seq(Command),
           NEW repl \in Replacement, NEW last \in Report, NEW state \in OrderState,
           NEW o, o = [state |-> state, rev |-> 1, qty |-> qty, cum |-> 0,
                       res |-> atoms, active |-> TRUE, cres |-> atoms, cqty |-> qty,
                       basis |-> qty, pres |-> 0, pbasis |-> 0, submitted |-> FALSE,
                       repl |-> repl, group |-> group, policy |-> policy,
                       predecessor |-> predecessor, last |-> last, settled |-> FALSE,
                       totals |-> t, cmds |-> s]
    PROVE  o \in OrderRecord(t) /\ o.totals = t /\ o.cmds = s
BY DEF OrderRecord

\* createOrder and its first command.
NewlyPlaced(p, group, policy, predecessor) ==
    /\ Orderly(p) /\ p.cum = 0 /\ p.state = "pending_submit" /\ p.group = group
    /\ p.policy = policy /\ p.predecessor = predecessor

LEMMA PlacedOrderly ==
    ASSUME NEW qty \in Nat \ {0}, NEW atoms \in Nat, NEW group \in Nat, NEW policy \in Policies,
           NEW predecessor \in Nat
    PROVE  NewlyPlaced(Emit(NewOrder(qty, atoms, group, policy, predecessor), "place", atoms),
                       group, policy, predecessor)
<1>0. PICK p : p = Emit(NewOrder(qty, atoms, group, policy, predecessor), "place", atoms)
    OBVIOUS
<1> DEFINE c == [op |-> "place", rev |-> 1, qty |-> qty, total |-> qty, atoms |-> atoms]
<1>1. PICK t : t = [v \in {1} |-> qty]
    OBVIOUS
<1>2. 1 \in DOMAIN t /\ \A v \in DOMAIN t : v \in Nat /\ t[v] \in Nat
    BY <1>1
<1>3. PICK o : o = NewOrder(qty, atoms, group, policy, predecessor)
    OBVIOUS
<1>4. o = [state |-> "pending_submit", rev |-> 1, qty |-> qty, cum |-> 0,
           res |-> atoms, active |-> TRUE, cres |-> atoms, cqty |-> qty, basis |-> qty,
           pres |-> 0, pbasis |-> 0, submitted |-> FALSE, repl |-> NoReplacement,
           group |-> group, policy |-> policy, predecessor |-> predecessor,
           last |-> NoReport, settled |-> FALSE, totals |-> t, cmds |-> << >>]
    BY <1>1, <1>3, NewOrderFields
<1>5. NoReport \in Report /\ NoReplacement \in Replacement
    BY DEF NoReport, Report, ReportStatus, NoReplacement, Replacement
<1>6. c \in Command /\ c.op = "place" /\ c.total > 0
    BY DEF Command
<1>7. /\ o.rev = 1 /\ o.qty = qty /\ o.cum = 0 /\ o.cmds = << >> /\ o.qty - o.cum = qty
    BY <1>4
<1>8. p = [o EXCEPT !.cmds = <<c>>]
    <2>1. Append(<< >>, c) = <<c>>
        OBVIOUS
    <2> QED BY <1>0, <1>3, <1>7, <2>1 DEF Emit
<1>9. <<c>> \in Seq(Command) /\ Len(<<c>>) = 1 /\ DOMAIN <<c>> = {1} /\ <<c>>[1] = c
    <2> HIDE DEF c
    <2> QED BY <1>6
<1> HIDE DEF c
<1>10. PICK s : s = <<c>>
    OBVIOUS
<1>11. p = [state |-> "pending_submit", rev |-> 1, qty |-> qty, cum |-> 0,
            res |-> atoms, active |-> TRUE, cres |-> atoms, cqty |-> qty, basis |-> qty,
            pres |-> 0, pbasis |-> 0, submitted |-> FALSE, repl |-> NoReplacement,
            group |-> group, policy |-> policy, predecessor |-> predecessor,
            last |-> NoReport, settled |-> FALSE, totals |-> t, cmds |-> s]
    BY <1>4, <1>8, <1>10
<1>12. p \in OrderRecord(t) /\ p.totals = t /\ p.cmds = s
    <2>1. "pending_submit" \in OrderState /\ s \in Seq(Command) /\ qty \in Nat
        BY <1>9, <1>10 DEF OrderState
    <2> QED BY <1>5, <1>11, <2>1, RecordTyped
<1>13. /\ p.pbasis = 0 /\ p.repl = NoReplacement /\ p.basis = qty /\ p.state = "pending_submit"
       /\ p.group = group /\ p.policy = policy /\ p.predecessor = predecessor /\ p.cum = 0
    BY <1>11
<1>14. Orderly(p)
    <2>a. Len(s) = 1 /\ DOMAIN s = {1} /\ s[1] = c
        BY <1>9, <1>10, Zenon
    <2>1. Len(p.cmds) > 0 /\ p.cmds[1].total > 0
        <3>1. Len(p.cmds) = 1 /\ p.cmds[1] = c
            BY <1>12, <2>a, Zenon
        <3> QED BY <1>6, <3>1
    <2>2. \A k \in DOMAIN p.cmds : p.cmds[k].op = "place" <=> k = 1
        BY <1>6, <1>12, <2>a
    <2>3. Commanded(p)
        BY <2>1, <2>2 DEF Commanded
    <2>4. IsOrder(p)
        BY <1>2, <1>12 DEF IsOrder
    <2>5. p.basis > 0 /\ ~Pending(p)
        BY <1>13 DEF Pending
    <2> QED BY <1>13, <2>3, <2>4, <2>5 DEF Orderly, Sane
<1>15. NewlyPlaced(p, group, policy, predecessor)
    BY <1>13, <1>14 DEF NewlyPlaced
<1> QED BY <1>0, <1>15

-----------------------------------------------------------------------------
(* All the orders, `vn' the venue and `w' the wire.                        *)

\* An order that was never sent and never will be stops its group.
Stops(s, i) == Unsent(s[i]) /\ s[i].policy = "cancel_remaining"
Waits(s, i) == s[i].predecessor = 0 /\ s[i].state = "pending_submit"
GroupsKept(s) ==
    /\ \A i \in DOMAIN s : s[i].group <= i
    /\ \A i, j \in DOMAIN s : s[i].group = s[j].group =>
         s[i].policy = s[j].policy /\ ~(Stops(s, i) /\ Waits(s, j))

\* A replacement comes after the end of its predecessor, with the fills of a
\* cancel that was emitted for it.
Ended(s, i, vn) ==
    i \in DOMAIN s /\ vn[i].st = "canceled" /\ CancelEmitted(s[i].cmds, vn[i].cum)
Succession(s, vn) ==
    \A j \in DOMAIN s : s[j].predecessor # 0 => Ended(s, s[j].predecessor, vn)

Believed(s, vn, w) == \A i \in DOMAIN s : Orderly(s[i]) /\ Honest(s[i], vn[i], w[i])
Book(s) == s \in Seq({s[i] : i \in DOMAIN s})
Kept(s, vn, w) == Book(s) /\ Believed(s, vn, w) /\ GroupsKept(s) /\ Succession(s, vn)

\* A function on an interval from 1 is a sequence.
LEMMA BookOf ==
    ASSUME NEW n \in Nat, NEW t, DOMAIN t = 1 .. n, t = [i \in DOMAIN t |-> t[i]]
    PROVE  Book(t) /\ Len(t) = n
<1>1. t \in [1 .. n -> {t[i] : i \in DOMAIN t}]
    OBVIOUS
<1>2. t \in Seq({t[i] : i \in DOMAIN t})
    BY <1>1
<1>3. Len(t) = n
    BY <1>2
<1> QED BY <1>2, <1>3 DEF Book

LEMMA BookDomain ==
    ASSUME NEW s, Book(s)
    PROVE  Len(s) \in Nat /\ DOMAIN s = 1 .. Len(s) /\ s = [i \in DOMAIN s |-> s[i]]
BY DEF Book

\* What a handler that creates no order makes of all of them.
Carried(s, t, vn, w) ==
    /\ DOMAIN t = DOMAIN s /\ t = [i \in DOMAIN t |-> t[i]]
    /\ \A i \in DOMAIN s : Follows(s[i], t[i]) /\ Honest(t[i], vn[i], w[i])
    /\ \A i \in DOMAIN s : Unsent(t[i]) =>
         \/ Unsent(s[i])
         \/ t[i].policy # "cancel_remaining"
         \/ \A j \in DOMAIN s : t[j].group = t[i].group => t[j].state # "pending_submit"

LEMMA EachKept ==
    ASSUME NEW s, NEW vn, NEW w, Kept(s, vn, w), NEW t, Carried(s, t, vn, w)
    PROVE  Kept(t, vn, w) /\ Len(t) = Len(s)
<1>1. Book(s) /\ GroupsKept(s) /\ Succession(s, vn)
    BY DEF Kept
<1>0. DOMAIN t = DOMAIN s /\ t = [i \in DOMAIN t |-> t[i]]
    BY DEF Carried
<1>2. Book(t) /\ Len(t) = Len(s)
    BY <1>1, <1>0, BookDomain, BookOf
<1>3. Believed(t, vn, w)
    BY <1>0 DEF Believed, Carried, Follows
<1>4. \A i \in DOMAIN s : /\ t[i].group = s[i].group /\ t[i].policy = s[i].policy
                          /\ t[i].predecessor = s[i].predecessor
                          /\ t[i].state = "pending_submit" => s[i].state = "pending_submit"
                          /\ \A cum : CancelEmitted(s[i].cmds, cum) => CancelEmitted(t[i].cmds, cum)
    BY DEF Carried, Follows
<1>5. GroupsKept(t)
    <2>1. \A i \in DOMAIN t : t[i].group <= i
        BY <1>1, <1>0, <1>4 DEF GroupsKept
    <2>2. ASSUME NEW i \in DOMAIN t, NEW j \in DOMAIN t, t[i].group = t[j].group
          PROVE  t[i].policy = t[j].policy
        BY <1>1, <1>0, <1>4, <2>2 DEF GroupsKept
    <2>3. ASSUME NEW i \in DOMAIN t, NEW j \in DOMAIN t, t[i].group = t[j].group,
                 Stops(t, i), Waits(t, j)
          PROVE  FALSE
        <3>1. Waits(s, j) /\ s[i].group = s[j].group /\ s[i].policy = "cancel_remaining"
            BY <1>0, <1>4, <2>3 DEF Waits, Stops
        <3>2. ~Unsent(s[i])
            BY <1>1, <1>0, <3>1 DEF GroupsKept, Stops
        <3>3. t[j].state = "pending_submit"
            BY <2>3 DEF Waits
        <3> QED BY <1>0, <2>3, <3>2, <3>3 DEF Stops, Carried
    <2> QED BY <2>1, <2>2, <2>3 DEF GroupsKept
<1>6. Succession(t, vn)
    BY <1>1, <1>0, <1>4 DEF Succession, Ended
<1> QED BY <1>2, <1>3, <1>5, <1>6 DEF Kept

LEMMA FollowsSelf ==
    ASSUME NEW o, NEW v, NEW w, Orderly(o), Honest(o, v, w)
    PROVE  Faithful(o, o, v, w)
BY DEF Faithful, Follows

\* ... that touches one order.
Put(s, i, p) == [s EXCEPT ![i] = p]

LEMMA OneKept ==
    ASSUME NEW s, NEW vn, NEW w, Kept(s, vn, w), NEW i \in DOMAIN s,
           NEW p, Faithful(s[i], p, vn[i], w[i])
    PROVE  Kept(Put(s, i, p), vn, w) /\ Len(Put(s, i, p)) = Len(s)
<1> DEFINE t == Put(s, i, p)
<1>1. Book(s) /\ s = [j \in DOMAIN s |-> s[j]]
    BY BookDomain DEF Kept
<1>2. DOMAIN t = DOMAIN s /\ t = [j \in DOMAIN t |-> t[j]]
    BY <1>1 DEF Put
<1>0. t[i] = p /\ \A j \in DOMAIN s \ {i} : t[j] = s[j]
    BY <1>1 DEF Put
<1> HIDE DEF t
<1>3. ASSUME NEW j \in DOMAIN s PROVE Faithful(s[j], t[j], vn[j], w[j])
    <2>1. Orderly(s[j]) /\ Honest(s[j], vn[j], w[j])
        BY DEF Kept, Believed
    <2>2. CASE j = i
        BY <1>0, <2>2
    <2>3. CASE j # i
        <3>1. t[j] = s[j]
            BY <1>0, <2>3
        <3> QED BY <2>1, <3>1, FollowsSelf
    <2> QED BY <2>2, <2>3
<1>4. Carried(s, t, vn, w)
    BY <1>2, <1>3 DEF Carried, Faithful
<1>5. Kept(t, vn, w) /\ Len(t) = Len(s)
    BY <1>4, EachKept
<1> QED BY <1>5 DEF t

\* ... that touches each without evidence of the venue.
LEMMA QuietKept ==
    ASSUME NEW s, NEW vn, NEW w, Kept(s, vn, w),
           NEW t, DOMAIN t = DOMAIN s, t = [i \in DOMAIN t |-> t[i]],
           \A i \in DOMAIN s : t[i] = s[i] \/ Quiet(s[i], t[i])
    PROVE  Kept(t, vn, w) /\ Len(t) = Len(s)
<1>1. ASSUME NEW i \in DOMAIN s PROVE Faithful(s[i], t[i], vn[i], w[i])
    <2>1. Orderly(s[i]) /\ Honest(s[i], vn[i], w[i])
        BY DEF Kept, Believed
    <2>2. CASE t[i] = s[i]
        BY <2>1, <2>2, FollowsSelf
    <2>3. CASE Quiet(s[i], t[i])
        BY <2>1, <2>3, QuietFaithful
    <2> QED BY <2>2, <2>3
<1>2. Carried(s, t, vn, w)
    BY <1>1 DEF Carried, Faithful
<1> QED BY <1>2, EachKept

\* Safety cancellations.
LEMMA CancelOpenKept ==
    ASSUME NEW s, NEW vn, NEW w, Kept(s, vn, w), NEW scope
    PROVE  Kept(CancelOpen(s, scope), vn, w) /\ Len(CancelOpen(s, scope)) = Len(s)
<1> DEFINE t == CancelOpen(s, scope)
<1>1. DOMAIN t = DOMAIN s /\ t = [i \in DOMAIN t |-> t[i]]
    BY DEF CancelOpen
<1>2. \A i \in DOMAIN s : t[i] = s[i] \/ t[i] = Cancel(s[i])
    BY DEF CancelOpen
<1> HIDE DEF t
<1>3. \A i \in DOMAIN s : t[i] = s[i] \/ Quiet(s[i], t[i])
    BY <1>2, CancelQuiet DEF Kept, Believed
<1>4. Kept(t, vn, w) /\ Len(t) = Len(s)
    BY <1>1, <1>3, QuietKept
<1> QED BY <1>4 DEF t

LEMMA GateClosesKept ==
    ASSUME NEW s, NEW vn, NEW w, Kept(s, vn, w)
    PROVE  Kept(GateCloses(s), vn, w) /\ Len(GateCloses(s)) = Len(s)
BY CancelOpenKept DEF GateCloses

\* cancelGroup: no place of the group is left waiting.
LEMMA CancelGroupKept ==
    ASSUME NEW s, NEW vn, NEW w, Kept(s, vn, w), NEW i \in DOMAIN s,
           NEW op \in {"place", "amend", "cancel"}
    PROVE  LET t == CancelGroup(Put(s, i, RejectCommand(s[i], op)), s[i].group) IN
           Kept(t, vn, w) /\ Len(t) = Len(s)
<1> DEFINE r == Put(s, i, RejectCommand(s[i], op))
           t == CancelGroup(r, s[i].group)
<1>1. Book(s) /\ s = [j \in DOMAIN s |-> s[j]] /\ Believed(s, vn, w)
    BY BookDomain DEF Kept
<1>2. DOMAIN r = DOMAIN s /\ r[i] = RejectCommand(s[i], op)
      /\ \A j \in DOMAIN s \ {i} : r[j] = s[j]
    BY <1>1 DEF Put
<1> HIDE DEF r
<1>3. DOMAIN t = DOMAIN s /\ t = [j \in DOMAIN t |-> t[j]]
    BY <1>2 DEF CancelGroup
<1>4. \A j \in DOMAIN s : t[j] = IF r[j].group = s[i].group THEN CancelMember(r[j]) ELSE r[j]
    BY <1>2 DEF CancelGroup
<1> HIDE DEF t
<1>5. ASSUME NEW j \in DOMAIN s PROVE Tame(s[j], r[j]) /\ (j # i => r[j] = s[j])
    <2>1. Orderly(s[j])
        BY <1>1 DEF Believed
    <2>2. CASE j = i
        BY <1>2, <2>1, <2>2, RejectCommandTame
    <2>3. CASE j # i
        BY <1>2, <2>1, <2>3 DEF Tame, Follows
    <2> QED BY <2>2, <2>3
<1>6. ASSUME NEW j \in DOMAIN s
      PROVE  /\ Tame(r[j], t[j]) /\ Tame(s[j], t[j])
             /\ s[j].group = s[i].group => t[j].state # "pending_submit"
             /\ s[j].group # s[i].group => t[j] = s[j]
    <2>1. Orderly(r[j]) /\ r[j].group = s[j].group
        BY <1>5 DEF Tame, Follows
    <2>2. CASE s[j].group = s[i].group
        <3>1. t[j] = CancelMember(r[j])
            BY <1>4, <2>1, <2>2
        <3>2. Tame(r[j], t[j]) /\ t[j].state # "pending_submit"
            BY <2>1, <3>1, CancelMemberTame
        <3>3. Tame(s[j], t[j])
            BY <1>5, <3>2 DEF Tame, Follows
        <3> QED BY <2>2, <3>2, <3>3
    <2>3. CASE s[j].group # s[i].group
        <3>1. t[j] = r[j] /\ r[j] = s[j]
            BY <1>4, <1>5, <2>1, <2>3
        <3>2. Tame(r[j], t[j])
            BY <2>1, <3>1 DEF Tame, Follows
        <3> QED BY <2>3, <3>1, <3>2
    <2> QED BY <2>2, <2>3
<1>7. \A j \in DOMAIN s : Follows(s[j], t[j]) /\ Honest(t[j], vn[j], w[j])
    <2> SUFFICES ASSUME NEW j \in DOMAIN s PROVE Follows(s[j], t[j]) /\ Honest(t[j], vn[j], w[j])
        OBVIOUS
    <2>1. Tame(s[j], t[j]) /\ Honest(s[j], vn[j], w[j])
        BY <1>1, <1>6 DEF Believed
    <2> QED BY <2>1 DEF Tame, Honest
<1>8. ASSUME NEW j \in DOMAIN s, Unsent(t[j])
      PROVE  \/ Unsent(s[j])
             \/ \A k \in DOMAIN s : t[k].group = t[j].group => t[k].state # "pending_submit"
    <2>1. CASE s[j].group # s[i].group
        BY <1>6, <1>8, <2>1
    <2>2. CASE s[j].group = s[i].group
        <3>1. \A k \in DOMAIN s : t[k].group = t[j].group => s[k].group = s[i].group
            BY <1>7, <2>2 DEF Follows
        <3> QED BY <1>6, <3>1
    <2> QED BY <2>1, <2>2
<1>9. Carried(s, t, vn, w)
    BY <1>3, <1>7, <1>8 DEF Carried
<1>10. Kept(t, vn, w) /\ Len(t) = Len(s)
    BY <1>9, EachKept
<1> QED BY <1>10 DEF t, r

\* applyDispatchInPlace.
LEMMA DispatchedKept ==
    ASSUME Kept(orders, venue, wire), NEW i \in Ids, NEW c, c.op \in {"place", "amend", "cancel"},
           NEW result \in DispatchState, NEW o, o = orders[i]
    PROVE  Kept(Dispatched(i, c, result), venue, wire)
           /\ Len(Dispatched(i, c, result)) = Len(orders)
<1> DEFINE t == Dispatched(i, c, result)
           refused == Put(orders, i, RejectCommand(o, c.op))
<1>1. Orderly(o) /\ Honest(o, venue[i], wire[i])
    BY DEF Kept, Believed, Ids
<1>2. /\ result = "unknown" => t = Put(orders, i, Uncertainly(o))
      /\ result = "submitted" => t = Put(orders, i, [o EXCEPT !.submitted = TRUE])
      /\ result = "not_sent" =>
           t = IF o.policy = "cancel_remaining" THEN CancelGroup(refused, o.group) ELSE refused
    BY DEF Dispatched, Put
<1> HIDE DEF t
<1>3. CASE result = "unknown"
    <2>a. Quiet(o, Uncertainly(o))
        BY <1>1, MarkedQuiet
    <2>1. Faithful(o, Uncertainly(o), venue[i], wire[i])
        BY <1>1, <2>a, QuietFaithful
    <2>2. t = Put(orders, i, Uncertainly(o))
        BY <1>2, <1>3
    <2>3. Kept(t, venue, wire) /\ Len(t) = Len(orders)
        BY <2>1, <2>2, OneKept DEF Ids
    <2> QED BY <2>3 DEF t
<1>4. CASE result = "submitted"
    <2> DEFINE p == [o EXCEPT !.submitted = TRUE]
    <2>a. Quiet(o, p)
        BY <1>1, MarkedQuiet
    <2>1. Faithful(o, p, venue[i], wire[i])
        BY <1>1, <2>a, QuietFaithful
    <2>2. t = Put(orders, i, p)
        BY <1>2, <1>4
    <2> HIDE DEF p
    <2>3. Kept(t, venue, wire) /\ Len(t) = Len(orders)
        BY <2>1, <2>2, OneKept DEF Ids
    <2> QED BY <2>3 DEF t
<1>5. CASE result = "not_sent" /\ o.policy = "cancel_remaining"
    <2>1. t = CancelGroup(refused, o.group)
        BY <1>2, <1>5
    <2>2. PICK op \in {"place", "amend", "cancel"} : op = c.op
        OBVIOUS
    <2>3. t = CancelGroup(Put(orders, i, RejectCommand(orders[i], op)), orders[i].group)
        BY <2>1, <2>2
    <2>5. Kept(t, venue, wire) /\ Len(t) = Len(orders)
        BY <2>3, CancelGroupKept DEF Ids
    <2> QED BY <2>5 DEF t
<1>6. CASE result = "not_sent" /\ o.policy # "cancel_remaining"
    <2> DEFINE p == RejectCommand(o, c.op)
    <2>1. t = Put(orders, i, p)
        BY <1>2, <1>6
    <2>2. Tame(o, p)
        <3>1. PICK op \in {"place", "amend", "cancel"} : op = c.op
            OBVIOUS
        <3>2. Tame(o, RejectCommand(o, op))
            BY <1>1, RejectCommandTame
        <3> QED BY <3>1, <3>2
    <2> HIDE DEF p
    <2>3. Follows(o, p) /\ Honest(p, venue[i], wire[i]) /\ p.policy # "cancel_remaining"
        BY <1>1, <1>6, <2>2 DEF Tame, Honest, Follows
    <2>4. Book(orders) /\ orders = [j \in Ids |-> orders[j]]
        BY BookDomain DEF Kept, Ids
    <2>5. DOMAIN t = Ids /\ t = [j \in DOMAIN t |-> t[j]] /\ t[i] = p
          /\ \A j \in Ids \ {i} : t[j] = orders[j]
        BY <2>1, <2>4 DEF Ids, Put
    <2>6. \A j \in Ids : /\ Follows(orders[j], t[j]) /\ Honest(t[j], venue[j], wire[j])
                         /\ Unsent(t[j]) => Unsent(orders[j]) \/ t[j].policy # "cancel_remaining"
        <3> SUFFICES ASSUME NEW j \in Ids
                     PROVE  /\ Follows(orders[j], t[j]) /\ Honest(t[j], venue[j], wire[j])
                            /\ Unsent(t[j]) => \/ Unsent(orders[j])
                                               \/ t[j].policy # "cancel_remaining"
            OBVIOUS
        <3>1. CASE j = i
            BY <2>3, <2>5, <3>1
        <3>2. CASE j # i
            <4>1. Orderly(orders[j]) /\ Honest(orders[j], venue[j], wire[j])
                BY DEF Kept, Believed, Ids
            <4>2. Faithful(orders[j], orders[j], venue[j], wire[j])
                BY <4>1, FollowsSelf
            <4> QED BY <2>5, <3>2, <4>2 DEF Faithful
        <3> QED BY <3>1, <3>2
    <2>7. Kept(t, venue, wire) /\ Len(t) = Len(orders)
        <3>1. Carried(orders, t, venue, wire)
            BY <2>5, <2>6 DEF Carried, Ids
        <3> QED BY <3>1, EachKept
    <2> QED BY <2>7 DEF t
<1> QED BY <1>3, <1>4, <1>5, <1>6 DEF DispatchState

\* A new order joins its group before the group was stopped, or replaces one.
Joins(s, p) ==
    /\ p.group <= Len(s) + 1
    /\ \A i \in DOMAIN s : s[i].group = p.group =>
         s[i].policy = p.policy /\ (p.predecessor = 0 => ~Unsent(s[i]))

LEMMA AppendKept ==
    ASSUME NEW s, NEW vn, NEW w, Kept(s, vn, w),
           NEW p, Orderly(p), p.state = "pending_submit", Joins(s, p),
           Honest(p, vn[Len(s) + 1], w[Len(s) + 1]),
           p.predecessor # 0 => Ended(s, p.predecessor, vn)
    PROVE  Kept(Append(s, p), vn, w) /\ Len(Append(s, p)) = Len(s) + 1
<1> DEFINE n == Len(s) + 1
           t == Append(s, p)
<1>1. Book(s) /\ Believed(s, vn, w) /\ GroupsKept(s) /\ Succession(s, vn)
    BY DEF Kept
<1>2. Len(s) \in Nat /\ DOMAIN s = 1 .. Len(s)
    BY <1>1, BookDomain
<1>3. PICK S : S = {s[i] : i \in DOMAIN s} \cup {p}
    OBVIOUS
<1>4. s \in Seq(S) /\ p \in S
    <2>1. \A i \in 1 .. Len(s) : s[i] \in S
        BY <1>2, <1>3
    <2>2. s = [i \in 1 .. Len(s) |-> s[i]]
        BY <1>1, <1>2, BookDomain
    <2>3. s \in [1 .. Len(s) -> S]
        BY <2>1, <2>2
    <2> QED BY <1>2, <1>3, <2>3
<1>5. /\ t \in Seq(S) /\ Len(t) = n /\ DOMAIN t = 1 .. n /\ t[n] = p
      /\ \A i \in DOMAIN s : t[i] = s[i] /\ i \in DOMAIN t
      /\ \A i \in DOMAIN t : i \in DOMAIN s \/ i = n
      /\ n \in Nat /\ n \notin DOMAIN s
    BY <1>2, <1>4
<1>6. Book(t)
    <2> HIDE DEF t, n
    <2>1. t \in [1 .. Len(t) -> S]
        BY <1>5
    <2>2. n \in Nat /\ DOMAIN t = 1 .. n /\ t = [i \in DOMAIN t |-> t[i]]
        BY <1>5, <2>1
    <2> QED BY <2>2, BookOf
<1> HIDE DEF t
<1>7. Believed(t, vn, w)
    BY <1>1, <1>5 DEF Believed
<1>8. ~Unsent(p)
    BY DEF Unsent
<1>9. GroupsKept(t)
    <2>1. \A i \in DOMAIN t : t[i].group <= i
        BY <1>1, <1>5 DEF GroupsKept, Joins
    <2>2. ASSUME NEW i \in DOMAIN t, NEW j \in DOMAIN t, t[i].group = t[j].group
          PROVE  t[i].policy = t[j].policy
        BY <1>1, <1>5, <2>2 DEF GroupsKept, Joins
    <2>3. ASSUME NEW i \in DOMAIN t, NEW j \in DOMAIN t, t[i].group = t[j].group,
                 Stops(t, i), Waits(t, j)
          PROVE  FALSE
        <3>1. i \in DOMAIN s /\ t[i] = s[i]
            BY <1>5, <1>8, <2>3 DEF Stops
        <3>2. CASE j = n
            <4>1. Unsent(s[i]) /\ s[i].group = p.group /\ p.predecessor = 0
                BY <1>5, <2>3, <3>1, <3>2 DEF Stops, Waits
            <4> QED BY <3>1, <4>1 DEF Joins
        <3>3. CASE j \in DOMAIN s
            <4>1. Stops(s, i) /\ Waits(s, j) /\ s[i].group = s[j].group
                BY <1>5, <2>3, <3>1, <3>3 DEF Stops, Waits
            <4> QED BY <1>1, <3>1, <3>3, <4>1 DEF GroupsKept
        <3> QED BY <1>5, <3>2, <3>3
    <2> QED BY <2>1, <2>2, <2>3 DEF GroupsKept
<1>10. \A i : Ended(s, i, vn) => Ended(t, i, vn)
    BY <1>5 DEF Ended
<1>11. Succession(t, vn)
    BY <1>1, <1>5, <1>10 DEF Succession
<1> QED BY <1>5, <1>6, <1>7, <1>9, <1>11 DEF Kept, t

\* createOrder, where the identity of the order has its place at the venue.
Joinable(s, vn, group, policy, predecessor) ==
    /\ 0 <= vn[Len(s) + 1].cum
    /\ group \in Nat /\ group <= Len(s) + 1 /\ policy \in Policies /\ predecessor \in Nat
    /\ \A i \in DOMAIN s : s[i].group = group =>
         s[i].policy = policy /\ (predecessor = 0 => ~Unsent(s[i]))
    /\ predecessor # 0 => Ended(s, predecessor, vn)

LEMMA PlaceKept ==
    ASSUME NEW s, NEW vn, NEW w, Kept(s, vn, w),
           NEW qty \in Nat \ {0}, NEW atoms \in Nat, NEW group, NEW policy,
           NEW predecessor, Joinable(s, vn, group, policy, predecessor)
    PROVE  LET t == Place(s, qty, atoms, group, policy, predecessor) IN
           /\ Kept(t, vn, w) /\ Len(t) = Len(s) + 1
           /\ \A i \in DOMAIN s : t[i] = s[i]
           /\ ~Unsent(t[Len(s) + 1]) /\ t[Len(s) + 1].policy = policy
<1>0. PICK p : p = Emit(NewOrder(qty, atoms, group, policy, predecessor), "place", atoms)
    OBVIOUS
<1> DEFINE t == Append(s, p)
<1>1. Place(s, qty, atoms, group, policy, predecessor) = t
    BY <1>0 DEF Place
<1>2. /\ Orderly(p) /\ p.cum = 0 /\ p.state = "pending_submit" /\ p.group = group
      /\ p.policy = policy /\ p.predecessor = predecessor
    <2>1. NewlyPlaced(p, group, policy, predecessor)
        BY <1>0, PlacedOrderly DEF Joinable
    <2> QED BY <2>1 DEF NewlyPlaced
<1>3. Joins(s, p)
    BY <1>2 DEF Joins, Joinable
<1>4. Honest(p, vn[Len(s) + 1], w[Len(s) + 1])
    BY <1>2 DEF Honest, Joinable
<1>5. Kept(t, vn, w) /\ Len(t) = Len(s) + 1
    <2>1. p.predecessor # 0 => Ended(s, p.predecessor, vn)
        BY <1>2 DEF Joinable
    <2> QED BY <1>2, <1>3, <1>4, <2>1, AppendKept
<1>6. (\A i \in DOMAIN s : t[i] = s[i]) /\ t[Len(s) + 1] = p
    <2>1. Book(s)
        BY DEF Kept
    <2>2. PICK S : s \in Seq(S)
        BY <2>1 DEF Book
    <2>3. p \in S \cup {p} /\ s \in Seq(S \cup {p})
        BY <2>2
    <2> QED BY <2>3
<1>7. ~Unsent(p)
    BY <1>2 DEF Unsent
<1> QED BY <1>1, <1>2, <1>5, <1>6, <1>7

-----------------------------------------------------------------------------
(* Replacements.                                                           *)

\* No lot is traded at the venue less than none.
Counted(vn) == \A j \in Order : 0 <= vn[j].cum

\* A cancel is never the only command of an order.
LEMMA CanceledTwice ==
    ASSUME NEW o, Orderly(o), NEW cum, CancelEmitted(o.cmds, cum)
    PROVE  Len(o.cmds) # 1
<1>1. o.cmds \in Seq(Command) /\ \A k \in DOMAIN o.cmds : o.cmds[k].op = "place" <=> k = 1
    BY OrderTyped DEF Orderly, Sane, Commanded
<1>2. PICK k \in DOMAIN o.cmds : o.cmds[k].op = "cancel"
    BY DEF CancelEmitted
<1>3. k # 1
    BY <1>1, <1>2
<1> QED BY <1>1, <1>3

\* A replacement that is due follows the end of its predecessor.
LEMMA DueEnded ==
    ASSUME NEW s, NEW vn, NEW w, Kept(s, vn, w), NEW i \in DOMAIN s,
           Due(s[i]), Evidenced(s[i])
    PROVE  Ended(s, i, vn)
<1>1. Orderly(s[i]) /\ Honest(s[i], vn[i], w[i])
    BY DEF Kept, Believed
<1>2. CancelEmitted(s[i].cmds, s[i].cum) /\ s[i].state = "canceled"
    BY <1>1 DEF Orderly, Due, Evidenced
<1>3. Len(s[i].cmds) # 1
    BY <1>1, <1>2, CanceledTwice
<1>4. vn[i].st = "canceled" /\ vn[i].cum = s[i].cum
    BY <1>1, <1>2, <1>3 DEF Honest
<1> QED BY <1>2, <1>4 DEF Ended

LEMMA DiscardKept ==
    ASSUME NEW s, NEW vn, NEW w, Kept(s, vn, w), NEW i \in DOMAIN s
    PROVE  /\ Kept(Discard(s, i), vn, w) /\ Len(Discard(s, i)) = Len(s)
           /\ DOMAIN Discard(s, i) = DOMAIN s
           /\ \A j \in DOMAIN s : /\ Discard(s, i)[j].group = s[j].group
                                  /\ Discard(s, i)[j].policy = s[j].policy
                                  /\ Discard(s, i)[j].cmds = s[j].cmds
<1> DEFINE p == [s[i] EXCEPT !.repl = NoReplacement]
           t == Put(s, i, p)
<1>1. Orderly(s[i]) /\ Honest(s[i], vn[i], w[i]) /\ s = [j \in DOMAIN s |-> s[j]]
    BY BookDomain DEF Kept, Believed
<1>2. Discard(s, i) = t
    BY DEF Discard, Put
<1>3. Same(s[i], p)
    BY <1>1, MarkedQuiet
<1> HIDE DEF p
<1>4. Faithful(s[i], p, vn[i], w[i])
    BY <1>1, <1>3, FollowsSelf, FaithfulSame
<1>5. Kept(t, vn, w) /\ Len(t) = Len(s)
    BY <1>4, OneKept
<1>6. DOMAIN t = DOMAIN s /\ t[i] = p /\ \A j \in DOMAIN s \ {i} : t[j] = s[j]
    BY <1>1 DEF Put
<1>7. p.group = s[i].group /\ p.policy = s[i].policy /\ p.cmds = s[i].cmds
    BY <1>3 DEF Same, Follows
<1> HIDE DEF t
<1>8. \A j \in DOMAIN s : t[j].group = s[j].group /\ t[j].policy = s[j].policy
                          /\ t[j].cmds = s[j].cmds
    BY <1>6, <1>7
<1> QED BY <1>2, <1>5, <1>6, <1>8

\* What follows a report or a result in the same event.
LEMMA ReplacementsKept ==
    ASSUME NEW s, Kept(s, venue, wire), Counted(venue), NEW i \in DOMAIN s,
           NEW t \in Replacements(s, i), Len(t) <= MaxOrders
    PROVE  Kept(t, venue, wire)
<1>1. CASE t = s
    BY <1>1
<1>2. CASE t = Discard(s, i)
    BY <1>2, DiscardKept
<1>3. CASE t = Replace(s, i) /\ Due(s[i]) /\ MayReplace(s, i)
    <2> DEFINE o == s[i]
               d == Discard(s, i)
    <2>1. /\ Kept(d, venue, wire) /\ Len(d) = Len(s) /\ DOMAIN d = DOMAIN s
          /\ \A j \in DOMAIN s : d[j].group = s[j].group /\ d[j].policy = s[j].policy
                                 /\ d[j].cmds = s[j].cmds
        BY DiscardKept
    <2>2. t = Place(d, o.repl.qty, o.repl.atoms, o.group, o.policy, i)
        BY <1>3 DEF Replace
    <2> HIDE DEF d
    <2>3. Ended(s, i, venue)
        BY <1>3, DueEnded DEF MayReplace
    <2>4. Ended(d, i, venue)
        BY <2>1, <2>3 DEF Ended
    <2>5. /\ Orderly(o) /\ Len(s) \in Nat /\ DOMAIN s = 1 .. Len(s)
          /\ GroupsKept(s)
        BY BookDomain DEF Kept, Believed
    <2>6. /\ o.repl.qty \in Nat \ {0} /\ o.repl.atoms \in Nat
          /\ o.group \in Nat /\ o.policy \in Policies
        <3>1. o.repl # NoReplacement /\ o.repl.qty > 0
            BY <1>3, <2>5 DEF Due, Orderly, Sane
        <3>2. o.repl \in Replacement /\ o.group \in Nat /\ o.policy \in Policies
            BY <2>5, OrderTyped DEF Orderly, OrderRecord
        <3> QED BY <3>1, <3>2 DEF Replacement
    <2>7. i \in Nat /\ i # 0 /\ o.group <= Len(d) + 1
        BY <2>1, <2>5, <2>6 DEF GroupsKept
    <2>8. \A j \in DOMAIN d : d[j].group = o.group => d[j].policy = o.policy
        BY <2>1, <2>5 DEF GroupsKept
    <2> HIDE DEF o
    <2>9. 0 <= venue[Len(d) + 1].cum
        <3>1. Book(d)
            BY <2>1 DEF Kept
        <3>2. Len(t) = Len(d) + 1
            <4>1. PICK S : d \in Seq(S)
                BY <3>1 DEF Book
            <4>2. PICK p : t = Append(d, p)
                BY <2>2 DEF Place
            <4>3. d \in Seq(S \cup {p}) /\ p \in S \cup {p}
                BY <4>1
            <4> QED BY <4>2, <4>3
        <3>3. Len(d) + 1 \in Order
            BY <2>1, <2>5, <3>2, VenueAssumption DEF Order
        <3> QED BY <3>3 DEF Counted
    <2>10. Joinable(d, venue, o.group, o.policy, i)
        BY <2>4, <2>6, <2>7, <2>8, <2>9 DEF Joinable
    <2> QED BY <2>1, <2>2, <2>6, <2>10, PlaceKept
<1> QED BY <1>1, <1>2, <1>3 DEF Replacements

-----------------------------------------------------------------------------
(* Intent groups.                                                          *)

\* The orders while the members of group `G' are applied: those of the group
\* were asked for under its policy and wait to be sent.
Grouping(s, G, policy) ==
    /\ Kept(s, venue, wire) /\ Ids \subseteq DOMAIN s
    /\ G \in Nat /\ G <= Len(s) + 1 /\ policy \in Policies
    /\ \A i \in DOMAIN s : s[i].group = G => s[i].policy = policy /\ ~Unsent(s[i])

\* A member that only touches its target.
LEMMA TargetGrouping ==
    ASSUME NEW s, NEW G, NEW policy, Grouping(s, G, policy),
           NEW i \in DOMAIN s, NEW p, Quiet(s[i], p)
    PROVE  Grouping(Put(s, i, p), G, policy) /\ Len(Put(s, i, p)) = Len(s)
<1> DEFINE t == Put(s, i, p)
<1>1. Kept(s, venue, wire) /\ Orderly(s[i]) /\ Honest(s[i], venue[i], wire[i])
      /\ s = [j \in DOMAIN s |-> s[j]]
    BY BookDomain DEF Grouping, Kept, Believed
<1>2. Kept(t, venue, wire) /\ Len(t) = Len(s)
    BY <1>1, QuietFaithful, OneKept
<1>3. DOMAIN t = DOMAIN s /\ t[i] = p /\ \A j \in DOMAIN s \ {i} : t[j] = s[j]
    BY <1>1 DEF Put
<1>4. p.group = s[i].group /\ p.policy = s[i].policy /\ (Unsent(p) => Unsent(s[i]))
    BY DEF Quiet, Tame, Follows
<1> HIDE DEF t
<1>5. \A j \in DOMAIN t : t[j].group = G => t[j].policy = policy /\ ~Unsent(t[j])
    BY <1>3, <1>4 DEF Grouping
<1>6. Grouping(t, G, policy)
    BY <1>2, <1>3, <1>5 DEF Grouping
<1> QED BY <1>2, <1>6 DEF t

\* applyIntent.
LEMMA IntentGrouping ==
    ASSUME NEW s, NEW G, NEW policy, Grouping(s, G, policy), Counted(venue),
           NEW g \in Intent, Accepts(s, g),
           NEW t, t = ApplyIntent(s, g, G, policy), Len(t) <= MaxOrders
    PROVE  Grouping(t, G, policy)
<1>1. /\ Kept(s, venue, wire) /\ Book(s) /\ Len(s) \in Nat /\ DOMAIN s = 1 .. Len(s)
      /\ Believed(s, venue, wire)
    BY BookDomain DEF Grouping, Kept
<1>2. CASE g.op = "place"
    <2>1. t = Place(s, g.qty, g.atoms, G, policy, 0)
        BY <1>2 DEF ApplyIntent
    <2>2. g.qty \in Nat \ {0} /\ g.atoms \in Nat
        BY <1>2, OmsAssumption DEF Intent
    <2>3. PICK p : t = Append(s, p)
        BY <2>1 DEF Place
    <2>4. Len(s) + 1 \in Order
        <3>1. PICK S : s \in Seq(S)
            BY <1>1 DEF Book
        <3>2. s \in Seq(S \cup {p}) /\ p \in S \cup {p}
            BY <3>1
        <3>3. Len(t) = Len(s) + 1
            BY <2>3, <3>2
        <3> QED BY <1>1, <3>3, VenueAssumption DEF Order
    <2>5. Joinable(s, venue, G, policy, 0)
        BY <2>4 DEF Joinable, Grouping, Counted
    <2>6. /\ Kept(t, venue, wire) /\ Len(t) = Len(s) + 1 /\ \A i \in DOMAIN s : t[i] = s[i]
          /\ ~Unsent(t[Len(s) + 1]) /\ t[Len(s) + 1].policy = policy
        BY <1>1, <2>1, <2>2, <2>5, PlaceKept
    <2>7. DOMAIN t = 1 .. Len(s) + 1
        BY <2>6, BookDomain DEF Kept
    <2>8. \A i \in DOMAIN t : t[i].group = G => t[i].policy = policy /\ ~Unsent(t[i])
        <3> SUFFICES ASSUME NEW i \in DOMAIN t, t[i].group = G
                     PROVE  t[i].policy = policy /\ ~Unsent(t[i])
            OBVIOUS
        <3>1. i \in DOMAIN s \/ i = Len(s) + 1
            BY <1>1, <2>7
        <3> QED BY <2>6, <3>1 DEF Grouping
    <2>9. Ids \subseteq DOMAIN t /\ G <= Len(t) + 1
        BY <1>1, <2>6, <2>7 DEF Grouping
    <2> QED BY <2>6, <2>8, <2>9 DEF Grouping
<1>3. CASE g.op # "place"
    <2> DEFINE o == s[g.target]
    <2>1. /\ g.target \in Ids /\ g.op \in {"amend", "replace", "cancel"}
          /\ g.op # "cancel" => g.qty \in Nat \ {0} /\ g.atoms \in Nat
        BY <1>3, OmsAssumption DEF Intent
    <2>2. g.target \in DOMAIN s
        BY <2>1 DEF Grouping
    <2>3. Orderly(o)
        BY <1>1, <2>2 DEF Believed
    <2>4. CASE g.op = "cancel"
        <3>1. t = Put(s, g.target, Cancel(o))
            BY <2>4 DEF ApplyIntent, Put
        <3>2. Quiet(o, Cancel(o))
            BY <2>3, CancelQuiet
        <3> QED BY <2>2, <3>1, <3>2, TargetGrouping
    <2>5. CASE g.op = "replace"
        <3>1. t = Put(s, g.target, CancelConfirmCreate(o, g.qty, g.atoms))
            BY <2>5 DEF ApplyIntent, Put
        <3>2. Quiet(o, CancelConfirmCreate(o, g.qty, g.atoms))
            BY <2>1, <2>3, <2>5, CancelConfirmCreateQuiet
        <3> QED BY <2>2, <3>1, <3>2, TargetGrouping
    <2>6. CASE g.op = "amend"
        <3>1. t = Put(s, g.target, Amend(o, g.qty, g.atoms))
            BY <2>6 DEF ApplyIntent, Put
        <3>2. o.cqty >= o.cum
            BY <2>6 DEF Accepts
        <3>3. Quiet(o, Amend(o, g.qty, g.atoms))
            BY <2>1, <2>3, <2>6, <3>2, AmendQuiet
        <3> QED BY <2>2, <3>1, <3>3, TargetGrouping
    <2> QED BY <2>1, <2>4, <2>5, <2>6
<1> QED BY <1>2, <1>3

\* What holds before the first of at most four members, and after a member if it
\* does before it, holds after each of them.
LEMMA UpToFour ==
    ASSUME NEW L \in 1 .. 4, NEW S, 0 \in S, \A n \in 1 .. L : n - 1 \in S => n \in S
    PROVE  0 .. L \subseteq S
<1>1. 1 \in S
    BY 1 - 1 = 0, 1 \in 1 .. L
<1>2. L >= 2 => 2 \in S
    BY <1>1, 2 - 1 = 1, L >= 2 => 2 \in 1 .. L
<1>3. L >= 3 => 3 \in S
    BY <1>2, 3 - 1 = 2, L >= 3 => 3 \in 1 .. L
<1>4. L >= 4 => 4 \in S
    BY <1>3, 4 - 1 = 3, L >= 4 => 4 \in 1 .. L
<1> QED BY <1>1, <1>2, <1>3, <1>4

LEMMA UpToFourMembers ==
    ASSUME NEW L \in 1 .. 4, NEW n \in 0 .. L PROVE n \in {0, 1, 2, 3, 4}
OBVIOUS

\* A group has at most four members, and each follows the one before it.
LEMMA MembersInOrder ==
    ASSUME NEW g, Len(g) \in 1 .. 4, NEW policy
    PROVE  LET after == AfterMembers(g, policy) IN
           /\ after[0] = orders
           /\ \A n \in 1 .. Len(g) :
                after[n] = ApplyIntent(after[n - 1], g[n], Len(orders) + 1, policy)
<1> DEFINE G == Len(orders) + 1
           first == ApplyIntent(orders, g[1], G, policy)
           second == ApplyIntent(first, g[2], G, policy)
           third == ApplyIntent(second, g[3], G, policy)
           fourth == ApplyIntent(third, g[4], G, policy)
           Body(a) == [n \in 0 .. Len(g) |->
                         IF n = 0 THEN orders ELSE ApplyIntent(a[n - 1], g[n], G, policy)]
           after == AfterMembers(g, policy)
<1>1. \E a : a = Body(a)
    <2> DEFINE a == [n \in 0 .. Len(g) |->
                       IF n = 0 THEN orders ELSE IF n = 1 THEN first
                       ELSE IF n = 2 THEN second ELSE IF n = 3 THEN third ELSE fourth]
    <2>1. /\ a[0] = orders /\ a[1] = first /\ (Len(g) >= 2 => a[2] = second)
          /\ (Len(g) >= 3 => a[3] = third) /\ (Len(g) >= 4 => a[4] = fourth)
        <3> HIDE DEF first, second, third, fourth
        <3> QED OBVIOUS
    <2>2. ASSUME NEW n \in 0 .. Len(g) PROVE a[n] = Body(a)[n]
        <3>1. CASE n = 0
            BY <3>1
        <3>2. ASSUME n # 0 PROVE Body(a)[n] = ApplyIntent(a[n - 1], g[n], G, policy)
            BY <3>2
        <3> HIDE DEF Body, a
        <3>3. CASE n = 1
            <4>1. n - 1 = 0
                BY <3>3
            <4> QED BY <2>1, <3>2, <3>3, <4>1
        <3>4. CASE n = 2
            <4>1. n - 1 = 1 /\ Len(g) >= 2
                BY <3>4
            <4> HIDE DEF first
            <4> QED BY <2>1, <3>2, <3>4, <4>1
        <3>5. CASE n = 3
            <4>1. n - 1 = 2 /\ Len(g) >= 3
                BY <3>5
            <4>2. Len(g) >= 2
                BY <4>1
            <4> HIDE DEF second
            <4> QED BY <2>1, <3>2, <3>5, <4>1, <4>2
        <3>6. CASE n = 4
            <4>1. n - 1 = 3 /\ Len(g) >= 4
                BY <3>6
            <4>2. Len(g) >= 3
                BY <4>1
            <4> HIDE DEF third
            <4> QED BY <2>1, <3>2, <3>6, <4>1, <4>2
        <3>7. n \in {0, 1, 2, 3, 4}
            BY UpToFourMembers
        <3> QED BY <3>1, <3>3, <3>4, <3>5, <3>6, <3>7
    <2>3. DOMAIN a = 0 .. Len(g) /\ DOMAIN Body(a) = 0 .. Len(g)
          /\ a = [n \in DOMAIN a |-> a[n]] /\ Body(a) = [n \in DOMAIN Body(a) |-> Body(a)[n]]
        OBVIOUS
    <2> HIDE DEF a, Body
    <2>4. a = Body(a)
        BY <2>2, <2>3
    <2> QED BY <2>4
<1>2. after = CHOOSE a : a = Body(a)
    BY DEF AfterMembers
<1>3. after = Body(after)
    <2> HIDE DEF Body, after
    <2> QED BY <1>1, <1>2
<1>4. ASSUME NEW a, a = Body(a)
      PROVE  /\ a[0] = orders
             /\ \A n \in 1 .. Len(g) : a[n] = ApplyIntent(a[n - 1], g[n], G, policy)
    <2>1. Body(a)[0] = orders
        OBVIOUS
    <2>2. \A n \in 1 .. Len(g) : Body(a)[n] = ApplyIntent(a[n - 1], g[n], G, policy)
        OBVIOUS
    <2> HIDE DEF Body
    <2> QED BY <1>4, <2>1, <2>2
<1> HIDE DEF Body
<1> QED BY <1>3, <1>4

\* No intent takes an order away.
LEMMA IntentLonger ==
    ASSUME NEW s, Book(s), NEW g \in Intent, NEW G, NEW policy,
           NEW t, t = ApplyIntent(s, g, G, policy)
    PROVE  Book(t) /\ Len(s) <= Len(t)
<1>1. Len(s) \in Nat /\ DOMAIN s = 1 .. Len(s) /\ s = [i \in DOMAIN s |-> s[i]]
    BY BookDomain
<1>2. CASE g.op = "place"
    <2>1. PICK p : t = Append(s, p)
        BY <1>2 DEF ApplyIntent, Place
    <2>2. PICK S : s \in Seq(S)
        BY DEF Book
    <2>3. s \in Seq(S \cup {p}) /\ p \in S \cup {p}
        BY <2>2
    <2>4. t \in Seq(S \cup {p}) /\ Len(t) = Len(s) + 1
        BY <2>1, <2>3
    <2>5. t \in [1 .. Len(t) -> S \cup {p}]
        BY <2>4
    <2>6. Len(s) + 1 \in Nat /\ DOMAIN t = 1 .. Len(s) + 1 /\ t = [i \in DOMAIN t |-> t[i]]
        BY <1>1, <2>4, <2>5
    <2>7. Book(t)
        BY <2>6, BookOf
    <2> QED BY <1>1, <2>4, <2>7
<1>3. CASE g.op # "place"
    <2>1. \E p : t = [s EXCEPT ![g.target] = p]
        <3>1. g.op \in {"amend", "replace", "cancel"}
            BY <1>3 DEF Intent
        <3>2. CASE g.op = "amend"
            BY <3>2 DEF ApplyIntent
        <3>3. CASE g.op = "replace"
            BY <3>3 DEF ApplyIntent
        <3>4. CASE g.op = "cancel"
            BY <3>4 DEF ApplyIntent
        <3> QED BY <3>1, <3>2, <3>3, <3>4
    <2>2. DOMAIN t = 1 .. Len(s) /\ t = [i \in DOMAIN t |-> t[i]]
        BY <1>1, <2>1
    <2>3. Book(t) /\ Len(t) = Len(s)
        BY <1>1, <2>2, BookOf
    <2> QED BY <1>1, <2>3
<1> QED BY <1>2, <1>3

-----------------------------------------------------------------------------
(* The invariant.                                                          *)

VenueOrder == [st : {"none", "live"} \cup Terminal, rev : Nat, qty : Nat, cum : Nat,
               atoms : Nat, basis : Int]

\* The venue's order `v', with its commands `w' and its reports `rs': nothing is
\* at the venue before the place was taken, and its reports are true of it.
Traded(v, w, rs) ==
    /\ v.cum <= v.qty /\ (v.st = "live" => v.cum < v.qty)
    /\ v.st = "none" => v.cum = 0 /\ rs = {}
    /\ v.st # "none" => w[1] = "taken"
    /\ \A r \in rs : TrueOf(r, v)

\* The answer `q' under way is true of it.
Informed(q, v, w) ==
    q # NoQuery => /\ TrueOf(q, v)
                   /\ q.status = "confirmed_absent" =>
                        v.st = "none" /\ w[1] \notin {"idle", "flying"}

Truthful ==
    /\ venue \in [Order -> VenueOrder] /\ wire \in [Order -> [Slot -> WireState]]
    /\ reports \in [Order -> SUBSET Report] /\ query \in [Order -> Result \cup {NoQuery}]
    /\ \A i \in Order : Traded(venue[i], wire[i], reports[i])
    /\ \A i \in Order : Informed(query[i], venue[i], wire[i])

IInv ==
    /\ Kept(orders, venue, wire) /\ Ids \subseteq Order
    /\ recovery_only \in BOOLEAN /\ capacity_pressure \in BOOLEAN
    /\ Truthful /\ answered \subseteq Order \X Slot

-----------------------------------------------------------------------------
(* The steps of the OMS.                                                   *)

LEMMA CountedVenue == IInv => Counted(venue)
<1> SUFFICES ASSUME IInv, NEW j \in Order PROVE 0 <= venue[j].cum
    BY DEF Counted
<1>1. venue[j] \in VenueOrder
    BY DEF IInv, Truthful
<1> QED BY <1>1 DEF VenueOrder

LEMMA FirstSlot == 1 \in Slot
BY VenueAssumption DEF Slot

\* What the handlers leave to show: the orders they make are kept.
LEMMA OmsKeeps ==
    ASSUME IInv, Kept(orders', venue, wire), Len(orders') <= MaxOrders,
           recovery_only' \in BOOLEAN, capacity_pressure' \in BOOLEAN,
           UNCHANGED <<venue, wire, reports>>, answered' \subseteq Order \X Slot,
           query' = query \/ \E i \in Order : query' = [query EXCEPT ![i] = NoQuery]
    PROVE  IInv'
<1>1. Kept(orders', venue', wire')
    BY Zenon
<1>2. Ids' \subseteq Order
    <2>1. PICK t : t = orders'
        OBVIOUS
    <2>2. Book(t)
        BY <2>1 DEF Kept
    <2>3. Len(t) \in Nat /\ DOMAIN t = 1 .. Len(t)
        BY <2>2, BookDomain
    <2> QED BY <2>1, <2>3, VenueAssumption DEF Ids, Order
<1>3. Truthful'
    <2>1. CASE query' = query
        BY <2>1 DEF IInv, Truthful
    <2>2. ASSUME NEW i \in Order, query' = [query EXCEPT ![i] = NoQuery] PROVE Truthful'
        <3>1. query' \in [Order -> Result \cup {NoQuery}]
            BY <2>2 DEF IInv, Truthful
        <3>2. \A j \in Order : query'[j] = query[j] \/ query'[j] = NoQuery
            BY <2>2 DEF IInv, Truthful
        <3>3. \A j \in Order : Informed(query'[j], venue[j], wire[j])
            BY <3>2 DEF IInv, Truthful, Informed
        <3> QED BY <3>1, <3>3 DEF IInv, Truthful
    <2> QED BY <2>1, <2>2
<1> QED BY <1>1, <1>2, <1>3 DEF IInv

\* applyGroupInPlace.
LEMMA GroupMembers ==
    ASSUME IInv, NEW p \in Policies, NEW g \in Groups, ApplyGroup(g, p), Len(orders') <= MaxOrders
    PROVE  LET G == Len(orders) + 1
               L == Len(g)
           IN /\ L \in 1 .. 4 /\ DOMAIN g = 1 .. L /\ \A n \in 1 .. L : g[n] \in Intent
              /\ \E after : /\ after[0] = orders /\ orders' = after[L]
                            /\ \A n \in 0 .. L : Grouping(after[n], G, p)
                            /\ \A n \in 1 .. L : after[n] = ApplyIntent(after[n - 1], g[n], G, p)
<1> DEFINE after == AfterMembers(g, p)
           G == Len(orders) + 1
           L == Len(g)
<1>1. L \in 1 .. 4 /\ DOMAIN g = 1 .. L /\ \A n \in 1 .. L : g[n] \in Intent
    <2>1. PICK n \in 1 .. MaxGroup : g \in [1 .. n -> Intent]
        BY DEF Groups
    <2>2. n \in 1 .. 4
        BY OmsAssumption
    <2>3. g \in Seq(Intent) /\ Len(g) = n
        BY <2>1, <2>2
    <2> QED BY <2>1, <2>2, <2>3
<1>2. /\ after[0] = orders
      /\ \A n \in 1 .. L : after[n] = ApplyIntent(after[n - 1], g[n], G, p)
    BY <1>1, MembersInOrder
<1>3. /\ \A n \in 1 .. L : Accepts(after[n - 1], g[n])
      /\ orders' = after[L]
    BY <1>1 DEF ApplyGroup
<1> HIDE DEF after, L
<1>4. Counted(venue) /\ Kept(orders, venue, wire) /\ Len(orders) \in Nat
      /\ DOMAIN orders = 1 .. Len(orders) /\ GroupsKept(orders)
    BY CountedVenue, BookDomain DEF IInv, Kept
<1>5. Grouping(orders, G, p)
    <2>1. \A i \in DOMAIN orders : orders[i].group # G
        <3>1. \A i \in DOMAIN orders : orders[i].group <= i /\ i < G /\ i \in Nat
            BY <1>4 DEF GroupsKept
        <3>2. \A i \in DOMAIN orders : orders[i].group \in Nat
            BY <1>4, OrderTyped DEF Kept, Believed, Orderly, OrderRecord
        <3> QED BY <1>4, <3>1, <3>2
    <2> QED BY <1>4, <2>1 DEF Grouping, Ids
<1>6. \A n \in 0 .. L : Book(after[n])
    <2> DEFINE S == {n \in 0 .. L : Book(after[n])}
    <2>1. 0 \in S
        BY <1>1, <1>2, <1>4 DEF Kept
    <2>2. ASSUME NEW n \in 1 .. L, n - 1 \in S PROVE n \in S
        <3>1. Book(after[n - 1]) /\ g[n] \in Intent
            BY <1>1, <2>2
        <3>2. Book(after[n])
            BY <1>2, <3>1, IntentLonger
        <3> QED BY <1>1, <3>2
    <2> HIDE DEF S
    <2>3. 0 .. L \subseteq S
        BY <1>1, <2>1, <2>2, UpToFour
    <2> QED BY <2>3 DEF S
<1>7. \A n \in 1 .. L : Len(after[n - 1]) <= Len(after[n])
    <2> SUFFICES ASSUME NEW n \in 1 .. L PROVE Len(after[n - 1]) <= Len(after[n])
        OBVIOUS
    <2>1. n - 1 \in 0 .. L
        BY <1>1
    <2> QED BY <1>1, <1>2, <1>6, <2>1, IntentLonger
<1>8. \A n \in 0 .. L : Len(after[n]) \in Nat /\ Len(after[n]) <= MaxOrders
    <2>1. \A n \in 0 .. L : Len(after[n]) \in Nat
        BY <1>6, BookDomain
    <2> DEFINE S == {n \in 0 .. L : Len(after[L - n]) <= MaxOrders}
    <2>2. 0 \in S
        BY <1>1, <1>3
    <2>3. ASSUME NEW n \in 1 .. L, n - 1 \in S PROVE n \in S
        <3>1. /\ Len(after[L - (n - 1)]) <= MaxOrders /\ L - (n - 1) \in 1 .. L
              /\ L - (n - 1) - 1 = L - n /\ L - n \in 0 .. L /\ n \in 0 .. L
            BY <1>1, <2>3
        <3>2. Len(after[L - n]) <= Len(after[L - (n - 1)])
            BY <1>7, <3>1
        <3>3. Len(after[L - n]) \in Nat /\ Len(after[L - (n - 1)]) \in Nat
            BY <1>1, <2>1, <3>1
        <3>4. ASSUME NEW a \in Nat, NEW b \in Nat, a <= b, b <= MaxOrders PROVE a <= MaxOrders
            BY <3>4, VenueAssumption
        <3>5. Len(after[L - n]) <= MaxOrders
            BY <3>1, <3>2, <3>3, <3>4
        <3> QED BY <3>1, <3>5
    <2> HIDE DEF S
    <2>4. 0 .. L \subseteq S
        BY <1>1, <2>2, <2>3, UpToFour
    <2>5. \A n \in 0 .. L : L - n \in 0 .. L /\ L - (L - n) = n
        BY <1>1
    <2>6. ASSUME NEW n \in 0 .. L PROVE Len(after[n]) <= MaxOrders
        <3>1. L - n \in S
            BY <2>4, <2>5
        <3> QED BY <2>5, <3>1 DEF S
    <2> QED BY <2>1, <2>6
<1>9. \A n \in 0 .. L : Grouping(after[n], G, p)
    <2> DEFINE S == {n \in 0 .. L : Grouping(after[n], G, p)}
    <2>1. 0 \in S
        BY <1>1, <1>2, <1>5
    <2>2. ASSUME NEW n \in 1 .. L, n - 1 \in S PROVE n \in S
        <3>1. /\ Grouping(after[n - 1], G, p) /\ g[n] \in Intent /\ Accepts(after[n - 1], g[n])
              /\ after[n] = ApplyIntent(after[n - 1], g[n], G, p)
            BY <1>1, <1>2, <1>3, <2>2
        <3>2. n \in 0 .. L
            BY <1>1
        <3>3. Grouping(after[n], G, p)
            BY <1>4, <1>8, <3>1, <3>2, IntentGrouping
        <3> QED BY <3>2, <3>3
    <2> HIDE DEF S
    <2>3. 0 .. L \subseteq S
        BY <1>1, <2>1, <2>2, UpToFour
    <2> QED BY <2>3 DEF S
<1> QED BY <1>1, <1>2, <1>3, <1>9 DEF L

LEMMA GroupKept ==
    ASSUME IInv, NEW p \in Policies, NEW g \in Groups, ApplyGroup(g, p), Len(orders') <= MaxOrders
    PROVE  Kept(orders', venue, wire)
<1>1. PICK t : t = orders'
    OBVIOUS
<1>2. Grouping(t, Len(orders) + 1, p)
    <2>1. PICK after : /\ t = after[Len(g)] /\ Len(g) \in 0 .. Len(g)
                       /\ \A n \in 0 .. Len(g) : Grouping(after[n], Len(orders) + 1, p)
        BY <1>1, GroupMembers
    <2> QED BY <2>1
<1> QED BY <1>1, <1>2 DEF Grouping

\* What a handler makes of the variables of the OMS.
Handled ==
    Kept(orders', venue, wire) /\ recovery_only' \in BOOLEAN /\ capacity_pressure' \in BOOLEAN

LEMMA PressedTyped == ASSUME NEW s PROVE Pressed(s) \in BOOLEAN
BY DEF Pressed

LEMMA SettleHandled ==
    ASSUME IInv, NEW s, Kept(s, venue, wire), NEW i \in DOMAIN s, Settle(s, i),
           Len(orders') <= MaxOrders
    PROVE  Handled
<1>1. PICK t : t = orders'
    OBVIOUS
<1>2. Kept(t, venue, wire)
    <2>1. t \in Replacements(s, i) /\ Len(t) <= MaxOrders
        BY <1>1 DEF Settle
    <2> QED BY <2>1, CountedVenue, ReplacementsKept
<1>3. capacity_pressure' \in BOOLEAN /\ recovery_only' \in BOOLEAN
    BY PressedTyped DEF Settle, IInv
<1> QED BY <1>1, <1>2, <1>3 DEF Handled

\* A conflicting input.
LEMMA BreakHandled == ASSUME IInv, Break PROVE Handled
<1>1. Kept(GateCloses(orders), venue, wire)
    BY GateClosesKept DEF IInv
<1>2. PICK t : t = orders'
    OBVIOUS
<1>3. Kept(t, venue, wire)
    BY <1>1, <1>2 DEF Break
<1>4. capacity_pressure' \in BOOLEAN /\ recovery_only' \in BOOLEAN
    BY DEF Break, IInv
<1> QED BY <1>2, <1>3, <1>4 DEF Handled

\* applyReport.
LEMMA ReportHandled ==
    ASSUME IInv, NEW i \in Ids, NEW r \in reports[i], ApplyReport(i, r), Len(orders') <= MaxOrders
    PROVE  Handled
<1>1. CASE Conflicts(orders[i], r)
    BY <1>1, BreakHandled DEF ApplyReport
<1>2. CASE ~Conflicts(orders[i], r)
    <2> DEFINE p == AfterReport(orders[i], r)
               s == Put(orders, i, p)
    <2>1. i \in Order /\ Kept(orders, venue, wire) /\ i \in DOMAIN orders
        BY DEF IInv, Ids
    <2>2. Orderly(orders[i]) /\ Honest(orders[i], venue[i], wire[i])
        BY <2>1 DEF Kept, Believed
    <2>3. r \in Report /\ TrueOf(r, venue[i])
        BY <2>1 DEF IInv, Truthful, Traded
    <2>4. Faithful(orders[i], p, venue[i], wire[i])
        BY <1>2, <2>2, <2>3, AfterReportFaithful
    <2>5. Settle(s, i)
        BY <1>2 DEF ApplyReport, Put
    <2> HIDE DEF p
    <2>6. Kept(s, venue, wire)
        BY <2>1, <2>4, OneKept
    <2>7. i \in DOMAIN s
        BY <2>1 DEF Put
    <2> HIDE DEF s
    <2> QED BY <2>5, <2>6, <2>7, SettleHandled
<1> QED BY <1>1, <1>2

\* The order after the result, and whatever the gate and the replacement make of it.
LEMMA ResolveHandled ==
    ASSUME IInv, NEW i \in Ids, NEW o, NEW r,
           Faithful(orders[i], Remembered(o, r), venue[i], wire[i]),
           Resolve(i, o, r), Len(orders') <= MaxOrders
    PROVE  Handled
<1> DEFINE p == Remembered(o, r)
           s == Put(orders, i, p)
           u == IF r.status = "unresolved" THEN GateCloses(s) ELSE s
<1>1. Kept(orders, venue, wire) /\ i \in DOMAIN orders
    BY DEF IInv, Ids
<1>2. Settle(u, i)
    BY DEF Resolve, Put
<1> HIDE DEF p
<1>3. Kept(s, venue, wire) /\ Len(s) = Len(orders)
    BY <1>1, OneKept DEF p
<1>4. DOMAIN s = DOMAIN orders
    BY DEF Put
<1> HIDE DEF s
<1>5. Kept(GateCloses(s), venue, wire)
    BY <1>3, GateClosesKept
<1>6. DOMAIN GateCloses(s) = DOMAIN s
    BY DEF GateCloses, CancelOpen
<1>7. Kept(u, venue, wire) /\ i \in DOMAIN u
    BY <1>1, <1>3, <1>4, <1>5, <1>6
<1> HIDE DEF u
<1> QED BY <1>2, <1>7, SettleHandled

\* The answer the shard goes by: the venue's, or that nothing is known.
Going(o, r, v, w) ==
    /\ r.status \in ResultStatus /\ r.rev \in Nat /\ r.cum \in Nat /\ r.rem \in Nat
    /\ r.status # "unresolved" => TrueOf(r, v)
    /\ r.status = "confirmed_absent" =>
         v.st = "none" /\ w[1] \notin {"idle", "flying"} /\ Len(o.cmds) = 1

LEMMA PlausibleGoing ==
    ASSUME NEW o, Orderly(o), NEW v, NEW w, NEW q \in Result, Informed(q, v, w), q # NoQuery,
           ~Inadmissible(o, Plausible(o, q))
    PROVE  Going(o, Plausible(o, q), v, w)
<1>1. o.rev \in Nat /\ o.cum \in Nat /\ o.qty \in Nat
    BY OrderTyped DEF Orderly, OrderRecord
<1>2. CASE Implausible(o, q)
    <2> DEFINE r == [status |-> "unresolved", rev |-> o.rev, cum |-> o.cum, rem |-> o.qty - o.cum]
    <2>1. Plausible(o, q) = r
        BY <1>2 DEF Plausible
    <2>2. ~(r.rem < 0)
        BY <2>1 DEF Inadmissible
    <2>3. r.rem \in Nat
        BY <1>1, <2>2
    <2>4. Going(o, r, v, w)
        BY <1>1, <2>3 DEF Going, ResultStatus
    <2> QED BY <2>1, <2>4
<1>3. CASE ~Implausible(o, q)
    <2>1. Plausible(o, q) = q
        BY <1>3 DEF Plausible
    <2>2. q.status \in ResultStatus /\ q.rev \in Nat /\ q.cum \in Nat /\ q.rem \in Nat
        BY DEF Result, ResultStatus
    <2>3. ASSUME q.status = "confirmed_absent" PROVE Len(o.cmds) = 1
        <3>1. LastCommand(o).op = "place"
            BY <1>3, <2>3 DEF Implausible, CanConfirmAbsent
        <3>2. /\ o.cmds \in Seq(Command) /\ Len(o.cmds) > 0
              /\ \A k \in DOMAIN o.cmds : o.cmds[k].op = "place" <=> k = 1
            BY OrderTyped DEF Orderly, Sane, Commanded
        <3>3. Len(o.cmds) \in DOMAIN o.cmds
            BY <3>2
        <3>4. o.cmds[Len(o.cmds)].op = "place"
            BY <3>1 DEF LastCommand
        <3> QED BY <3>2, <3>3, <3>4
    <2> QED BY <2>1, <2>2, <2>3 DEF Going, Informed
<1> QED BY <1>2, <1>3

\* applyReconciliation, and a late result.
LEMMA ReconciliationHandled ==
    ASSUME IInv, NEW i \in Ids, NEW q \in Result, q # NoQuery, Informed(q, venue[i], wire[i]),
           ApplyReconciliation(i, q) \/ ApplyLateReconciliation(i, q), Len(orders') <= MaxOrders
    PROVE  Handled
<1> DEFINE o == orders[i]
           r == Plausible(o, q)
<1>1. Orderly(o) /\ Honest(o, venue[i], wire[i])
    BY DEF IInv, Kept, Believed, Ids
<1>2. ~Inadmissible(o, r)
    BY DEF ApplyReconciliation, ApplyLateReconciliation
<1>3. Going(o, r, venue[i], wire[i])
    BY <1>1, <1>2, PlausibleGoing
<1>4. Break \/ Resolve(i, AfterResult(o, r), r) \/ Resolve(i, o, r)
    BY DEF ApplyReconciliation, ApplyLateReconciliation
<1> HIDE DEF r
<1>5. CASE Break
    BY <1>5, BreakHandled
<1>6. CASE Resolve(i, AfterResult(o, r), r)
    <2>1. Faithful(o, Remembered(AfterResult(o, r), r), venue[i], wire[i])
        <3> HIDE DEF o
        <3>1. PICK p : p = AfterResult(o, r)
            OBVIOUS
        <3>2. /\ Follows(o, p) /\ Honest(p, venue[i], wire[i])
              /\ r.status = "unresolved" => (Unsent(p) => Unsent(o))
            BY <1>1, <1>2, <1>3, <3>1, AfterResultHonest DEF Going
        <3>3. Faithful(o, Remembered(p, r), venue[i], wire[i])
            BY <3>2, ResolvedFaithful
        <3> QED BY <3>1, <3>3
    <2> QED BY <1>6, <2>1, ResolveHandled
<1>7. CASE Resolve(i, o, r)
    <2>1. Faithful(o, Remembered(o, r), venue[i], wire[i])
        BY <1>1, RememberedFaithful
    <2> QED BY <1>7, <2>1, ResolveHandled
<1> QED BY <1>4, <1>5, <1>6, <1>7

\* An incomplete answer says nothing that is not so.
LEMMA UnresolvedInformed ==
    ASSUME NEW q \in Result, NEW v, NEW w, q # NoQuery, Informed(q, v, w),
           NEW u, u = [q EXCEPT !.status = "unresolved"]
    PROVE  u \in Result /\ u # NoQuery /\ Informed(u, v, w)
<1>1. u \in Result /\ u.status = "unresolved" /\ u.cum = q.cum
    BY DEF Result
<1>2. u # NoQuery
    BY <1>1 DEF NoQuery
<1>3. TrueOf(u, v)
    BY <1>1 DEF Informed, TrueOf, Terminal
<1> QED BY <1>1, <1>2, <1>3 DEF Informed

LEMMA OmsStep == ASSUME IInv, OmsNext PROVE IInv'
<1>0. /\ Kept(orders, venue, wire) /\ recovery_only \in BOOLEAN /\ capacity_pressure \in BOOLEAN
      /\ answered \subseteq Order \X Slot /\ Ids \subseteq Order /\ Len(orders) <= MaxOrders
    <2>1. Len(orders) \in Nat /\ DOMAIN orders = 1 .. Len(orders)
        BY BookDomain DEF IInv, Kept
    <2>2. Len(orders) = 0 \/ Len(orders) \in Order
        BY <2>1 DEF IInv, Ids
    <2> QED BY <2>1, <2>2, VenueAssumption DEF IInv, Order
<1>1. ASSUME NEW p \in Policies, NEW g \in Groups, SubmitGroup(g, p)
      PROVE  IInv'
    <2>1. Len(orders') <= MaxOrders /\ ApplyGroup(g, p)
          /\ UNCHANGED <<venue, wire, answered, reports, query>>
        BY <1>1 DEF SubmitGroup, Bounded, venueVars
    <2>2. Kept(orders', venue, wire)
        BY <2>1, GroupKept
    <2>3. recovery_only' \in BOOLEAN /\ capacity_pressure' \in BOOLEAN
        BY <1>0, <2>1 DEF ApplyGroup
    <2> QED BY <1>0, <2>1, <2>2, <2>3, OmsKeeps
<1>2. ASSUME SafetyCancel PROVE IInv'
    <2>1. PICK scope \in SUBSET Ids : CancelOpenOrders(scope)
        BY <1>2 DEF SafetyCancel
    <2>2. /\ orders' = CancelOpen(orders, scope) /\ Len(orders') <= MaxOrders
          /\ recovery_only' = recovery_only /\ capacity_pressure' = capacity_pressure
          /\ UNCHANGED <<venue, wire, answered, reports, query>>
        BY <1>2, <2>1 DEF SafetyCancel, CancelOpenOrders, Bounded, venueVars
    <2>3. Kept(orders', venue, wire)
        BY <1>0, <2>2, CancelOpenKept
    <2> QED BY <1>0, <2>2, <2>3, OmsKeeps
<1>3. ASSUME NEW c \in Emitted, DispatchResult(c[1], c[2]) PROVE IInv'
    <2> DEFINE i == c[1]
               k == c[2]
    <2>0. i \in Ids /\ i \in Order /\ k \in Slot /\ k \in DOMAIN orders[i].cmds
        BY DEF Emitted
    <2>1. PICK result \in ResultOf(wire[i][k]) : ApplyDispatch(i, Cmd(i, k), result)
        BY <1>3 DEF DispatchResult
    <2>2. result \in DispatchState
        <3>1. PICK at : at = wire[i][k]
            OBVIOUS
        <3>2. ResultOf(at) \subseteq DispatchState
            BY DEF ResultOf, DispatchState
        <3> QED BY <2>1, <3>1, <3>2
    <2>3. Cmd(i, k).op \in {"place", "amend", "cancel"}
        <3>1. orders[i].cmds \in Seq(Command)
            BY <1>0, <2>0, OrderTyped DEF Kept, Believed, Orderly, Ids
        <3>2. PICK cmds : cmds = orders[i].cmds
            OBVIOUS
        <3>3. cmds[k] \in Command
            BY <2>0, <3>1, <3>2
        <3>4. Cmd(i, k) = cmds[k]
            BY <3>2 DEF Cmd
        <3> QED BY <3>3, <3>4 DEF Command
    <2>4. orders' = Dispatched(i, Cmd(i, k), result)
        BY <2>1 DEF ApplyDispatch
    <2>5. Kept(orders', venue, wire)
        BY <1>0, <2>0, <2>2, <2>3, <2>4, DispatchedKept
    <2>6. recovery_only' \in BOOLEAN /\ capacity_pressure' \in BOOLEAN
        <3>1. PICK t : t = orders'
            OBVIOUS
        <3>2. capacity_pressure' = Pressed(t) /\ recovery_only' = recovery_only
            BY <2>1, <3>1 DEF ApplyDispatch, Pressed
        <3> QED BY <1>0, <3>2, PressedTyped
    <2>7. /\ Len(orders') <= MaxOrders /\ answered' = answered \cup {<<i, k>>}
          /\ UNCHANGED <<venue, wire, reports, query>>
        BY <1>3 DEF DispatchResult, Bounded
    <2>8. answered' \subseteq Order \X Slot
        BY <1>0, <2>0, <2>7
    <2> QED BY <2>5, <2>6, <2>7, <2>8, OmsKeeps
<1>4. ASSUME NEW i \in Ids, NEW r \in reports[i], ExecutionReport(i, r) PROVE IInv'
    <2>1. ApplyReport(i, r) /\ Len(orders') <= MaxOrders
          /\ UNCHANGED <<venue, wire, answered, reports, query>>
        BY <1>4 DEF ExecutionReport, Bounded, venueVars
    <2>2. Handled
        BY <2>1, ReportHandled
    <2> QED BY <1>0, <2>1, <2>2, OmsKeeps DEF Handled
<1>5. ASSUME NEW i \in Ids, Answer(i) PROVE IInv'
    <2>1. /\ query[i] # NoQuery /\ Len(orders') <= MaxOrders
          /\ query' = [query EXCEPT ![i] = NoQuery] /\ UNCHANGED <<venue, wire, answered, reports>>
        BY <1>5 DEF Answer, Bounded
    <2>2. PICK q : q = query[i]
        OBVIOUS
    <2>3. i \in Order /\ q \in Result /\ q # NoQuery /\ Informed(q, venue[i], wire[i])
        BY <1>0, <2>1, <2>2 DEF IInv, Truthful
    <2>4. PICK u : u = [q EXCEPT !.status = "unresolved"]
        OBVIOUS
    <2>5. u \in Result /\ u # NoQuery /\ Informed(u, venue[i], wire[i])
        BY <2>3, <2>4, UnresolvedInformed
    <2>6. \/ ApplyReconciliation(i, q) \/ ApplyReconciliation(i, u)
          \/ ApplyLateReconciliation(i, q)
        BY <1>5, <2>2, <2>4 DEF Answer
    <2>7. Handled
        BY <2>1, <2>3, <2>5, <2>6, ReconciliationHandled
    <2> QED BY <1>0, <2>1, <2>3, <2>7, OmsKeeps DEF Handled
<1>6. ASSUME NEW i \in Ids, AnswerRefused(i) PROVE IInv'
    <2>1. /\ UNCHANGED <<orders, recovery_only, capacity_pressure, venue, wire, answered, reports>>
          /\ query' = [query EXCEPT ![i] = NoQuery]
        BY <1>6 DEF AnswerRefused, omsVars
    <2>2. Kept(orders', venue, wire) /\ i \in Order
        BY <1>0, <2>1
    <2> QED BY <1>0, <2>1, <2>2, OmsKeeps
<1> QED BY <1>1, <1>2, <1>3, <1>4, <1>5, <1>6 DEF OmsNext

-----------------------------------------------------------------------------
(* The steps of the venue.                                                 *)

LEMMA VenueKept ==
    ASSUME NEW s, NEW vn, NEW w, Kept(s, vn, w), NEW vn2, NEW w2,
           \A i \in DOMAIN s : Honest(s[i], vn2[i], w2[i]),
           \A i \in DOMAIN s : vn[i].st = "canceled" => vn2[i] = vn[i]
    PROVE  Kept(s, vn2, w2)
BY DEF Kept, Believed, Succession, Ended

\* Whether the place of an order is taken or refused is settled once.
Onward(w, w2) == w[1] \notin {"idle", "flying"} => w2[1] = w[1]

LEMMA WireMoved ==
    ASSUME IInv, NEW c \in Emitted, NEW at \in WireState, Moves(c[1], c[2], at),
           wire[c[1]][c[2]] \in {"idle", "flying"}
    PROVE  /\ wire' \in [Order -> [Slot -> WireState]]
           /\ \A j \in Order : Onward(wire[j], wire'[j])
           /\ \A j \in Order \ {c[1]} : wire'[j] = wire[j]
           /\ wire'[c[1]][1] = IF c[2] = 1 THEN at ELSE wire[c[1]][1]
<1> DEFINE i == c[1]
           k == c[2]
<1>1. i \in Order /\ k \in Slot /\ 1 \in Slot
    BY FirstSlot DEF Emitted
<1>2. wire \in [Order -> [Slot -> WireState]]
    BY DEF IInv, Truthful
<1>3. wire' = [wire EXCEPT ![i][k] = at]
    BY DEF Moves
<1> HIDE DEF i, k
<1>4. wire' \in [Order -> [Slot -> WireState]]
    BY <1>1, <1>2, <1>3
<1>5. \A j \in Order \ {i} : wire'[j] = wire[j]
    BY <1>1, <1>2, <1>3
<1>6. wire'[i] = [wire[i] EXCEPT ![k] = at]
    BY <1>1, <1>2, <1>3
<1>7. wire'[i][1] = IF k = 1 THEN at ELSE wire[i][1]
    BY <1>1, <1>2, <1>6
<1>8. k = 1 => wire[i][1] \in {"idle", "flying"}
    BY DEF i, k
<1>9. ASSUME NEW j \in Order PROVE Onward(wire[j], wire'[j])
    BY <1>5, <1>7, <1>8 DEF Onward
<1> QED BY <1>4, <1>5, <1>7, <1>9 DEF i, k

\* A command sets out or is refused.
LEMMA WireKeeps ==
    ASSUME IInv, UNCHANGED <<omsVars, venue, answered, reports, query>>,
           wire' \in [Order -> [Slot -> WireState]],
           \A j \in Order : Onward(wire[j], wire'[j])
    PROVE  IInv'
<1>1. \A j \in Ids : Honest(orders[j], venue[j], wire'[j])
    <2> SUFFICES ASSUME NEW j \in Ids PROVE Honest(orders[j], venue[j], wire'[j])
        OBVIOUS
    <2>1. Honest(orders[j], venue[j], wire[j]) /\ Onward(wire[j], wire'[j])
        BY DEF IInv, Kept, Believed, Ids
    <2> QED BY <2>1 DEF Honest, Onward
<1>2. PICK w : w = wire'
    OBVIOUS
<1>3. Kept(orders, venue, w)
    BY <1>1, <1>2, VenueKept DEF IInv, Ids
<1>4. Truthful'
    <2>1. \A j \in Order : Traded(venue[j], wire'[j], reports[j])
        BY DEF IInv, Truthful, Traded, Onward
    <2>2. \A j \in Order : Informed(query[j], venue[j], wire'[j])
        BY DEF IInv, Truthful, Informed, Onward
    <2> QED BY <2>1, <2>2 DEF IInv, Truthful
<1>5. Kept(orders', venue', wire')
    BY <1>2, <1>3, Zenon DEF omsVars
<1> QED BY <1>4, <1>5 DEF IInv, omsVars, Ids

\* The order `i' changes at the venue, which reports it.
Advances(i, status, v) ==
    /\ Make(i, status, v) /\ v \in VenueOrder /\ status \in ReportStatus
    /\ v.cum <= v.qty /\ v.st # "none" /\ (v.st = "live" => v.cum < v.qty)
    /\ status \in Terminal => v.st = status
    /\ venue[i].st \in {"none", "live"} /\ venue[i].cum <= v.cum
    /\ venue[i].st = "none" => wire[i][1] = "flying"

LEMMA MakeKeeps ==
    ASSUME IInv, NEW i \in Order, NEW status, NEW v, Advances(i, status, v),
           wire' \in [Order -> [Slot -> WireState]], wire'[i][1] = "taken",
           \A j \in Order \ {i} : wire'[j] = wire[j],
           UNCHANGED <<omsVars, answered, query>>
    PROVE  IInv'
<1>1. /\ venue \in [Order -> VenueOrder] /\ reports \in [Order -> SUBSET Report]
      /\ \A j \in Order : Traded(venue[j], wire[j], reports[j])
      /\ \A j \in Order : Informed(query[j], venue[j], wire[j])
      /\ query \in [Order -> Result \cup {NoQuery}]
    BY DEF IInv, Truthful
<1>2. /\ venue' \in [Order -> VenueOrder] /\ venue'[i] = v
      /\ \A j \in Order \ {i} : venue'[j] = venue[j]
    BY <1>1 DEF Advances, Make
<1>3. Told(v, status) \in Report /\ Told(v, status).cum = v.cum
      /\ Told(v, status).status = status
    <2>1. v.rev \in Nat /\ v.cum \in Nat /\ v.qty \in Nat /\ v.qty - v.cum \in Nat
        BY DEF Advances, VenueOrder
    <2> QED BY <2>1 DEF Told, Report, Remaining, Advances
<1>4. /\ reports' \in [Order -> SUBSET Report] /\ reports'[i] = reports[i] \cup {Told(v, status)}
      /\ \A j \in Order \ {i} : reports'[j] = reports[j]
    BY <1>1, <1>3 DEF Advances, Make
<1>5. venue[i].cum \in Nat /\ v.cum \in Nat
    BY <1>1 DEF Advances, VenueOrder
<1>6. ASSUME NEW r, r.cum \in Nat, TrueOf(r, venue[i]) PROVE TrueOf(r, v)
    BY <1>5, <1>6 DEF TrueOf, Advances, Terminal
<1>7. Traded(v, wire'[i], reports'[i])
    <2>1. \A r \in reports[i] : r.cum \in Nat /\ TrueOf(r, venue[i])
        BY <1>1 DEF Traded, Report
    <2>2. TrueOf(Told(v, status), v)
        BY <1>3, <1>5 DEF TrueOf, Advances
    <2>3. \A r \in reports'[i] : TrueOf(r, v)
        BY <1>4, <1>6, <2>1, <2>2
    <2> QED BY <2>3 DEF Traded, Advances
<1>8. Informed(query[i], v, wire'[i])
    <2> SUFFICES ASSUME query[i] # NoQuery PROVE Informed(query[i], v, wire'[i])
        BY DEF Informed
    <2>1. query[i] \in Result /\ Informed(query[i], venue[i], wire[i])
        BY <1>1
    <2>2. query[i].cum \in Nat /\ TrueOf(query[i], venue[i])
        BY <2>1 DEF Result, Informed
    <2>3. TrueOf(query[i], v)
        BY <1>6, <2>2
    <2>4. query[i].status # "confirmed_absent"
        BY <2>1 DEF Informed, Advances
    <2> QED BY <2>3, <2>4 DEF Informed
<1>9. Truthful'
    <2>1. \A j \in Order : Traded(venue'[j], wire'[j], reports'[j])
        BY <1>1, <1>2, <1>4, <1>7
    <2>2. \A j \in Order : Informed(query[j], venue'[j], wire'[j])
        BY <1>1, <1>2, <1>8
    <2> QED BY <1>1, <1>2, <1>4, <2>1, <2>2 DEF Truthful
<1>10. \A j \in Ids : Honest(orders[j], venue'[j], wire'[j])
    <2> SUFFICES ASSUME NEW j \in Ids PROVE Honest(orders[j], venue'[j], wire'[j])
        OBVIOUS
    <2>1. Orderly(orders[j]) /\ Honest(orders[j], venue[j], wire[j]) /\ j \in Order
        BY DEF IInv, Kept, Believed, Ids
    <2>2. CASE j # i
        BY <1>2, <2>1, <2>2
    <2>3. CASE j = i
        <3>1. orders[i].cum \in Nat
            BY <2>1, <2>3, OrderTyped DEF Orderly, OrderRecord
        <3>2. orders[i].state \notin {"filled", "canceled"}
            BY <2>1, <2>3 DEF Honest, Advances
        <3>3. orders[i].cum <= v.cum
            BY <1>5, <2>1, <2>3, <3>1 DEF Honest, Advances
        <3> QED BY <1>2, <2>3, <3>2, <3>3 DEF Honest
    <2> QED BY <2>2, <2>3
<1>11. \A j \in Ids : venue[j].st = "canceled" => venue'[j] = venue[j]
    BY <1>2 DEF IInv, Advances
<1>12. PICK w : w = wire'
    OBVIOUS
<1>13. PICK vn : vn = venue'
    OBVIOUS
<1>14. Kept(orders, vn, w)
    BY <1>10, <1>11, <1>12, <1>13, VenueKept DEF IInv, Ids
<1>15. Kept(orders', venue', wire')
    BY <1>12, <1>13, <1>14, Zenon DEF omsVars
<1> QED BY <1>9, <1>15 DEF IInv, omsVars, Ids

\* The commands an order has are commands, the place its first.
LEMMA CommandTyped ==
    ASSUME IInv, NEW c \in Emitted
    PROVE  /\ c[1] \in Order /\ c[1] \in Ids /\ c[2] \in Slot
           /\ Cmd(c[1], c[2]) \in Command
           /\ Cmd(c[1], c[2]).op = "place" => c[2] = 1 /\ Cmd(c[1], c[2]).total > 0
<1>1. /\ c[1] \in Order /\ c[1] \in Ids /\ c[2] \in Slot /\ c[2] \in DOMAIN orders[c[1]].cmds
    BY DEF Emitted
<1>2. PICK o : o = orders[c[1]]
    OBVIOUS
<1>3. Orderly(o)
    BY <1>1, <1>2 DEF IInv, Kept, Believed, Ids
<1>4. /\ o.cmds \in Seq(Command) /\ o.cmds[1].total > 0
      /\ \A k \in DOMAIN o.cmds : o.cmds[k].op = "place" <=> k = 1
    BY <1>3, OrderTyped DEF Orderly, Sane, Commanded
<1>5. o.cmds[c[2]] \in Command
    BY <1>1, <1>2, <1>4
<1>6. Cmd(c[1], c[2]) = o.cmds[c[2]]
    BY <1>2 DEF Cmd
<1> QED BY <1>1, <1>2, <1>4, <1>5, <1>6

\* The venue is asked.
LEMMA AskKeeps == ASSUME IInv, NEW i \in Ids, Ask(i) PROVE IInv'
<1> DEFINE v == venue[i]
           q == Truth(i)
<1>1. /\ i \in Order /\ v \in VenueOrder /\ Traded(v, wire[i], reports[i])
      /\ query \in [Order -> Result \cup {NoQuery}]
      /\ \A j \in Order : Informed(query[j], venue[j], wire[j])
    BY DEF IInv, Truthful
<1>2. /\ v.st \in {"none", "live"} \cup Terminal
      /\ v.rev \in Nat /\ v.cum \in Nat /\ v.qty \in Nat /\ v.qty - v.cum \in Nat
    BY <1>1 DEF VenueOrder, Traded
<1> HIDE DEF v
<1>3. q \in Result /\ Informed(q, v, wire[i])
    <2>1. CASE v.st = "live"
        <3>1. q = Told(v, "found_live")
            BY <2>1 DEF Truth, v, Terminal
        <3>2. q \in Result /\ q.status = "found_live" /\ q.cum = v.cum
            BY <1>2, <3>1 DEF Told, Remaining, Result
        <3> HIDE DEF q
        <3> QED BY <1>2, <3>2 DEF Informed, TrueOf, Terminal
    <2>2. CASE v.st \in Terminal
        <3>1. q = Told(v, v.st)
            BY <2>2 DEF Truth, v, Terminal
        <3>2. q \in Result /\ q.status = v.st /\ q.cum = v.cum
            BY <1>2, <2>2, <3>1 DEF Told, Remaining, Result
        <3> HIDE DEF q
        <3> QED BY <1>2, <2>2, <3>2 DEF Informed, TrueOf, Terminal
    <2>3. CASE v.st = "none" /\ PlaceAtLarge(i)
        <3>1. q = [status |-> "unresolved", rev |-> 1, cum |-> 0, rem |-> 0]
            BY <2>3 DEF Truth, v, Terminal
        <3> HIDE DEF q
        <3> QED BY <1>2, <3>1 DEF Result, Informed, TrueOf, Terminal
    <2>4. CASE v.st = "none" /\ ~PlaceAtLarge(i)
        <3>1. q = [status |-> "confirmed_absent", rev |-> 1, cum |-> 0, rem |-> Cmd(i, 1).total]
            BY <2>4 DEF Truth, v, Terminal
        <3>2. Cmd(i, 1).total \in Nat
            <4>1. PICK o : o = orders[i]
                OBVIOUS
            <4>2. Orderly(o)
                BY <4>1 DEF IInv, Kept, Believed, Ids
            <4>3. o.cmds \in Seq(Command) /\ Len(o.cmds) > 0
                BY <4>2, OrderTyped DEF Orderly, Sane, Commanded
            <4>4. o.cmds[1] \in Command
                BY <4>3
            <4> QED BY <4>1, <4>4 DEF Cmd, Command
        <3> HIDE DEF q
        <3> QED BY <1>2, <2>4, <3>1, <3>2 DEF Result, Informed, TrueOf, Terminal, PlaceAtLarge
    <2> QED BY <1>2, <2>1, <2>2, <2>3, <2>4
<1>4. /\ query' = [query EXCEPT ![i] = q]
      /\ UNCHANGED <<orders, recovery_only, capacity_pressure, venue, wire, answered, reports>>
    BY DEF Ask, omsVars
<1> HIDE DEF q
<1>5. query' \in [Order -> Result \cup {NoQuery}]
    BY <1>1, <1>3, <1>4
<1>6. \A j \in Order : Informed(query'[j], venue[j], wire[j])
    <2> SUFFICES ASSUME NEW j \in Order PROVE Informed(query'[j], venue[j], wire[j])
        OBVIOUS
    <2>1. CASE j = i
        <3>1. query'[i] = q
            BY <1>1, <1>4
        <3> QED BY <1>3, <2>1, <3>1 DEF v
    <2>2. CASE j # i
        <3>1. query'[j] = query[j]
            BY <1>1, <1>4, <2>2
        <3> QED BY <1>1, <3>1
    <2> QED BY <2>1, <2>2
<1>7. Truthful'
    BY <1>4, <1>5, <1>6 DEF IInv, Truthful
<1>8. Kept(orders', venue', wire')
    BY <1>4, Zenon DEF IInv
<1> QED BY <1>4, <1>7, <1>8 DEF IInv, Ids

LEMMA VenueStep == ASSUME IInv, VenueNext PROVE IInv'
<1>1. ASSUME NEW c \in Emitted, Send(c[1], c[2]) PROVE IInv'
    <2>1. /\ wire[c[1]][c[2]] \in {"idle", "flying"} /\ Moves(c[1], c[2], "flying")
          /\ UNCHANGED <<omsVars, venue, answered, reports, query>>
        BY <1>1 DEF Send, Sendable
    <2>2. "flying" \in WireState
        BY DEF WireState
    <2> QED BY <2>1, <2>2, WireMoved, WireKeeps
<1>2. ASSUME NEW c \in Emitted, Refuse(c[1], c[2]) PROVE IInv'
    <2>1. /\ wire[c[1]][c[2]] \in {"idle", "flying"} /\ Moves(c[1], c[2], "refused")
          /\ UNCHANGED <<omsVars, venue, answered, reports, query>>
        BY <1>2 DEF Refuse
    <2>2. "refused" \in WireState
        BY DEF WireState
    <2> QED BY <2>1, <2>2, WireMoved, WireKeeps
<1>3. ASSUME NEW c \in Emitted, NEW at, at = "taken", NEW i, i = c[1],
             wire[i][c[2]] = "flying", Moves(i, c[2], at)
      PROVE  /\ wire' \in [Order -> [Slot -> WireState]]
             /\ \A j \in Order \ {i} : wire'[j] = wire[j]
             /\ c[2] = 1 \/ wire[i][1] = "taken" => wire'[i][1] = "taken"
    <2>1. at \in WireState
        BY <1>3 DEF WireState
    <2> QED BY <1>3, <2>1, WireMoved
<1>4. ASSUME NEW c \in Emitted, VenuePlaces(c[1], c[2]) PROVE IInv'
    <2> DEFINE m == Cmd(c[1], c[2])
    <2>0. PICK i : i = c[1]
        OBVIOUS
    <2>1. /\ i \in Order /\ c[2] = 1 /\ m \in Command /\ m.total > 0
        BY <1>4, <2>0, CommandTyped DEF VenuePlaces
    <2>2. PICK st \in {"live", "rejected"} :
            Make(i, IF st = "live" THEN "accepted" ELSE "rejected",
                 [st |-> st, rev |-> m.rev, qty |-> m.total, cum |-> 0,
                  atoms |-> m.atoms, basis |-> m.qty])
        BY <1>4, <2>0 DEF VenuePlaces
    <2>3. PICK v : v = [st |-> st, rev |-> m.rev, qty |-> m.total, cum |-> 0,
                        atoms |-> m.atoms, basis |-> m.qty]
        OBVIOUS
    <2>4. PICK status : status = IF st = "live" THEN "accepted" ELSE "rejected"
        OBVIOUS
    <2>5. /\ wire[i][1] = "flying" /\ Moves(i, 1, "taken") /\ UNCHANGED <<omsVars, answered, query>>
        BY <1>4, <2>0, <2>1 DEF VenuePlaces
    <2>6. /\ m.rev \in Nat /\ m.total \in Nat /\ m.atoms \in Nat /\ m.qty \in Int
        BY <2>1 DEF Command
    <2> HIDE DEF m
    <2>7. v \in VenueOrder /\ v.st = st /\ v.cum = 0 /\ v.qty = m.total
        BY <2>3, <2>6 DEF VenueOrder, Terminal
    <2>8. venue[i].st = "none" /\ venue[i].cum = 0
        BY <2>1, <2>5 DEF IInv, Truthful, Traded
    <2>9. status \in ReportStatus /\ (status \in Terminal => st = status)
        BY <2>4 DEF ReportStatus, Terminal
    <2>10. Make(i, status, v)
        BY <2>2, <2>3, <2>4
    <2>11. Advances(i, status, v)
        BY <2>1, <2>5, <2>6, <2>7, <2>8, <2>9, <2>10 DEF Advances
    <2>12. /\ wire' \in [Order -> [Slot -> WireState]] /\ wire'[i][1] = "taken"
           /\ \A j \in Order \ {i} : wire'[j] = wire[j]
        BY <1>3, <2>0, <2>1, <2>5
    <2> QED BY <2>1, <2>5, <2>11, <2>12, MakeKeeps
<1>5. ASSUME NEW c \in Emitted, VenueAmends(c[1], c[2]) PROVE IInv'
    <2> DEFINE m == Cmd(c[1], c[2])
    <2>0. PICK i : i = c[1]
        OBVIOUS
    <2>1. i \in Order /\ m \in Command
        BY <2>0, CommandTyped
    <2>2. /\ wire[i][c[2]] = "flying" /\ Moves(i, c[2], "taken") /\ venue[i].st = "live"
          /\ m.total > venue[i].cum /\ UNCHANGED <<omsVars, answered, query>>
          /\ Make(i, "amended", [venue[i] EXCEPT !.rev = m.rev, !.qty = m.total,
                                                 !.atoms = m.atoms, !.basis = m.qty])
        BY <1>5, <2>0 DEF VenueAmends, Alive
    <2>3. PICK v : v = [venue[i] EXCEPT !.rev = m.rev, !.qty = m.total,
                                        !.atoms = m.atoms, !.basis = m.qty]
        OBVIOUS
    <2>4. /\ m.rev \in Nat /\ m.total \in Nat /\ m.atoms \in Nat /\ m.qty \in Int
        BY <2>1 DEF Command
    <2>5. venue[i] \in VenueOrder /\ Traded(venue[i], wire[i], reports[i])
        BY <2>1 DEF IInv, Truthful
    <2>6. venue[i].cum \in Nat
        BY <2>5 DEF VenueOrder
    <2> HIDE DEF m
    <2>7. /\ v \in VenueOrder /\ v.st = "live" /\ v.cum = venue[i].cum /\ v.qty = m.total
        BY <2>2, <2>3, <2>4, <2>5 DEF VenueOrder
    <2>8. Advances(i, "amended", v)
        <3>1. "amended" \in ReportStatus /\ "amended" \notin Terminal /\ Make(i, "amended", v)
            BY <2>2, <2>3 DEF ReportStatus, Terminal
        <3>2. v.cum <= v.qty /\ v.cum < v.qty /\ venue[i].cum <= v.cum
            BY <2>2, <2>4, <2>6, <2>7
        <3> QED BY <2>2, <2>7, <3>1, <3>2 DEF Advances
    <2>9. /\ wire' \in [Order -> [Slot -> WireState]] /\ wire'[i][1] = "taken"
          /\ \A j \in Order \ {i} : wire'[j] = wire[j]
        <3>1. wire[i][1] = "taken"
            BY <2>2, <2>5 DEF Traded
        <3> QED BY <1>3, <2>0, <2>2, <3>1
    <2> QED BY <2>1, <2>2, <2>8, <2>9, MakeKeeps
<1>6. ASSUME NEW c \in Emitted, VenueCancels(c[1], c[2]) PROVE IInv'
    <2>0. PICK i : i = c[1]
        OBVIOUS
    <2>1. i \in Order
        BY <2>0, CommandTyped
    <2>2. /\ wire[i][c[2]] = "flying" /\ Moves(i, c[2], "taken") /\ venue[i].st = "live"
          /\ UNCHANGED <<omsVars, answered, query>>
          /\ Make(i, "canceled", [venue[i] EXCEPT !.st = "canceled"])
        BY <1>6, <2>0 DEF VenueCancels, Alive
    <2>3. PICK v : v = [venue[i] EXCEPT !.st = "canceled"]
        OBVIOUS
    <2>4. venue[i] \in VenueOrder /\ Traded(venue[i], wire[i], reports[i])
        BY <2>1 DEF IInv, Truthful
    <2>5. /\ v \in VenueOrder /\ v.st = "canceled" /\ v.cum = venue[i].cum /\ v.qty = venue[i].qty
        BY <2>3, <2>4 DEF VenueOrder, Terminal
    <2>6. venue[i].cum \in Nat /\ venue[i].cum <= venue[i].qty
        BY <2>4 DEF VenueOrder, Traded
    <2>7. Advances(i, "canceled", v)
        <3>1. "canceled" \in ReportStatus /\ Make(i, "canceled", v)
            BY <2>2, <2>3 DEF ReportStatus, Terminal
        <3> QED BY <2>2, <2>5, <2>6, <3>1 DEF Advances
    <2>8. /\ wire' \in [Order -> [Slot -> WireState]] /\ wire'[i][1] = "taken"
          /\ \A j \in Order \ {i} : wire'[j] = wire[j]
        <3>1. wire[i][1] = "taken"
            BY <2>2, <2>4 DEF Traded
        <3> QED BY <1>3, <2>0, <2>2, <3>1
    <2> QED BY <2>1, <2>2, <2>7, <2>8, MakeKeeps
<1>7. ASSUME NEW i \in Ids, Fill(i) PROVE IInv'
    <2> DEFINE u == [venue[i] EXCEPT !.cum = @ + 1]
               full == u.cum = u.qty
    <2>1. i \in Order /\ venue[i] \in VenueOrder /\ Traded(venue[i], wire[i], reports[i])
        BY DEF IInv, Truthful
    <2>2. /\ venue[i].st = "live" /\ UNCHANGED <<omsVars, wire, answered, query>>
          /\ Make(i, IF full THEN "filled" ELSE "partially_filled",
                  [u EXCEPT !.st = IF full THEN "filled" ELSE "live"])
        BY <1>7 DEF Fill, Alive
    <2>3. PICK status : status = IF full THEN "filled" ELSE "partially_filled"
        OBVIOUS
    <2>4. PICK v : v = [u EXCEPT !.st = IF full THEN "filled" ELSE "live"]
        OBVIOUS
    <2>5. venue[i].cum \in Nat /\ venue[i].qty \in Nat /\ venue[i].cum < venue[i].qty
        BY <2>1, <2>2 DEF VenueOrder, Traded
    <2>6. u \in VenueOrder /\ u.cum = venue[i].cum + 1 /\ u.qty = venue[i].qty
        BY <2>1, <2>5 DEF VenueOrder
    <2> HIDE DEF u
    <2>7. v \in VenueOrder /\ v.cum = u.cum /\ v.qty = u.qty
          /\ v.st = IF full THEN "filled" ELSE "live"
        BY <2>4, <2>6 DEF VenueOrder, Terminal
    <2>8. Advances(i, status, v)
        <3>1. status \in ReportStatus /\ (status \in Terminal => v.st = status)
              /\ Make(i, status, v)
            BY <2>2, <2>3, <2>4, <2>7 DEF ReportStatus, Terminal
        <3>2. v.cum <= v.qty /\ (v.st = "live" => v.cum < v.qty) /\ venue[i].cum <= v.cum
              /\ v.st # "none"
            BY <2>5, <2>6, <2>7
        <3> QED BY <2>2, <2>7, <3>1, <3>2 DEF Advances
    <2>9. /\ wire' \in [Order -> [Slot -> WireState]] /\ wire'[i][1] = "taken"
          /\ \A j \in Order \ {i} : wire'[j] = wire[j]
        BY <2>1, <2>2 DEF Traded, IInv, Truthful
    <2> QED BY <2>1, <2>2, <2>8, <2>9, MakeKeeps
<1>8. ASSUME NEW i \in Ids, Ask(i) PROVE IInv'
    BY <1>8, AskKeeps
<1> QED BY <1>1, <1>2, <1>4, <1>5, <1>6, <1>7, <1>8 DEF VenueNext

-----------------------------------------------------------------------------
(* Theorems.                                                               *)

LEMMA InitIInv == Init => IInv
<1> SUFFICES ASSUME Init PROVE IInv
    OBVIOUS
<1>1. /\ orders = << >> /\ recovery_only = FALSE /\ capacity_pressure = FALSE /\ answered = {}
      /\ DOMAIN orders = {} /\ orders \in Seq({})
    BY DEF Init
<1>2. Kept(orders, venue, wire)
    <2>1. Book(orders)
        BY <1>1 DEF Book
    <2> QED BY <1>1, <2>1 DEF Kept, Believed, GroupsKept, Succession
<1>3. NoVenueOrder \in VenueOrder /\ NoVenueOrder.st = "none" /\ NoVenueOrder.cum = 0
      /\ NoVenueOrder.qty = 0
    BY DEF NoVenueOrder, VenueOrder
<1>4. /\ venue = [i \in Order |-> NoVenueOrder] /\ reports = [i \in Order |-> {}]
      /\ wire = [i \in Order |-> [k \in Slot |-> "idle"]] /\ query = [i \in Order |-> NoQuery]
    BY DEF Init
<1>5. Truthful
    <2>1. wire \in [Order -> [Slot -> WireState]]
        BY <1>4 DEF WireState
    <2>2. \A i \in Order : Traded(venue[i], wire[i], reports[i])
        BY <1>3, <1>4 DEF Traded
    <2>3. \A i \in Order : Informed(query[i], venue[i], wire[i])
        BY <1>4 DEF Informed
    <2> QED BY <1>3, <1>4, <2>1, <2>2, <2>3 DEF Truthful
<1> QED BY <1>1, <1>2, <1>5 DEF IInv, Ids

LEMMA NextIInv == IInv /\ [Next]_vars => IInv'
<1> SUFFICES ASSUME IInv, [Next]_vars PROVE IInv'
    OBVIOUS
<1>1. CASE OmsNext
    BY <1>1, OmsStep
<1>2. CASE VenueNext
    BY <1>2, VenueStep
<1>3. CASE UNCHANGED vars
    BY <1>3, Zenon DEF vars, omsVars, IInv, Truthful, Ids
<1> QED BY <1>1, <1>2, <1>3 DEF Next

\* Orders, venue, wire and answers under way fit each other in every reachable state
\* (oms.zig, reconcile and applyReport, as the shard calls them).
THEOREM Invariance == Spec => []IInv
BY InitIInv, NextIInv, PTL DEF Spec

\* The types of every variable, of the orders field by field.
THEOREM Typed == Spec => []TypeOK
<1>1. IInv => TypeOK
    <2> SUFFICES ASSUME IInv PROVE TypeOK
        OBVIOUS
    <2>1. \A i \in Ids : i \in Order /\ IsOrder(orders[i])
        BY DEF IInv, Kept, Believed, Orderly, Sane, Ids
    <2>2. \A i \in Order : /\ venue[i].st \in {"none", "live"} \cup Terminal
                           /\ reports[i] \subseteq Report
                           /\ query[i] \in Result \cup {NoQuery}
        BY DEF IInv, Truthful, VenueOrder
    <2> QED BY <2>1, <2>2 DEF IInv, Truthful, TypeOK
<1> QED BY <1>1, Invariance, PTL

\* The OMS takes nothing for executed or closed that the venue did not execute
\* and close, whatever reports and answers come late, twice or out of order.
THEOREM EvidenceIsTrue == Spec => []EvidenceTrue
<1>1. IInv => EvidenceTrue
    <2> SUFFICES ASSUME IInv, NEW i \in Ids
                 PROVE  /\ orders[i].cum <= venue[i].cum
                        /\ orders[i].state \in {"filled", "canceled"} =>
                             \/ venue[i].st = orders[i].state /\ venue[i].cum = orders[i].cum
                             \/ venue[i].st = "none" /\ ~PlaceAtLarge(i)
        BY DEF EvidenceTrue
    <2>1. Honest(orders[i], venue[i], wire[i])
        BY DEF IInv, Kept, Believed, Ids
    <2> QED BY <2>1 DEF Honest, PlaceAtLarge
<1> QED BY <1>1, Invariance, PTL

\* No replacement exists beside an order the venue may still fill, and none is
\* decided on fewer fills than its predecessor had.
THEOREM SuccessorIsAfterClose == Spec => []SuccessorAfterClose
<1>1. IInv => SuccessorAfterClose
    <2> SUFFICES ASSUME IInv, NEW j \in Ids, NEW i, i = orders[j].predecessor, i # 0
                 PROVE  /\ venue[i].st = "canceled"
                        /\ \E k \in DOMAIN orders[i].cmds :
                             Cmd(i, k).op = "cancel"
                             /\ Cmd(i, k).total - Cmd(i, k).qty = venue[i].cum
        BY DEF SuccessorAfterClose
    <2>1. Ended(orders, i, venue)
        BY DEF IInv, Kept, Succession, Ids
    <2> QED BY <2>1 DEF Ended, CancelEmitted, Cmd
<1> QED BY <1>1, Invariance, PTL

\* A place that was never sent stops the places of its group that wait.
THEOREM UnsentStopsGroup == Spec => []StopsUnsent
<1>1. IInv => StopsUnsent
    <2> SUFFICES ASSUME IInv, NEW c \in Emitted, NEW i, i = c[1],
                        orders[i].policy = "cancel_remaining", orders[i].predecessor = 0,
                        Cmd(i, c[2]).op = "place", Sendable(i, c[2]),
                        NEW j \in Ids, orders[j].group = orders[i].group,
                        Unsent(orders[j])
                 PROVE  FALSE
        BY Zenon DEF StopsUnsent, Unsent
    <2>1. i \in Ids
        BY DEF Emitted
    <2>2. orders[i].state = "pending_submit"
        BY DEF Sendable, PendingState
    <2>3. GroupsKept(orders)
        BY DEF IInv, Kept
    <2>4. orders[j].policy = orders[i].policy
        BY <2>1, <2>3 DEF GroupsKept, Ids
    <2>5. Stops(orders, j) /\ Waits(orders, i)
        BY <2>2, <2>4 DEF Stops, Waits
    <2> QED BY <2>1, <2>3, <2>5 DEF GroupsKept, Ids
<1> QED BY <1>1, Invariance, PTL

-----------------------------------------------------------------------------
(* Places and amends are emitted alone.                                    *)

\* What `t' has newly sent since `s' was sent while no other order was uncertain.
Sent(s, t, i) ==
    /\ i \notin DOMAIN s \/ Len(t[i].cmds) > Len(s[i].cmds)
    /\ t[i].cmds[Len(t[i].cmds)].op # "cancel"
Judged(s, t, i) == IF i \notin DOMAIN s /\ t[i].predecessor # 0 THEN t ELSE s
Alone(s, t) ==
    \A i \in DOMAIN t : Sent(s, t, i) => \A j \in DOMAIN s \ {i} : ~Uncertain(Judged(s, t, i)[j])

\* An order to which at most cancels were added.
Muted(o, p) == p.cmds = o.cmds \/ LastCommand(p).op = "cancel"
Mute(s, t) == DOMAIN t = DOMAIN s /\ \A i \in DOMAIN s : Muted(s[i], t[i])

\* Nothing but data of the order changes.
Hushed(o, p) == DOMAIN p = DOMAIN o /\ p.cmds = o.cmds

LEMMA HushedPending ==
    ASSUME NEW o, "cmds" \in DOMAIN o
    PROVE  /\ Hushed(o, ClearPending(o)) /\ Hushed(o, Release(o))
           /\ \A remaining : Hushed(o, Rebalanced(o, remaining))
<1>1. Hushed(o, ClearPending(o)) /\ \A remaining : Hushed(o, Rebalanced(o, remaining))
    BY DEF Hushed, ClearPending, Rebalanced
<1>2. Hushed(o, Release(o))
    BY DEF Hushed, Release, ClearPending
<1> QED BY <1>1, <1>2

LEMMA HushedRejections ==
    ASSUME NEW o, "cmds" \in DOMAIN o
    PROVE  /\ Hushed(o, RejectAmend(o))
           /\ \A op \in {"place", "amend", "cancel"} : Hushed(o, RejectCommand(o, op))
<1>1. Hushed(o, RejectAmend(o))
    <2> DEFINE p == [o EXCEPT !.state = Reopened(o), !.qty = o.cqty, !.rev = @ - 1]
               q == ClearPending(p)
    <2>1. Hushed(o, p)
        BY DEF Hushed
    <2> HIDE DEF p
    <2>2. Hushed(p, q)
        BY <2>1, HushedPending DEF Hushed
    <2>3. RejectAmend(o) = o \/ RejectAmend(o) = Rebalanced(q, Greater(0, o.cqty - o.cum))
        BY DEF RejectAmend, p
    <2> HIDE DEF q
    <2>4. \A remaining : Hushed(q, Rebalanced(q, remaining))
        BY <2>1, <2>2, HushedPending DEF Hushed
    <2> QED BY <2>1, <2>2, <2>3, <2>4 DEF Hushed
<1>2. ASSUME NEW op \in {"place", "amend", "cancel"} PROVE Hushed(o, RejectCommand(o, op))
    <2>1. CASE op = "amend"
        BY <1>1, <2>1 DEF RejectCommand
    <2>2. CASE op = "place"
        BY <2>2 DEF RejectCommand, Hushed
    <2>3. CASE op = "cancel"
        BY <2>3 DEF RejectCommand, Hushed
    <2> QED BY <2>1, <2>2, <2>3
<1> QED BY <1>1, <1>2

LEMMA HushedPromote ==
    ASSUME NEW o, "cmds" \in DOMAIN o, NEW r
    PROVE  Hushed(o, Promote(o, r))
<1>1. PICK kept : kept = IF Pending(o) THEN Scaled(o.pres, r.rem, o.pbasis) ELSE o.cres
    OBVIOUS
<1> DEFINE p == [o EXCEPT !.cres = kept, !.cqty = Total(r), !.qty = Total(r), !.basis = r.rem]
<1>2. Promote(o, r) = Rebalanced(ClearPending(p), r.rem)
    BY <1>1 DEF Promote
<1>3. Hushed(o, p)
    BY DEF Hushed
<1> HIDE DEF p
<1>4. Hushed(p, ClearPending(p))
    BY <1>3, HushedPending DEF Hushed
<1>5. Hushed(ClearPending(p), Rebalanced(ClearPending(p), r.rem))
    BY <1>3, <1>4, HushedPending DEF Hushed
<1> QED BY <1>2, <1>3, <1>4, <1>5 DEF Hushed

LEMMA HushedReport ==
    ASSUME NEW o, "cmds" \in DOMAIN o, NEW r
    PROVE  Hushed(o, AfterReport(o, r))
<1> DEFINE kept == IF r.status = "amended" THEN WithTotal(o, r) ELSE o
<1>1. Hushed(o, kept) /\ "cmds" \in DOMAIN kept
    BY DEF Hushed, WithTotal
<1>2. ASSUME NEW q, "cmds" \in DOMAIN q PROVE Hushed(q, Progressed(q, r))
    <2> DEFINE known == [q EXCEPT !.last = r, !.cum = r.cum, !.state = Reported(q, r)]
               closed == [known EXCEPT !.repl = NoReplacement]
    <2>1. Hushed(q, known) /\ Hushed(q, closed)
        BY <1>2 DEF Hushed
    <2>2. \/ Progressed(q, r) \in {Release(closed), Release(known), Promote(known, r)}
          \/ \E remaining : Progressed(q, r) = Rebalanced(known, remaining)
        BY DEF Progressed
    <2> HIDE DEF known, closed
    <2>3. "cmds" \in DOMAIN known /\ "cmds" \in DOMAIN closed
        BY <1>2, <2>1 DEF Hushed
    <2>4. Hushed(closed, Release(closed)) /\ Hushed(known, Release(known))
        BY <2>3, HushedPending
    <2>5. Hushed(known, Promote(known, r))
        BY <2>3, HushedPromote
    <2>6. \A remaining : Hushed(known, Rebalanced(known, remaining))
        BY <2>3, HushedPending
    <2> QED BY <2>1, <2>2, <2>4, <2>5, <2>6 DEF Hushed
<1> HIDE DEF kept
<1>3. ASSUME NEW q, Hushed(kept, q) PROVE Hushed(o, q) /\ "cmds" \in DOMAIN q
    BY <1>1, <1>3 DEF Hushed
<1>4. Hushed(o, Progressed(kept, r))
    BY <1>1, <1>2, <1>3
<1>5. PICK p : p = [kept EXCEPT !.last = r, !.cum = r.cum]
    OBVIOUS
<1>6. PICK q : q = [kept EXCEPT !.last = r]
    OBVIOUS
<1>7. Hushed(kept, p) /\ Hushed(kept, q)
    BY <1>1, <1>5, <1>6 DEF Hushed
<1>8. Hushed(p, RejectAmend(p)) /\ Hushed(q, RejectCommand(q, "cancel"))
    BY <1>3, <1>7, HushedRejections
<1>9. AfterReport(o, r) \in {kept, RejectAmend(p), RejectCommand(q, "cancel"), Progressed(kept, r)}
    BY <1>5, <1>6 DEF AfterReport, kept
<1> QED BY <1>1, <1>4, <1>7, <1>8, <1>9 DEF Hushed

LEMMA HushedResult ==
    ASSUME NEW o, "cmds" \in DOMAIN o, NEW r, r.status \in ResultStatus
    PROVE  Hushed(o, AfterResult(o, r)) /\ Hushed(o, Remembered(o, r))
<1>1. Hushed(o, Remembered(o, r))
    BY DEF Hushed, Remembered
<1>2. Hushed(o, FoundLive(o, r))
    <2> DEFINE seen == [o EXCEPT !.cum = r.cum]
               current == [seen EXCEPT !.rev = r.rev]
               fresh == [current EXCEPT !.qty = Total(r), !.cqty = Total(r)]
    <2>1. Hushed(o, seen) /\ Hushed(o, current) /\ Hushed(o, fresh)
        BY DEF Hushed
    <2>2. PICK found : found = IF OldRevision(o, r) THEN Rebalanced(seen, r.rem)
                               ELSE IF Pending(o) THEN Promote(current, r)
                               ELSE Rebalanced(fresh, r.rem)
        OBVIOUS
    <2>3. \E state : FoundLive(o, r) = [found EXCEPT !.state = state]
        BY <2>2 DEF FoundLive
    <2> HIDE DEF seen, current, fresh
    <2>4. "cmds" \in DOMAIN seen /\ "cmds" \in DOMAIN current /\ "cmds" \in DOMAIN fresh
        BY <2>1 DEF Hushed
    <2>5. /\ Hushed(seen, Rebalanced(seen, r.rem)) /\ Hushed(fresh, Rebalanced(fresh, r.rem))
          /\ Hushed(current, Promote(current, r))
        BY <2>4, HushedPending, HushedPromote
    <2>6. Hushed(o, found)
        BY <2>1, <2>2, <2>5 DEF Hushed
    <2> QED BY <2>3, <2>6 DEF Hushed
<1>3. ASSUME NEW p, p \in {[o EXCEPT !.state = "unknown"],
                           [o EXCEPT !.state = "canceled", !.active = FALSE, !.res = 0]}
      PROVE  Hushed(o, p)
    BY <1>3 DEF Hushed
<1>4. PICK q : q = [o EXCEPT !.cum = r.cum, !.state = r.status]
    OBVIOUS
<1>5. Hushed(o, q) /\ Hushed(q, Release(q))
    <2>1. Hushed(o, q)
        BY <1>4 DEF Hushed
    <2> QED BY <2>1, HushedPending DEF Hushed
<1>6. \/ AfterResult(o, r) \in {o, FoundLive(o, r), Release(q)}
      \/ AfterResult(o, r) \in {[o EXCEPT !.state = "unknown"],
                                [o EXCEPT !.state = "canceled", !.active = FALSE, !.res = 0]}
    BY <1>4 DEF AfterResult, ResultStatus, Terminal
<1> QED BY <1>1, <1>2, <1>3, <1>5, <1>6 DEF Hushed

\* An order has its commands, and a cancel is added at their end.
LEMMA CancelMuted ==
    ASSUME NEW o, Orderly(o)
    PROVE  "cmds" \in DOMAIN o /\ Muted(o, Cancel(o))
<1>1. o \in OrderRecord(o.totals) /\ o.cmds \in Seq(Command) /\ Sane(o)
    BY OrderTyped DEF Orderly
<1>2. "cmds" \in DOMAIN o
    BY <1>1 DEF OrderRecord
<1>3. PICK q : q = [o EXCEPT !.state = "pending_cancel"]
    OBVIOUS
<1>4. DOMAIN q = DOMAIN o /\ q.cmds = o.cmds
    BY <1>3
<1>5. PICK c : c = [op |-> "cancel", rev |-> q.rev, qty |-> q.qty - q.cum, total |-> q.qty,
                    atoms |-> 0]
    OBVIOUS
<1>6. Cancel(o) = [q EXCEPT !.cmds = Append(q.cmds, c)]
    BY <1>3, <1>5 DEF Cancel, Emit
<1>7. Cancel(o).cmds = Append(o.cmds, c)
    BY <1>2, <1>4, <1>6
<1>8. o.cmds \in Seq(Command \cup {c}) /\ c \in Command \cup {c}
    BY <1>1
<1>9. LastCommand(Cancel(o)) = c
    BY <1>7, <1>8 DEF LastCommand
<1>10. c.op = "cancel"
    BY <1>5
<1> QED BY <1>2, <1>9, <1>10 DEF Muted

LEMMA MemberMuted ==
    ASSUME NEW o, Orderly(o)
    PROVE  Muted(o, CancelMember(o))
<1>1. "cmds" \in DOMAIN o /\ Muted(o, Cancel(o))
    BY CancelMuted
<1>2. PICK q : q = [o EXCEPT !.state = "rejected", !.active = FALSE]
    OBVIOUS
<1>3. q.cmds = o.cmds
    BY <1>1, <1>2
<1>4. CancelMember(o) \in {o, Cancel(o), q}
    BY <1>2 DEF CancelMember
<1> QED BY <1>1, <1>3, <1>4 DEF Muted

\* The order one handler touches, and what other handlers then make of all.
LEMMA PutMute ==
    ASSUME NEW s, NEW i \in DOMAIN s, NEW p, Muted(s[i], p)
    PROVE  Mute(s, Put(s, i, p))
BY DEF Mute, Put, Muted

LEMMA OpenMute ==
    ASSUME NEW s, \A i \in DOMAIN s : Orderly(s[i]), NEW scope
    PROVE  Mute(s, CancelOpen(s, scope))
<1>1. PICK t : t = CancelOpen(s, scope)
    OBVIOUS
<1>2. DOMAIN t = DOMAIN s /\ \A i \in DOMAIN s : t[i] \in {s[i], Cancel(s[i])}
    BY <1>1 DEF CancelOpen
<1>3. \A i \in DOMAIN s : Muted(s[i], t[i])
    BY <1>2, CancelMuted DEF Muted
<1> QED BY <1>1, <1>2, <1>3 DEF Mute

LEMMA GateMute ==
    ASSUME NEW s, \A i \in DOMAIN s : Orderly(s[i])
    PROVE  Mute(s, GateCloses(s))
<1>1. Mute(s, s)
    BY DEF Mute, Muted
<1> QED BY <1>1, OpenMute DEF GateCloses

LEMMA MuteChain ==
    ASSUME NEW s, NEW t, Mute(s, t), NEW u, Mute(t, u)
    PROVE  Mute(s, u)
BY DEF Mute, Muted, LastCommand

\* What only adds cancels sends nothing that would have to wait.
LEMMA MuteAlone ==
    ASSUME NEW s, \A i \in DOMAIN s : Orderly(s[i]), NEW t, Mute(s, t)
    PROVE  Alone(s, t)
<1> SUFFICES ASSUME NEW i \in DOMAIN t, Sent(s, t, i) PROVE FALSE
    BY DEF Alone
<1>1. i \in DOMAIN s /\ Muted(s[i], t[i])
    BY DEF Mute
<1>2. Len(s[i].cmds) \in Nat
    <2>1. s[i].cmds \in Seq(Command)
        BY <1>1, OrderTyped DEF Orderly
    <2> QED BY <2>1
<1>3. t[i].cmds # s[i].cmds
    BY <1>1, <1>2 DEF Sent
<1> QED BY <1>1, <1>3 DEF Sent, Muted, LastCommand

\* applyDispatchInPlace.
LEMMA DispatchedMute ==
    ASSUME IInv, NEW i \in Ids, NEW command, command.op \in {"place", "amend", "cancel"},
           NEW result \in DispatchState
    PROVE  Mute(orders, Dispatched(i, command, result))
<1> DEFINE o == orders[i]
           p == RejectCommand(o, command.op)
           refused == Put(orders, i, p)
<1>1. i \in DOMAIN orders /\ \A j \in DOMAIN orders : Orderly(orders[j])
    BY DEF Ids, IInv, Kept, Believed
<1>2. "cmds" \in DOMAIN o
    BY <1>1, CancelMuted
<1>3. CASE result = "unknown"
    <2>1. Muted(o, Uncertainly(o))
        BY <1>2 DEF Uncertainly, Muted
    <2>2. Dispatched(i, command, result) = Put(orders, i, Uncertainly(o))
        BY <1>3 DEF Dispatched, Put
    <2> QED BY <1>1, <2>1, <2>2, PutMute
<1>4. CASE result = "submitted"
    <2>1. PICK q : q = [o EXCEPT !.submitted = TRUE]
        OBVIOUS
    <2>2. Muted(o, q)
        BY <1>2, <2>1 DEF Muted
    <2>3. Dispatched(i, command, result) = Put(orders, i, q)
        BY <1>4, <2>1 DEF Dispatched, Put
    <2> QED BY <1>1, <2>2, <2>3, PutMute
<1>5. CASE result = "not_sent"
    <2>1. Muted(o, p)
        BY <1>2, HushedRejections DEF Hushed, Muted
    <2>2. Mute(orders, refused)
        BY <1>1, <2>1, PutMute
    <2>3. Dispatched(i, command, result) =
            IF o.policy = "cancel_remaining" THEN CancelGroup(refused, o.group) ELSE refused
        BY <1>5 DEF Dispatched, Put
    <2>4. \A j \in DOMAIN orders : Orderly(refused[j])
        <3>1. Tame(o, p)
            BY <1>1, RejectCommandTame
        <3>2. Orderly(p)
            BY <3>1 DEF Tame, Follows
        <3> HIDE DEF p
        <3> QED BY <1>1, <3>2 DEF Put
    <2> HIDE DEF refused
    <2>5. DOMAIN refused = DOMAIN orders
        BY <2>2 DEF Mute
    <2>6. Mute(refused, CancelGroup(refused, o.group))
        <3>1. PICK t : t = CancelGroup(refused, o.group)
            OBVIOUS
        <3>2. DOMAIN t = DOMAIN refused
              /\ \A j \in DOMAIN refused : t[j] \in {refused[j], CancelMember(refused[j])}
            BY <3>1 DEF CancelGroup
        <3>3. \A j \in DOMAIN refused : Muted(refused[j], t[j])
            BY <2>4, <2>5, <3>2, MemberMuted DEF Muted
        <3> QED BY <3>1, <3>2, <3>3 DEF Mute
    <2> QED BY <2>2, <2>3, <2>6, MuteChain
<1> QED BY <1>3, <1>4, <1>5 DEF DispatchState

\* The event ends: its replacement, if it makes one, is judged by what it left.
LEMMA SettleAlone ==
    ASSUME IInv, NEW s, Kept(s, venue, wire), Mute(orders, s), NEW i \in DOMAIN s, Settle(s, i)
    PROVE  Alone(orders, orders')
<1>1. PICK t : t = orders'
    OBVIOUS
<1>2. t \in Replacements(s, i)
    BY <1>1 DEF Settle
<1>3. /\ \A j \in DOMAIN orders : Orderly(orders[j])
      /\ Book(s) /\ \A j \in DOMAIN s : Orderly(s[j])
      /\ Len(s) \in Nat /\ DOMAIN s = 1 .. Len(s) /\ DOMAIN s = DOMAIN orders
    BY BookDomain DEF IInv, Kept, Believed, Mute
<1>4. PICK d : d = Discard(s, i)
    OBVIOUS
<1>5. /\ Book(d) /\ Len(d) = Len(s) /\ DOMAIN d = DOMAIN s
      /\ \A j \in DOMAIN s : d[j].cmds = s[j].cmds /\ d[j].state = s[j].state
    <2>1. "cmds" \in DOMAIN s[i] /\ "state" \in DOMAIN s[i]
        BY <1>3, OrderTyped DEF Orderly, OrderRecord
    <2>2. PICK p : p = [s[i] EXCEPT !.repl = NoReplacement]
        OBVIOUS
    <2>3. p.cmds = s[i].cmds /\ p.state = s[i].state
        BY <2>1, <2>2
    <2>4. s = [j \in DOMAIN s |-> s[j]]
        BY <1>3, BookDomain
    <2>5. d = [s EXCEPT ![i] = p]
        BY <1>4, <2>2 DEF Discard
    <2>6. DOMAIN d = DOMAIN s /\ d = [j \in DOMAIN d |-> d[j]]
          /\ \A j \in DOMAIN s : d[j] = IF j = i THEN p ELSE s[j]
        BY <2>4, <2>5
    <2>7. Book(d) /\ Len(d) = Len(s)
        BY <1>3, <2>6, BookOf
    <2> QED BY <2>3, <2>6, <2>7
<1>6. Mute(s, d)
    BY <1>5 DEF Mute, Muted
<1>7. CASE t \in {s, d}
    <2>1. Mute(orders, d)
        BY <1>6, MuteChain
    <2>2. Mute(orders, t)
        BY <1>7, <2>1
    <2>3. Alone(orders, t)
        BY <1>3, <2>2, MuteAlone
    <2> QED BY <1>1, <2>3
<1>8. CASE t = Replace(s, i) /\ MayReplace(s, i)
    <2>1. PICK p : t = Append(d, p) /\ p.predecessor = i
        <3>1. PICK o : o = NewOrder(s[i].repl.qty, s[i].repl.atoms, s[i].group, s[i].policy, i)
            OBVIOUS
        <3>2. o.predecessor = i /\ "predecessor" \in DOMAIN o
            BY <3>1 DEF NewOrder
        <3>3. PICK p : p = Emit(o, "place", s[i].repl.atoms)
            OBVIOUS
        <3>4. p.predecessor = i
            BY <3>2, <3>3 DEF Emit
        <3>5. t = Append(d, p)
            BY <1>4, <1>8, <3>1, <3>3 DEF Replace, Place
        <3> QED BY <3>4, <3>5
    <2>2. /\ Len(t) = Len(s) + 1 /\ DOMAIN t = 1 .. Len(s) + 1 /\ t[Len(s) + 1] = p
          /\ \A j \in DOMAIN s : t[j] = d[j]
        <3>1. PICK S : d \in Seq(S)
            BY <1>5 DEF Book
        <3>2. d \in Seq(S \cup {p}) /\ p \in S \cup {p}
            BY <3>1
        <3>3. /\ Len(t) = Len(d) + 1 /\ DOMAIN t = 1 .. Len(d) + 1 /\ t[Len(d) + 1] = p
              /\ \A j \in 1 .. Len(d) : t[j] = d[j]
            BY <2>1, <3>2
        <3> QED BY <1>3, <1>5, <3>3
    <2>3. \A j \in DOMAIN s : ~Uncertain(s[j])
        BY <1>8 DEF MayReplace, BlocksNewSend
    <2>4. \A j \in DOMAIN s : ~Uncertain(t[j])
        BY <1>5, <2>2, <2>3 DEF Uncertain
    <2>5. ASSUME NEW k \in DOMAIN t, Sent(orders, t, k), NEW j \in DOMAIN orders \ {k}
          PROVE  ~Uncertain(Judged(orders, t, k)[j])
        <3>1. CASE k \in DOMAIN s
            <4>1. Mute(orders, d) /\ t[k] = d[k]
                BY <1>6, <2>2, <3>1, MuteChain
            <4>2. Sent(orders, d, k) /\ k \in DOMAIN d
                BY <1>5, <2>5, <3>1, <4>1 DEF Sent
            <4>3. Alone(orders, d)
                BY <1>3, <4>1, MuteAlone
            <4>4. Judged(orders, d, k) = orders /\ Judged(orders, t, k) = orders
                BY <1>3, <3>1 DEF Judged
            <4>5. ~Uncertain(Judged(orders, d, k)[j])
                BY <2>5, <4>2, <4>3 DEF Alone
            <4> QED BY <4>4, <4>5
        <3>2. CASE k \notin DOMAIN s
            <4>1. k = Len(s) + 1 /\ t[k].predecessor = i /\ i # 0
                BY <1>3, <2>1, <2>2, <2>5, <3>2
            <4>2. Judged(orders, t, k) = t
                BY <1>3, <3>2, <4>1 DEF Judged
            <4> QED BY <1>3, <2>4, <2>5, <4>2
        <3> QED BY <3>1, <3>2
    <2>6. Alone(orders, t)
        BY <2>5 DEF Alone
    <2> QED BY <1>1, <2>6
<1>9. t \in {s, d} \/ (t = Replace(s, i) /\ MayReplace(s, i))
    BY <1>2, <1>4 DEF Replacements
<1> QED BY <1>7, <1>8, <1>9

LEMMA BreakAlone == ASSUME IInv, Break PROVE Alone(orders, orders')
<1>1. \A j \in DOMAIN orders : Orderly(orders[j])
    BY DEF IInv, Kept, Believed
<1>2. PICK t : t = orders'
    OBVIOUS
<1>3. Mute(orders, t)
    BY <1>1, <1>2, GateMute DEF Break
<1>4. Alone(orders, t)
    BY <1>1, <1>3, MuteAlone
<1> QED BY <1>2, <1>4

LEMMA ReportAlone ==
    ASSUME IInv, NEW i \in Ids, NEW r \in reports[i], ApplyReport(i, r)
    PROVE  Alone(orders, orders')
<1>1. CASE Conflicts(orders[i], r)
    BY <1>1, BreakAlone DEF ApplyReport
<1>2. CASE ~Conflicts(orders[i], r)
    <2> DEFINE p == AfterReport(orders[i], r)
               s == Put(orders, i, p)
    <2>1. i \in Order /\ Kept(orders, venue, wire) /\ i \in DOMAIN orders
        BY DEF IInv, Ids
    <2>2. Orderly(orders[i]) /\ Honest(orders[i], venue[i], wire[i])
        BY <2>1 DEF Kept, Believed
    <2>3. r \in Report /\ TrueOf(r, venue[i])
        BY <2>1 DEF IInv, Truthful, Traded
    <2>4. Faithful(orders[i], p, venue[i], wire[i])
        BY <1>2, <2>2, <2>3, AfterReportFaithful
    <2>5. Settle(s, i)
        BY <1>2 DEF ApplyReport, Put
    <2>6. Muted(orders[i], p)
        BY <2>2, CancelMuted, HushedReport DEF Hushed, Muted
    <2> HIDE DEF p
    <2>7. Kept(s, venue, wire) /\ Mute(orders, s)
        BY <2>1, <2>4, <2>6, OneKept, PutMute
    <2>8. i \in DOMAIN s
        BY <2>1 DEF Put
    <2> HIDE DEF s
    <2> QED BY <2>5, <2>7, <2>8, SettleAlone
<1> QED BY <1>1, <1>2

LEMMA ResolveAlone ==
    ASSUME IInv, NEW i \in Ids, NEW o, NEW r,
           Faithful(orders[i], Remembered(o, r), venue[i], wire[i]),
           Muted(orders[i], Remembered(o, r)), Resolve(i, o, r)
    PROVE  Alone(orders, orders')
<1> DEFINE p == Remembered(o, r)
           s == Put(orders, i, p)
           u == IF r.status = "unresolved" THEN GateCloses(s) ELSE s
<1>1. Kept(orders, venue, wire) /\ i \in DOMAIN orders
    BY DEF IInv, Ids
<1>2. Settle(u, i)
    BY DEF Resolve, Put
<1> HIDE DEF p
<1>3. Kept(s, venue, wire) /\ Mute(orders, s)
    BY <1>1, OneKept, PutMute DEF p
<1>4. DOMAIN s = DOMAIN orders
    BY DEF Put
<1> HIDE DEF s
<1>5. Kept(GateCloses(s), venue, wire) /\ Mute(s, GateCloses(s))
    BY <1>3, GateClosesKept, GateMute DEF Kept, Believed
<1>6. Mute(orders, GateCloses(s)) /\ DOMAIN GateCloses(s) = DOMAIN s
    BY <1>3, <1>5, MuteChain DEF Mute
<1>7. Kept(u, venue, wire) /\ Mute(orders, u) /\ i \in DOMAIN u
    BY <1>1, <1>3, <1>4, <1>5, <1>6
<1> HIDE DEF u
<1> QED BY <1>2, <1>7, SettleAlone

LEMMA ReconciliationAlone ==
    ASSUME IInv, NEW i \in Ids, NEW q \in Result, q # NoQuery, Informed(q, venue[i], wire[i]),
           ApplyReconciliation(i, q) \/ ApplyLateReconciliation(i, q)
    PROVE  Alone(orders, orders')
<1> DEFINE o == orders[i]
           r == Plausible(o, q)
<1>1. Orderly(o) /\ Honest(o, venue[i], wire[i])
    BY DEF IInv, Kept, Believed, Ids
<1>2. ~Inadmissible(o, r)
    BY DEF ApplyReconciliation, ApplyLateReconciliation
<1>3. Going(o, r, venue[i], wire[i])
    BY <1>1, <1>2, PlausibleGoing
<1>4. Break \/ Resolve(i, AfterResult(o, r), r) \/ Resolve(i, o, r)
    BY DEF ApplyReconciliation, ApplyLateReconciliation
<1> HIDE DEF r
<1>5. "cmds" \in DOMAIN o /\ r.status \in ResultStatus
    BY <1>1, <1>3, CancelMuted DEF Going
<1>6. CASE Break
    BY <1>6, BreakAlone
<1>7. CASE Resolve(i, AfterResult(o, r), r)
    <2> HIDE DEF o
    <2>1. PICK p : p = AfterResult(o, r)
        OBVIOUS
    <2>2. /\ Follows(o, p) /\ Honest(p, venue[i], wire[i])
          /\ r.status = "unresolved" => (Unsent(p) => Unsent(o))
        BY <1>1, <1>2, <1>3, <2>1, AfterResultHonest DEF Going
    <2>3. Faithful(o, Remembered(p, r), venue[i], wire[i])
        BY <2>2, ResolvedFaithful
    <2>4. Hushed(o, p)
        BY <1>5, <2>1, HushedResult
    <2>5. Hushed(p, Remembered(p, r))
        BY <1>5, <2>4, HushedResult DEF Hushed
    <2>6. Muted(o, Remembered(p, r))
        BY <2>4, <2>5 DEF Hushed, Muted
    <2> QED BY <1>7, <2>1, <2>3, <2>6, ResolveAlone DEF o
<1>8. CASE Resolve(i, o, r)
    <2>1. Faithful(o, Remembered(o, r), venue[i], wire[i])
        BY <1>1, RememberedFaithful
    <2>2. Muted(o, Remembered(o, r))
        BY <1>5, HushedResult DEF Hushed, Muted
    <2> QED BY <1>8, <2>1, <2>2, ResolveAlone
<1> QED BY <1>4, <1>6, <1>7, <1>8

\* The orders a group makes replace none.
Fresh(s) == Book(s) /\ Ids \subseteq DOMAIN s /\ \A i \in DOMAIN s \ Ids : s[i].predecessor = 0

LEMMA IntentFresh ==
    ASSUME NEW s, Fresh(s), NEW g \in Intent, NEW G, NEW policy,
           NEW t, t = ApplyIntent(s, g, G, policy)
    PROVE  Fresh(t)
<1>1. Book(s) /\ Len(s) \in Nat /\ DOMAIN s = 1 .. Len(s) /\ s = [i \in DOMAIN s |-> s[i]]
    BY BookDomain DEF Fresh
<1>2. Book(t)
    BY <1>1, IntentLonger
<1>3. CASE g.op = "place"
    <2>1. PICK p : t = Append(s, p) /\ p.predecessor = 0
        <3>1. PICK o : o = NewOrder(g.qty, g.atoms, G, policy, 0)
            OBVIOUS
        <3>2. o.predecessor = 0 /\ "predecessor" \in DOMAIN o
            BY <3>1 DEF NewOrder
        <3>3. PICK p : p = Emit(o, "place", g.atoms)
            OBVIOUS
        <3>4. p.predecessor = 0
            BY <3>2, <3>3 DEF Emit
        <3> QED BY <1>3, <3>1, <3>3, <3>4 DEF ApplyIntent, Place
    <2>2. PICK S : s \in Seq(S)
        BY <1>1 DEF Book
    <2>3. s \in Seq(S \cup {p}) /\ p \in S \cup {p}
        BY <2>2
    <2>4. /\ DOMAIN t = 1 .. Len(s) + 1 /\ t[Len(s) + 1] = p
          /\ \A i \in 1 .. Len(s) : t[i] = s[i]
        BY <2>1, <2>3
    <2>5. \A i \in DOMAIN t : i \in DOMAIN s \/ i = Len(s) + 1
        BY <1>1, <2>4
    <2>6. Ids \subseteq DOMAIN t
        BY <1>1, <2>4 DEF Fresh
    <2> QED BY <1>1, <1>2, <2>1, <2>4, <2>5, <2>6 DEF Fresh
<1>4. CASE g.op # "place"
    <2>1. g.op \in {"amend", "replace", "cancel"} /\ g.target \in Ids
        BY <1>4 DEF Intent
    <2>2. PICK p : t = [s EXCEPT ![g.target] = p]
        <3>1. CASE g.op = "amend"
            BY <3>1 DEF ApplyIntent
        <3>2. CASE g.op = "replace"
            BY <3>2 DEF ApplyIntent
        <3>3. CASE g.op = "cancel"
            BY <3>3 DEF ApplyIntent
        <3> QED BY <2>1, <3>1, <3>2, <3>3
    <2>3. DOMAIN t = DOMAIN s /\ \A i \in DOMAIN s \ Ids : t[i] = s[i]
        BY <1>1, <2>1, <2>2
    <2> QED BY <1>2, <2>3 DEF Fresh
<1> QED BY <1>3, <1>4

LEMMA IntentMute ==
    ASSUME NEW s, NEW G, NEW policy, Grouping(s, G, policy), NEW g \in Intent, g.op = "cancel",
           NEW t, t = ApplyIntent(s, g, G, policy)
    PROVE  Mute(s, t)
<1>1. g.target \in DOMAIN s
    BY DEF Intent, Grouping
<1>2. Muted(s[g.target], Cancel(s[g.target]))
    BY <1>1, CancelMuted DEF Grouping, Kept, Believed
<1>3. t = Put(s, g.target, Cancel(s[g.target]))
    BY DEF ApplyIntent, Put
<1> QED BY <1>1, <1>2, <1>3, PutMute

\* A group that places or amends was admitted while no order was uncertain.
LEMMA GroupAlone ==
    ASSUME IInv, NEW p \in Policies, NEW g \in Groups, ApplyGroup(g, p), Len(orders') <= MaxOrders
    PROVE  Alone(orders, orders')
<1>1. PICK t : t = orders'
    OBVIOUS
<1>2. PICK G : G = Len(orders) + 1
    OBVIOUS
<1>3. PICK after :
        /\ Len(g) \in 1 .. 4 /\ DOMAIN g = 1 .. Len(g) /\ after[0] = orders /\ t = after[Len(g)]
        /\ \A n \in 1 .. Len(g) : g[n] \in Intent
        /\ \A n \in 0 .. Len(g) : Grouping(after[n], G, p)
        /\ \A n \in 1 .. Len(g) : after[n] = ApplyIntent(after[n - 1], g[n], G, p)
    BY <1>1, <1>2, GroupMembers
<1>4. CASE BlocksNewSend(orders, capacity_pressure)
    <2>1. \A n \in DOMAIN g : g[n].op = "cancel"
        BY <1>4 DEF ApplyGroup, AdmitsNew
    <2>2. Mute(orders, t)
        <3> DEFINE S == {n \in 0 .. Len(g) : Mute(orders, after[n])}
        <3>1. 0 \in S
            BY <1>3 DEF Mute, Muted
        <3>2. ASSUME NEW n \in 1 .. Len(g), n - 1 \in S PROVE n \in S
            <4>1. n - 1 \in 0 .. Len(g) /\ n \in 0 .. Len(g) /\ Mute(orders, after[n - 1])
                BY <1>3, <3>2
            <4>2. Mute(after[n - 1], after[n])
                BY <1>3, <2>1, <4>1, IntentMute
            <4>3. Mute(orders, after[n])
                BY <4>1, <4>2, MuteChain
            <4> QED BY <4>1, <4>3
        <3> HIDE DEF S
        <3>3. 0 .. Len(g) \subseteq S
            BY <1>3, <3>1, <3>2, UpToFour
        <3>4. Len(g) \in S
            BY <1>3, <3>3
        <3> QED BY <1>3, <3>4 DEF S
    <2>3. \A j \in DOMAIN orders : Orderly(orders[j])
        BY DEF IInv, Kept, Believed
    <2>4. Alone(orders, t)
        BY <2>2, <2>3, MuteAlone
    <2> QED BY <1>1, <2>4
<1>5. CASE ~BlocksNewSend(orders, capacity_pressure)
    <2>1. Fresh(orders)
        BY DEF Fresh, IInv, Kept, Ids
    <2>2. Fresh(t)
        <3> DEFINE S == {n \in 0 .. Len(g) : Fresh(after[n])}
        <3>1. 0 \in S
            BY <1>3, <2>1
        <3>2. ASSUME NEW n \in 1 .. Len(g), n - 1 \in S PROVE n \in S
            <4>1. n \in 0 .. Len(g) /\ Fresh(after[n - 1])
                BY <1>3, <3>2
            <4>2. Fresh(after[n])
                BY <1>3, <4>1, IntentFresh
            <4> QED BY <4>1, <4>2
        <3> HIDE DEF S
        <3>3. 0 .. Len(g) \subseteq S
            BY <1>3, <3>1, <3>2, UpToFour
        <3>4. Len(g) \in S
            BY <1>3, <3>3
        <3> QED BY <1>3, <3>4 DEF S
    <2>3. \A i \in DOMAIN t : Judged(orders, t, i) = orders
        BY <2>2 DEF Fresh, Judged, Ids
    <2>4. \A j \in DOMAIN orders : ~Uncertain(orders[j])
        BY <1>5 DEF BlocksNewSend
    <2>5. Alone(orders, t)
        BY <2>3, <2>4 DEF Alone
    <2> QED BY <1>1, <2>5
<1> QED BY <1>4, <1>5

LEMMA StepAlone == ASSUME IInv, Next PROVE Alone(orders, orders')
<1>0. /\ \A j \in DOMAIN orders : Orderly(orders[j]) /\ orders[j].cmds \in Seq(Command)
      /\ Ids \subseteq Order
    BY OrderTyped DEF IInv, Kept, Believed, Orderly
<1>1. ASSUME NEW t, t = orders', Mute(orders, t) PROVE Alone(orders, orders')
    <2>1. Alone(orders, t)
        BY <1>0, <1>1, MuteAlone
    <2> QED BY <1>1, <2>1
<1>2. ASSUME orders' = orders PROVE Alone(orders, orders')
    <2>1. PICK t : t = orders
        OBVIOUS
    <2>2. Mute(orders, t)
        BY <2>1 DEF Mute, Muted
    <2> QED BY <1>1, <1>2, <2>1, <2>2
<1>3. ASSUME NEW p \in Policies, NEW g \in Groups, SubmitGroup(g, p)
      PROVE  Alone(orders, orders')
    BY <1>3, GroupAlone DEF SubmitGroup, Bounded
<1>4. ASSUME SafetyCancel PROVE Alone(orders, orders')
    <2>1. PICK scope \in SUBSET Ids : CancelOpenOrders(scope)
        BY <1>4 DEF SafetyCancel
    <2>2. PICK t : t = orders'
        OBVIOUS
    <2>3. Mute(orders, t)
        BY <1>0, <2>1, <2>2, OpenMute DEF CancelOpenOrders
    <2> QED BY <1>1, <2>2, <2>3
<1>5. ASSUME NEW c \in Emitted, DispatchResult(c[1], c[2]) PROVE Alone(orders, orders')
    <2> DEFINE i == c[1]
               k == c[2]
    <2>1. i \in Ids /\ k \in DOMAIN orders[i].cmds
        BY DEF Emitted
    <2>2. PICK result \in ResultOf(wire[i][k]) : ApplyDispatch(i, Cmd(i, k), result)
        BY <1>5 DEF DispatchResult
    <2>3. result \in DispatchState
        <3>1. PICK at : at = wire[i][k]
            OBVIOUS
        <3>2. ResultOf(at) \subseteq DispatchState
            BY DEF ResultOf, DispatchState
        <3> QED BY <2>2, <3>1, <3>2
    <2>4. PICK command : command = Cmd(i, k)
        OBVIOUS
    <2>5. command.op \in {"place", "amend", "cancel"}
        <3>1. PICK cmds : cmds = orders[i].cmds
            OBVIOUS
        <3>2. cmds \in Seq(Command) /\ k \in DOMAIN cmds
            BY <1>0, <2>1, <3>1 DEF Ids
        <3>3. cmds[k] \in Command
            BY <3>2
        <3>4. command = cmds[k]
            BY <2>4, <3>1 DEF Cmd
        <3> QED BY <3>3, <3>4 DEF Command
    <2>6. PICK t : t = orders'
        OBVIOUS
    <2>7. t = Dispatched(i, command, result)
        BY <2>2, <2>4, <2>6 DEF ApplyDispatch
    <2>8. Mute(orders, t)
        BY <2>1, <2>3, <2>5, <2>7, DispatchedMute
    <2> QED BY <1>1, <2>6, <2>8
<1>6. ASSUME NEW i \in Ids, NEW r \in reports[i], ExecutionReport(i, r)
      PROVE  Alone(orders, orders')
    BY <1>6, ReportAlone DEF ExecutionReport
<1>7. ASSUME NEW i \in Ids, Answer(i) PROVE Alone(orders, orders')
    <2>1. PICK q : q = query[i]
        OBVIOUS
    <2>2. i \in Order /\ q \in Result /\ q # NoQuery /\ Informed(q, venue[i], wire[i])
        BY <1>0, <1>7, <2>1 DEF Answer, IInv, Truthful
    <2>3. PICK u : u = [q EXCEPT !.status = "unresolved"]
        OBVIOUS
    <2>4. u \in Result /\ u # NoQuery /\ Informed(u, venue[i], wire[i])
        BY <2>2, <2>3, UnresolvedInformed
    <2>5. \/ ApplyReconciliation(i, q) \/ ApplyReconciliation(i, u)
          \/ ApplyLateReconciliation(i, q)
        BY <1>7, <2>1, <2>3 DEF Answer
    <2> QED BY <2>2, <2>4, <2>5, ReconciliationAlone
<1>8. ASSUME NEW i \in Ids, AnswerRefused(i) PROVE Alone(orders, orders')
    BY <1>2, <1>8 DEF AnswerRefused, omsVars
<1>9. CASE VenueNext
    <2>1. orders' = orders
        BY <1>9 DEF VenueNext, Send, Refuse, VenuePlaces, VenueAmends, VenueCancels, Fill, Ask,
                     omsVars
    <2> QED BY <1>2, <2>1
<1> QED BY <1>3, <1>4, <1>5, <1>6, <1>7, <1>8, <1>9 DEF Next, OmsNext

\* No place or amend is emitted beside an order that is Unknown or PendingCancel,
\* whatever closes and reopens orders in between (blocksNewSend).
THEOREM SentAlone == Spec => SendsAlone
<1>1. ASSUME IInv, Next
      PROVE  \A i \in DOMAIN orders' : NewlySent(i) =>
               LET judged == IF i \notin Ids /\ orders'[i].predecessor # 0 THEN orders' ELSE orders
               IN \A j \in Ids \ {i} : ~Uncertain(judged[j])
    <2>1. Alone(orders, orders')
        BY <1>1, StepAlone
    <2>2. PICK t : t = orders'
        OBVIOUS
    <2>3. \A i \in DOMAIN t : NewlySent(i) => Sent(orders, t, i)
        BY <2>2 DEF NewlySent, Sent, Ids
    <2> QED BY <2>1, <2>2, <2>3 DEF Alone, Judged, Ids
<1>2. IInv /\ [Next]_vars =>
        [\A i \in DOMAIN orders' : NewlySent(i) =>
           LET judged == IF i \notin Ids /\ orders'[i].predecessor # 0 THEN orders' ELSE orders
           IN \A j \in Ids \ {i} : ~Uncertain(judged[j])]_vars
    BY <1>1
<1> QED BY <1>2, Invariance, PTL DEF Spec, SendsAlone
=============================================================================

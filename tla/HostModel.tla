----------------------------- MODULE HostModel -----------------------------
(***************************************************************************)
(* The state model of the prototype strategy host (prototypes/             *)
(* python-strategy-host/model.py): a strategy that counts what it is given *)
(* and wants an intent at every IntentEvery-th count.  Every batch         *)
(* delivers one count to the strategy, as the routes of the benchmark      *)
(* deliver the same number of counts to all.                               *)
(***************************************************************************)
EXTENDS Integers

CONSTANT IntentEvery    \* intent_every

ASSUME IntentAssumption == IntentEvery \in Nat \ {0}

Active == "Active"
NeedsSnapshot == "NeedsSnapshot"
Recovering == "Recovering"

Model == [status : {Active, NeedsSnapshot, Recovering}, last_seq : Nat, count : Nat]
InitModel == [status |-> Active, last_seq |-> 0, count |-> 0]

snapshot(m) == [seq |-> m.last_seq, count |-> m.count]
restoreKeepsCount(m, seq, count) == [m EXCEPT !.last_seq = seq, !.status = Recovering]
restore(m, seq, count) == [m EXCEPT !.count = count, !.last_seq = seq, !.status = Recovering]
MayResume(m, seq) == m.status = Recovering /\ seq = m.last_seq
resume(m) == [m EXCEPT !.status = Active]
lagged(m) == [m EXCEPT !.status = NeedsSnapshot]

accept(m, seq) ==
    IF m.status = NeedsSnapshot THEN m
    ELSE IF seq # m.last_seq + 1 THEN [m EXCEPT !.status = NeedsSnapshot]
    ELSE [m EXCEPT !.count = @ + 1, !.last_seq = seq]

\* The intents of a batch: the identity is the ordinal of the count reached.
intents(m, seq) ==
    {n \in {m.count + 1} : m.status = Active /\ seq = m.last_seq + 1 /\ n % IntentEvery = 0}

\* self_check: a gap stops the model, replay to the barrier is quiet, and the
\* first batch after it brings the intent an uninterrupted run would bring.
self_check ==
    LET one == accept(InitModel, 1)
        gap == accept(one, 3)
        back == restore(gap, one.last_seq, one.count)
        two == accept(back, 2)
        three == accept(two, 3)
    IN  /\ gap.status = NeedsSnapshot
        /\ intents(back, 2) \cup intents(two, 3) = {}
        /\ MayResume(three, 3)
        /\ accept(resume(three), 4).count = 4
        /\ intents(resume(three), 4) = {n \in {4} : n % IntentEvery = 0}
ASSUME SelfCheck == self_check
=============================================================================

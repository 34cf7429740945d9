--------------------------- MODULE StrategyState ---------------------------
(* The private state of a cross-venue strategy (src/python/strategy_state.py):
   its schema, the rules `validate' adds to it, and its way through `encode'
   into a checkpoint and through `decode' into the next host.

   A state is taken as the strategy's own code left it (Candidates); what is
   modelled is what the host then does with it.  Fields that no rule looks at
   are left out, and references that only the walk over all evidence looks at
   are gathered in the `refs' of their pair.  Numbers are integers: a binary64
   x stands as x * One. *)
EXTENDS Integers, Sequences

CONSTANTS Candidates,   \* states the strategy's code may have produced
          Strategy,     \* the strategy identity the metadata names
          Capacity,     \* field |-> the most elements an array field may have
          MaxPayload,   \* MAX_PAYLOAD, in the measure of a state's `bytes'
          One,          \* the number 1.0
          Million,      \* the ppm of the whole
          MaxCursor, MaxNext  \* bounds on the inputs and intents of a behaviour

ASSUME BoundsAssumption ==
    /\ One \in Nat \ {0} /\ Million \in Nat \ {0}
    /\ MaxCursor \in Nat /\ MaxNext \in Nat

VARIABLES place,     \* where the state is: in a "host" or in a "file"
          state,
          form,      \* how the bytes of the file are written
          cursor,    \* inputs the host consumed, and the metadata of the file
          next,      \* the sequence of the next intent, and the same
          verdict    \* the last word on the state: "own", "written", "foreign",
                     \* "restored" or "refused"

vars == <<place, state, form, cursor, next, verdict>>

-----------------------------------------------------------------------------
\* The schema.

Positive == Nat \ {0}
None == [tag |-> "none"]
Reference == [identity: Positive, version: Positive, cursor: Nat]
MaybeRef == {None} \cup [tag: {"present"}, value: Reference]
Money == [asset: Positive, atoms: Int]
Reason == 1..16  \* in the order of their names
Phase == {"idle", "reserving", "entering", "repairing", "holding", "exiting",
          "reconciling", "completed"}
Timer == {"reservation", "dispatch", "economic_fill", "prediction", "holding",
          "exit", "repair"}
Deadline ==
    {None} \cup [tag: {"present"}, start: Reference, clock: Reference,
                 utc_start_ns: Nat, duration_ns: Positive, utc_deadline_ns: Nat]

\* The fraction is in lowest terms.
Rational(r) ==
    /\ r \in [numerator: Int, denominator: Positive]
    /\ LET Size == IF r.numerator < 0 THEN -r.numerator ELSE r.numerator
       IN \A k \in 2..r.denominator : ~(Size % k = 0 /\ r.denominator % k = 0)

\* The values of one field along a sequence of records.
Column(s, field) == [i \in DOMAIN s |-> s[i][field]]
Elements(s) == {s[i] : i \in DOMAIN s}

Array(s, S, field) == s \in Seq(S) /\ Len(s) <= Capacity[field]

Window(w) ==
    /\ w.capacity \in 1..Capacity.observations /\ w.warmup \in 1..Capacity.observations
    /\ Array(w.observations, [grid: Nat, cursor: Nat], "observations")

Model(m) ==
    /\ m.warmup \in {"cold", "warming", "ready"} /\ m.last_grid \in Nat
    /\ m.last_input \in MaybeRef /\ Window(m.window)
    /\ \/ m.tag = "rolling" /\ m.sum_squares \in Int
       \/ m.tag = "ar1" /\ m.phi \in Int
       \/ m.tag = "state_space" /\ m.mean \in Seq(Int) /\ m.covariance \in Seq(Int)
          /\ Len(m.mean) <= 2 /\ Len(m.covariance) <= 4

Label ==
    {[tag |-> "pending"]} \cup [tag: {"missing"}, evidence: Reference]
    \cup [tag: {"mature"}, evidence: Reference, value: Int]
Prediction == [identity: Positive, generated_cursor: Nat, value: Int, lower: Int,
               upper: Int, label: Label]

Opportunity ==
    {None} \cup [tag: {"active"}, strategy: Positive, pair: Positive, direction: {"long_first", "short_first"},
                 trigger_sequence: Positive, deadline: Deadline, evaluations: Nat,
                 evaluation_limit: Nat, last_evaluation: MaybeRef]

Monitor(m) ==
    /\ m.health \in {"normal", "warning", "invalid_latched"}
    /\ Array(m.reasons, Reason, "reasons")

Target(t) ==
    \/ t = [tag |-> "pending"]
    \/ t.tag = "frozen" /\ Rational(t.matched) /\ t.value \in Money /\ t.freeze_cursor \in Nat

Plan(p) ==
    /\ {p.reference_profit, p.entry_target, p.absolute_minimum} \subseteq Money
    /\ p.alpha_ppm \in 1..Million /\ Target(p.holding_target)

IntentRef == [strategy: Positive, sequence: Positive, order: MaybeRef, unknown: {"yes", "no"}]

Cycle(c) ==
    \/ c = None
    \/ /\ c.tag = "active" /\ c.phase \in Phase /\ c.before_reconciling \in Phase
       /\ Plan(c.plan) /\ Array(c.intents, IntentRef, "intents")
       /\ c.first_exit \in MaybeRef
       /\ c.first_exit_reason \in {None} \cup [tag: {"present"}, value: Reason]
       /\ Array(c.additional_reasons, Reason, "reasons")
       /\ c.times \in [Timer -> Deadline]

Pair(p) ==
    /\ p.pair_ref \in Positive /\ p.direction \in {"long_first", "short_first"}
    /\ Model(p.model) /\ Monitor(p.monitor) /\ Cycle(p.cycle)
    /\ p.opportunity \in Opportunity /\ p.cooldown \in Deadline
    /\ Array(p.predictions, Prediction, "predictions")
    /\ p.refs \in Seq(Reference)

Root(s) ==
    /\ s.input_identity \in Nat /\ s.bytes \in Nat
    /\ Array(s.pairs, Elements(s.pairs), "pairs") /\ \A p \in Elements(s.pairs) : Pair(p)
    /\ s.research \in {None} \cup [tag: {"enabled"}, used: Nat, limit: Nat]

-----------------------------------------------------------------------------
\* The rules of `validate'.

\* ordered_unique
Increasing(s) == \A i \in 1..Len(s) - 1 : s[i] < s[i + 1]

\* Mutant of IncreasingPairs: the second field is not compared.
IncreasingPairsLoose(s, f, g) == \A i \in 1..Len(s) - 1 : s[i][f] <= s[i + 1][f]

\* ordered_unique on pairs of fields, the first one deciding.
IncreasingPairs(s, f, g) ==
    \A i \in 1..Len(s) - 1 :
      \/ s[i][f] < s[i + 1][f]
      \/ s[i][f] = s[i + 1][f] /\ s[i][g] < s[i + 1][g]

\* Mutant of WindowOK: the window ends at the cursor, not before it.
WindowAtCursor(m, at) ==
    LET w == m.window  points == m.window.observations
    IN /\ w.warmup <= w.capacity /\ Len(points) <= w.capacity
       /\ Increasing(Column(points, "grid")) /\ Increasing(Column(points, "cursor"))
       /\ points # <<>> => points[Len(points)].grid = m.last_grid /\ points[Len(points)].cursor = at
       /\ m.warmup = "ready" => Len(points) >= w.warmup

WindowOK(m, at) ==
    LET w == m.window  points == m.window.observations
    IN /\ w.warmup <= w.capacity /\ Len(points) <= w.capacity
       /\ Increasing(Column(points, "grid")) /\ Increasing(Column(points, "cursor"))
       /\ points # <<>> => points[Len(points)].grid = m.last_grid /\ points[Len(points)].cursor <= at
       /\ m.warmup = "ready" => Len(points) >= w.warmup

ParametersOK(m) ==
    /\ m.tag = "rolling" => m.sum_squares >= 0
    /\ m.tag = "ar1" => 0 < m.phi /\ m.phi < One
    /\ m.tag = "state_space" =>
         /\ Len(m.mean) = 2 /\ Len(m.covariance) = 4
         /\ LET a == m.covariance[1]  b == m.covariance[2]  c == m.covariance[3]  d == m.covariance[4]
            IN a >= 0 /\ d >= 0 /\ b = c /\ a * d >= b * c

PredictionsOK(predictions, at) ==
    /\ IncreasingPairs(predictions, "generated_cursor", "identity")
    /\ \A i, j \in DOMAIN predictions : predictions[i].identity = predictions[j].identity => i = j
    /\ \A v \in Elements(predictions) :
         v.generated_cursor <= at /\ v.lower <= v.value /\ v.value <= v.upper

OpportunityOK(p, at) ==
    LET o == p.opportunity
    IN o.tag = "active" =>
         /\ o.pair = p.pair_ref /\ o.direction = p.direction /\ o.strategy = Strategy
         /\ o.trigger_sequence <= at /\ o.evaluations <= o.evaluation_limit
         /\ o.deadline.tag = "present"

\* a / b rounded up, for b > 0.
Ceil(a, b) == -((-a) \div b)
Larger(a, b) == IF a < b THEN b ELSE a

\* The cycle is in phase `ph', or was before it began to reconcile.
Behind(c, ph) ==
    \/ c.phase = ph
    \/ c.phase = "reconciling" /\ c.before_reconciling = ph

HoldingValue(plan) ==
    LET r == plan.holding_target.matched
    IN Larger(plan.absolute_minimum.atoms, Ceil(r.numerator * plan.entry_target.atoms, r.denominator))

EntryValue(plan) ==
    Larger(plan.absolute_minimum.atoms, Ceil(plan.reference_profit.atoms * plan.alpha_ppm, Million))

TargetOK(c, at) ==
    LET plan == c.plan  t == c.plan.holding_target
    IN /\ Behind(c, "holding") => t.tag = "frozen"
       /\ plan.reference_profit.asset = plan.entry_target.asset
       /\ plan.entry_target.asset = plan.absolute_minimum.asset
       /\ plan.entry_target.atoms > 0 /\ plan.absolute_minimum.atoms > 0
       /\ plan.entry_target.atoms = EntryValue(plan)
       /\ t.tag = "frozen" =>
            /\ t.freeze_cursor <= at
            /\ 0 <= t.matched.numerator /\ t.matched.numerator <= t.matched.denominator
            /\ t.value.asset = plan.reference_profit.asset /\ t.value.atoms > 0
            /\ t.value.atoms = HoldingValue(plan)

ExitOK(c) ==
    /\ c.first_exit.tag = c.first_exit_reason.tag
    /\ Behind(c, "exiting") => c.first_exit.tag = "present"
    /\ c.first_exit.tag = "present" => Behind(c, "exiting") \/ c.phase = "completed"

IntentsOK(c, nx) ==
    /\ IncreasingPairs(c.intents, "strategy", "sequence")
    /\ \A i \in Elements(c.intents) : i.strategy = Strategy /\ i.sequence < nx
    /\ c.phase = "completed" => \A i \in Elements(c.intents) : i.unknown = "no"

CycleOK(c, at, nx) == c.tag = "active" => TargetOK(c, at) /\ ExitOK(c) /\ IntentsOK(c, nx)

MonitorOK(p) ==
    /\ Increasing(p.monitor.reasons)
    /\ p.cycle.tag = "active" => Increasing(p.cycle.additional_reasons)
    /\ (p.monitor.health = "normal") = (p.monitor.reasons = <<>>)

Deadlines(p) ==
    {p.cooldown} \cup (IF p.opportunity = None THEN {} ELSE {p.opportunity.deadline})
    \cup (IF p.cycle = None THEN {} ELSE {p.cycle.times[t] : t \in Timer})

Given(maybe) == IF maybe.tag = "none" THEN {} ELSE {maybe.value}
Evidence(label) == IF label.tag = "pending" THEN {} ELSE {label.evidence}

\* Every reference of the pair, wherever it stands.
References(p) ==
    Elements(p.refs) \cup Given(p.model.last_input)
    \cup (UNION {IF d.tag = "none" THEN {} ELSE {d.start, d.clock} : d \in Deadlines(p)})
    \cup (UNION {Evidence(v.label) : v \in Elements(p.predictions)})
    \cup (IF p.opportunity = None THEN {} ELSE Given(p.opportunity.last_evaluation))
    \cup (IF p.cycle = None THEN {}
          ELSE Given(p.cycle.first_exit) \cup (UNION {Given(i.order) : i \in Elements(p.cycle.intents)}))

EvidenceOK(p, at) ==
    /\ \A r \in References(p) : r.cursor <= at
    /\ \A d \in Deadlines(p) :
         d.tag = "present" => d.utc_start_ns + d.duration_ns = d.utc_deadline_ns

PairOK(p, at, nx) ==
    /\ WindowOK(p.model, at) /\ ParametersOK(p.model) /\ PredictionsOK(p.predictions, at)
    /\ OpportunityOK(p, at) /\ CycleOK(p.cycle, at, nx) /\ MonitorOK(p) /\ EvidenceOK(p, at)

Valid(s, at, nx) ==
    /\ Root(s)
    /\ Increasing(Column(s.pairs, "pair_ref"))
    /\ s.input_identity <= at
    /\ \A p \in Elements(s.pairs) : PairOK(p, at, nx)
    /\ s.research.tag = "enabled" => s.research.used <= s.research.limit

-----------------------------------------------------------------------------
\* encode and decode.

Encodable(s, at, nx) == Valid(s, at, nx) /\ s.bytes <= MaxPayload

\* What json.loads refuses, or what encoding again would write otherwise.
Form == {"canonical", "reordered", "duplicate_field", "float", "long_integer"}

\* checkpoint_metadata: intents are numbered from 1.
Numbered(nx) == nx # 0

Decodable(s, f, at, nx) == Numbered(nx) /\ f = "canonical" /\ Encodable(s, at, nx)

\* encode_checkpoint decodes what it has made before it gives it away.
Storable(s, at, nx) == Encodable(s, at, nx) /\ Decodable(s, "canonical", at, nx)

Init ==
    /\ state \in Candidates /\ form = "canonical" /\ cursor \in 0..MaxCursor
    /\ \/ place = "host" /\ verdict = "own" /\ next \in 1..MaxNext
       \/ place = "file" /\ verdict = "foreign" /\ next \in 0..MaxNext

Running == place = "host" /\ verdict # "refused"

\* The host consumes an input or emits an intent; the strategy keeps its state.
Consume ==
    /\ Running /\ cursor < MaxCursor /\ cursor' = cursor + 1
    /\ UNCHANGED <<place, state, form, next, verdict>>

Emit ==
    /\ Running /\ next < MaxNext /\ next' = next + 1
    /\ UNCHANGED <<place, state, form, cursor, verdict>>

Checkpoint ==
    /\ Running
    /\ IF Storable(state, cursor, next)
       THEN place' = "file" /\ form' = "canonical" /\ verdict' = "written"
       ELSE verdict' = "refused" /\ UNCHANGED <<place, form>>
    /\ UNCHANGED <<state, cursor, next>>

\* Another program writes the same state into the file.
Rewrite ==
    /\ place = "file" /\ verdict # "refused"
    /\ form' \in Form \ {form} /\ verdict' = "foreign"
    /\ UNCHANGED <<place, state, cursor, next>>

\* Mutant of Restore: the last input is counted once more.
RestoreAhead ==
    /\ place = "file" /\ Decodable(state, form, cursor, next)
    /\ place' = "host" /\ verdict' = "restored" /\ cursor' = cursor + 1
    /\ UNCHANGED <<state, form, next>>

Restore ==
    /\ place = "file" /\ verdict # "refused"
    /\ IF Decodable(state, form, cursor, next)
       THEN place' = "host" /\ verdict' = "restored"
       ELSE verdict' = "refused" /\ UNCHANGED place
    /\ UNCHANGED <<state, form, cursor, next>>

Next == Consume \/ Emit \/ Checkpoint \/ Rewrite \/ Restore

Spec == Init /\ [][Next]_vars

-----------------------------------------------------------------------------
\* Properties.

TypeOK ==
    /\ place \in {"host", "file"} /\ form \in Form
    /\ cursor \in 0..MaxCursor /\ next \in 0..MaxNext
    /\ verdict \in {"own", "written", "foreign", "restored", "refused"}

\* A state that could be checkpointed can be at every later cursor and after
\* every further intent, as long as the strategy leaves it alone, and could be
\* restored there (encode_checkpoint, validate).
StaysAccepted ==
    [][Running /\ Storable(state, cursor, next) => Storable(state, cursor', next')]_vars

\* Two values along a sequence never meet.
Distinct(s) == \A i, j \in DOMAIN s : s[i] = s[j] => i = j

\* What the rules are for, of one pair: no observation, prediction or intent
\* twice and none from the future, a covariance that is one, and a target of
\* the holding between the absolute minimum and the target of the entry.
SoundPair(p) ==
    /\ Distinct(Column(p.model.window.observations, "grid"))
    /\ \A o \in Elements(p.model.window.observations) : o.cursor <= cursor
    /\ p.model.tag = "state_space" =>
         LET m == p.model.covariance
         IN \A x, y \in -2..2 : m[1] * x * x + (m[2] + m[3]) * x * y + m[4] * y * y >= 0
    /\ Distinct(Column(p.predictions, "identity"))
    /\ \A d \in Deadlines(p) : d # None => d.utc_start_ns < d.utc_deadline_ns /\ d.start.cursor <= cursor
    /\ p.cycle # None =>
         LET c == p.cycle  t == p.cycle.plan.holding_target
         IN /\ Distinct(Column(c.intents, "sequence"))
            /\ \A i \in Elements(c.intents) : i.sequence # next
            /\ t.tag = "frozen" =>
                 /\ c.plan.absolute_minimum.atoms <= t.value.atoms
                 /\ t.value.atoms <= c.plan.entry_target.atoms
                 /\ t.matched.numerator = t.matched.denominator => t.value = c.plan.entry_target
            /\ c.phase \in {"holding", "exiting"} => (c.phase = "exiting") = (c.first_exit # None)

\* What a host has written or restored is sound.
AcceptedIsSound ==
    verdict \in {"written", "restored"} =>
      /\ Distinct(Column(state.pairs, "pair_ref"))
      /\ \A p \in Elements(state.pairs) : SoundPair(p)
=============================================================================

------------------------ MODULE StrategyStateProofs ------------------------
(* What holds of the way of a private state through checkpoints for every set
   of states, every capacity and every bound: it is typed, and a state that is
   left alone never stops being acceptable while the host goes on.  The second
   is an induction on nothing: every rule that looks at the cursor or at the
   numbering bounds something from above, and the schema makes what it bounds a
   number.  The rest is about the rules: what they accept is sound. *)
EXTENDS StrategyState, WellFoundedInduction, TLAPS

-----------------------------------------------------------------------------
\* The types the schema gives to what the rules compare with the cursor and
\* with the numbering.

LEMMA WindowTyped ==
    ASSUME NEW p, Pair(p), p.model.window.observations # <<>>
    PROVE  LET points == p.model.window.observations IN points[Len(points)].cursor \in Nat
<1>1. p.model.window.observations \in Seq([grid: Nat, cursor: Nat])
    BY DEF Pair, Model, Window, Array
<1>2. ASSUME NEW S, NEW points \in Seq(S), points # <<>>
      PROVE  points[Len(points)] \in S
    BY <1>2
<1>3. p.model.window.observations[Len(p.model.window.observations)] \in [grid: Nat, cursor: Nat]
    BY <1>1, <1>2
<1> QED BY <1>3

LEMMA PredictionTyped ==
    ASSUME NEW p, Pair(p), NEW v \in Elements(p.predictions)
    PROVE  v \in Prediction
<1>1. p.predictions \in Seq(Prediction)
    BY DEF Pair, Array
<1> QED BY <1>1 DEF Elements

LEMMA IntentTyped ==
    ASSUME NEW p, Pair(p), p.cycle.tag = "active", NEW i \in Elements(p.cycle.intents)
    PROVE  i \in IntentRef
<1>1. Cycle(p.cycle) /\ p.cycle # None
    BY DEF Pair, None
<1>2. p.cycle.intents \in Seq(IntentRef)
    BY <1>1 DEF Cycle, Array
<1> QED BY <1>2 DEF Elements

LEMMA GivenTyped ==
    ASSUME NEW maybe \in MaybeRef, NEW r \in Given(maybe)
    PROVE  r \in Reference
BY DEF MaybeRef, Given, None

LEMMA DeadlineTyped ==
    ASSUME NEW p, Pair(p), NEW d \in Deadlines(p)
    PROVE  d \in Deadline
<1>1. CASE d = p.cooldown
    BY <1>1 DEF Pair
<1>2. CASE p.opportunity # None /\ d = p.opportunity.deadline
    BY <1>2 DEF Pair, Opportunity
<1>3. CASE p.cycle # None /\ \E t \in Timer : d = p.cycle.times[t]
    <2>1. p.cycle.times \in [Timer -> Deadline]
        BY <1>3 DEF Pair, Cycle
    <2> QED BY <1>3, <2>1
<1> QED BY <1>1, <1>2, <1>3 DEF Deadlines

LEMMA EvidenceTyped ==
    ASSUME NEW v \in Prediction, NEW r \in Evidence(v.label)
    PROVE  r \in Reference
BY DEF Prediction, Label, Evidence

LEMMA ReferenceTyped ==
    ASSUME NEW p, Pair(p), NEW r \in References(p)
    PROVE  r \in Reference
<1>1. CASE r \in Elements(p.refs)
    <2>1. p.refs \in Seq(Reference)
        BY DEF Pair
    <2> QED BY <1>1, <2>1 DEF Elements
<1>2. CASE r \in Given(p.model.last_input)
    <2>1. p.model.last_input \in MaybeRef
        BY DEF Pair, Model
    <2> QED BY <1>2, <2>1, GivenTyped
<1>3. CASE \E d \in Deadlines(p) : d.tag # "none" /\ r \in {d.start, d.clock}
    <2>1. PICK d \in Deadlines(p) : d.tag # "none" /\ r \in {d.start, d.clock}
        BY <1>3
    <2>2. d \in Deadline
        BY DeadlineTyped
    <2> QED BY <2>1, <2>2 DEF Deadline, None
<1>4. CASE \E v \in Elements(p.predictions) : r \in Evidence(v.label)
    BY <1>4, PredictionTyped, EvidenceTyped
<1>5. CASE p.opportunity # None /\ r \in Given(p.opportunity.last_evaluation)
    <2>1. p.opportunity.last_evaluation \in MaybeRef
        BY <1>5 DEF Pair, Opportunity
    <2> QED BY <1>5, <2>1, GivenTyped
<1>6. CASE p.cycle # None /\ r \in Given(p.cycle.first_exit)
    <2>1. p.cycle.first_exit \in MaybeRef
        BY <1>6 DEF Pair, Cycle
    <2> QED BY <1>6, <2>1, GivenTyped
<1>7. CASE p.cycle # None /\ \E i \in Elements(p.cycle.intents) : r \in Given(i.order)
    <2>1. PICK i \in Elements(p.cycle.intents) : r \in Given(i.order)
        BY <1>7
    <2>2. p.cycle.tag = "active"
        BY <1>7 DEF Pair, Cycle
    <2>3. i.order \in MaybeRef
        BY <2>2, IntentTyped DEF IntentRef
    <2> QED BY <2>1, <2>3, GivenTyped
<1> DEFINE ofDeadlines == UNION {IF d.tag = "none" THEN {} ELSE {d.start, d.clock} : d \in Deadlines(p)}
           ofLabels == UNION {Evidence(v.label) : v \in Elements(p.predictions)}
           ofOpportunity == IF p.opportunity = None THEN {} ELSE Given(p.opportunity.last_evaluation)
           ofIntents == UNION {Given(i.order) : i \in Elements(p.cycle.intents)}
           ofCycle == IF p.cycle = None THEN {} ELSE Given(p.cycle.first_exit) \cup ofIntents
<1>8. References(p) = Elements(p.refs) \cup Given(p.model.last_input) \cup ofDeadlines \cup ofLabels
                      \cup ofOpportunity \cup ofCycle
    BY DEF References
<1>9. r \in ofDeadlines => \E d \in Deadlines(p) : d.tag # "none" /\ r \in {d.start, d.clock}
    OBVIOUS
<1>10. r \in ofLabels => \E v \in Elements(p.predictions) : r \in Evidence(v.label)
    OBVIOUS
<1>11. r \in ofIntents => \E i \in Elements(p.cycle.intents) : r \in Given(i.order)
    OBVIOUS
<1>12. r \in ofOpportunity => p.opportunity # None /\ r \in Given(p.opportunity.last_evaluation)
    OBVIOUS
<1>13. r \in ofCycle => p.cycle # None /\ (r \in Given(p.cycle.first_exit) \/ r \in ofIntents)
    OBVIOUS
<1> HIDE DEF ofDeadlines, ofLabels, ofOpportunity, ofIntents, ofCycle
<1> QED BY <1>1, <1>2, <1>3, <1>4, <1>5, <1>6, <1>7, <1>8, <1>9, <1>10, <1>11, <1>12, <1>13

-----------------------------------------------------------------------------
\* Each rule that looks at the cursor or at the numbering, later.

LEMMA PairGrows ==
    ASSUME NEW p, Pair(p), NEW at \in Int, NEW later \in Int, at <= later,
           NEW nx \in Int, NEW further \in Int, nx <= further,
           PairOK(p, at, nx)
    PROVE  PairOK(p, later, further)
<1>1. WindowOK(p.model, later)
    BY WindowTyped DEF PairOK, WindowOK
<1>2. PredictionsOK(p.predictions, later)
    <2>1. \A v \in Elements(p.predictions) : v.generated_cursor \in Nat
        BY PredictionTyped DEF Prediction
    <2> QED BY <2>1 DEF PairOK, PredictionsOK
<1>3. OpportunityOK(p, later)
    <2>1. p.opportunity.tag = "active" => p.opportunity.trigger_sequence \in Positive
        BY DEF Pair, Opportunity, None
    <2> QED BY <2>1 DEF PairOK, OpportunityOK, Positive
<1>4. CycleOK(p.cycle, later, further)
    <2> SUFFICES ASSUME p.cycle.tag = "active"
                 PROVE  TargetOK(p.cycle, later) /\ ExitOK(p.cycle) /\ IntentsOK(p.cycle, further)
        BY DEF CycleOK
    <2>1. TargetOK(p.cycle, at) /\ ExitOK(p.cycle) /\ IntentsOK(p.cycle, nx)
        BY DEF PairOK, CycleOK
    <2>2. p.cycle.plan.holding_target.tag = "frozen" => p.cycle.plan.holding_target.freeze_cursor \in Nat
        BY DEF Pair, Cycle, Plan, Target, None
    <2>3. TargetOK(p.cycle, later)
        BY <2>1, <2>2 DEF TargetOK
    <2>4. \A i \in Elements(p.cycle.intents) : i.sequence \in Positive
        BY IntentTyped DEF IntentRef
    <2>5. IntentsOK(p.cycle, further)
        BY <2>1, <2>4 DEF IntentsOK, Positive
    <2> QED BY <2>1, <2>3, <2>5
<1>5. EvidenceOK(p, later)
    <2>1. \A r \in References(p) : r.cursor \in Nat
        BY ReferenceTyped DEF Reference
    <2> QED BY <2>1 DEF PairOK, EvidenceOK
<1> QED BY <1>1, <1>2, <1>3, <1>4, <1>5 DEF PairOK

LEMMA ValidGrows ==
    ASSUME NEW s, NEW at \in Int, NEW later \in Int, at <= later,
           NEW nx \in Int, NEW further \in Int, nx <= further,
           Valid(s, at, nx)
    PROVE  Valid(s, later, further)
<1>1. \A p \in Elements(s.pairs) : Pair(p)
    BY DEF Valid, Root, Elements
<1>2. \A p \in Elements(s.pairs) : PairOK(p, later, further)
    BY <1>1, PairGrows DEF Valid
<1>3. s.input_identity \in Nat
    BY DEF Valid, Root
<1> QED BY <1>2, <1>3 DEF Valid

LEMMA EncodableGrows ==
    ASSUME NEW s, NEW at \in Int, NEW later \in Int, at <= later,
           NEW nx \in Int, NEW further \in Int, nx <= further,
           Encodable(s, at, nx)
    PROVE  Encodable(s, later, further)
BY ValidGrows DEF Encodable

LEMMA StorableGrows ==
    ASSUME NEW s, NEW at \in Int, NEW later \in Int, at <= later,
           NEW nx \in Nat, NEW further \in Nat, nx <= further,
           Storable(s, at, nx)
    PROVE  Storable(s, later, further)
<1>1. Encodable(s, later, further)
    BY EncodableGrows DEF Storable
<1>2. Numbered(further)
    BY DEF Storable, Decodable, Numbered
<1> QED BY <1>1, <1>2 DEF Storable, Decodable

-----------------------------------------------------------------------------
\* Every variable keeps its type, for every set of candidate states.
THEOREM TypeCorrect == Spec => []TypeOK
<1>1. Init => TypeOK
    BY DEF Init, TypeOK, Form
<1>2. TypeOK /\ [Next]_vars => TypeOK'
    <2> SUFFICES ASSUME TypeOK, [Next]_vars PROVE TypeOK'
        OBVIOUS
    <2> USE BoundsAssumption DEF TypeOK, Form
    <2>1. CASE Consume
        BY <2>1 DEF Consume
    <2>2. CASE Emit
        BY <2>2 DEF Emit
    <2>3. CASE Checkpoint
        BY <2>3 DEF Checkpoint
    <2>4. CASE Rewrite
        BY <2>4 DEF Rewrite
    <2>5. CASE Restore
        BY <2>5 DEF Restore
    <2>6. CASE UNCHANGED vars
        BY <2>6 DEF vars
    <2> QED BY <2>1, <2>2, <2>3, <2>4, <2>5, <2>6 DEF Next
<1> QED BY <1>1, <1>2, PTL DEF Spec

\* A state that `validate' accepts, and that the strategy leaves alone, is
\* accepted at every later cursor and after every further intent: a host never
\* loses the ability to write its checkpoint by consuming and emitting, and what
\* it writes can be restored.
THEOREM AcceptanceLasts == Spec => StaysAccepted
<1>1. TypeOK /\ [Next]_vars
          => [Running /\ Storable(state, cursor, next) => Storable(state, cursor', next')]_vars
    <2> SUFFICES ASSUME TypeOK, Next, Running, Storable(state, cursor, next)
                 PROVE  Storable(state, cursor', next')
        BY DEF vars
    <2>1. cursor \in Int /\ next \in Nat
        BY BoundsAssumption DEF TypeOK
    <2>2. /\ cursor' \in Int /\ cursor <= cursor'
          /\ next' \in Nat /\ next <= next'
        BY <2>1 DEF Next, Consume, Emit, Checkpoint, Rewrite, Restore
    <2> QED BY <2>1, <2>2, StorableGrows
<1> QED BY <1>1, TypeCorrect, PTL DEF Spec, StaysAccepted

-----------------------------------------------------------------------------
(* The rules of `validate' compare neighbours, round by integer division and
   test a determinant.  What they are for is global: no two elements alike, a
   target inside its bounds, a form that is nowhere negative.  The proofs here
   close that distance for sequences of every length and numbers of every size,
   where TLC looks at short ones. *)

\* A set of numbers that is not empty has a least one.
LEMMA LeastNumber ==
    ASSUME NEW T, T \subseteq Nat, T # {}
    PROVE  \E n \in T : \A m \in T : n <= m
<1>1. IsWellFoundedOn(OpToRel(<, Nat), Nat)
    BY NatLessThanWellFounded
<1>2. PICK n \in T : \A m \in T : <<m, n>> \notin OpToRel(<, Nat)
    BY <1>1, WFMin
<1>3. \A m \in T : ~(m < n)
    BY <1>2 DEF OpToRel
<1> QED BY <1>3

\* Sequences whose neighbours increase.

\* ordered_unique looks at neighbours; it orders any two elements.  The least
\* element that fails has a predecessor that does not.
LEMMA IncreasingEverywhere ==
    ASSUME NEW s \in Seq(Int), Increasing(s)
    PROVE  \A i, j \in 1..Len(s) : i < j => s[i] < s[j]
<1> SUFFICES ASSUME NEW i \in 1..Len(s), NEW k \in 1..Len(s), i < k, ~(s[i] < s[k])
             PROVE  FALSE
    OBVIOUS
<1> DEFINE T == {j \in 1..Len(s) : i < j /\ ~(s[i] < s[j])}
<1>1. T \subseteq Nat
    OBVIOUS
<1>2. k \in T
    OBVIOUS
<1>3. \A j \in 1..Len(s) : j \in T <=> i < j /\ ~(s[i] < s[j])
    OBVIOUS
<1>4. T \subseteq 1..Len(s)
    OBVIOUS
<1> HIDE DEF T
<1>5. PICK j \in T : \A m \in T : j <= m
    BY <1>1, <1>2, LeastNumber
<1>6. /\ j \in 1..Len(s) /\ i < j /\ ~(s[i] < s[j])
      /\ j - 1 \in 1..Len(s) /\ i <= j - 1 /\ j - 1 < j
    BY <1>3, <1>4
<1>7. s[j - 1] < s[j]
    <2>1. j - 1 \in 1..Len(s) - 1 /\ (j - 1) + 1 = j
        BY <1>6
    <2> QED BY <2>1 DEF Increasing
<1>8. j - 1 \notin T
    BY <1>5, <1>6
<1>9. s[i] \in Int /\ s[j - 1] \in Int /\ s[j] \in Int
    BY <1>6
<1>10. s[i] <= s[j - 1]
    BY <1>3, <1>6, <1>8, <1>9
<1> QED BY <1>6, <1>7, <1>9, <1>10

\* Hence no value stands twice.
LEMMA IncreasingDistinct ==
    ASSUME NEW s \in Seq(Int), Increasing(s)
    PROVE  Distinct(s)
<1> SUFFICES ASSUME NEW i \in 1..Len(s), NEW j \in 1..Len(s), s[i] = s[j], i # j
             PROVE  FALSE
    BY DEF Distinct
<1>1. s[i] \in Int
    OBVIOUS
<1> QED BY <1>1, IncreasingEverywhere

\* A column of integers is a sequence of integers, element by element.
LEMMA ColumnTyped ==
    ASSUME NEW S, NEW s \in Seq(S), NEW field, \A x \in S : x[field] \in Int
    PROVE  /\ Column(s, field) \in Seq(Int)
           /\ Len(Column(s, field)) = Len(s)
           /\ \A i \in 1..Len(s) : Column(s, field)[i] = s[i][field]
BY DEF Column

-----------------------------------------------------------------------------
\* Numbers.

\* Rounding up a quotient does not pass an integer bound on it.
LEMMA CeilBounds ==
    ASSUME NEW a \in Int, NEW b \in Nat \ {0}, NEW c \in Int, a <= c * b
    PROVE  Ceil(a, b) \in Int /\ Ceil(a, b) <= c
<1>1. (-c) * b <= -a
    OBVIOUS
<1>2. -c <= (-a) \div b /\ (-a) \div b \in Int
    BY <1>1
<1> QED BY <1>2 DEF Ceil

\* Rounding up does not move an integer.
LEMMA CeilExact ==
    ASSUME NEW a \in Int, NEW b \in Nat \ {0}
    PROVE  Ceil(b * a, b) = a
<1>1. (-(b * a)) \div b = -a
    OBVIOUS
<1> QED BY <1>1 DEF Ceil

\* A fraction of at most one does not enlarge what it scales.
LEMMA Scaled ==
    ASSUME NEW n \in Int, NEW d \in Int, NEW e \in Int, 0 <= n, n <= d, 0 < e
    PROVE  n * e <= e * d
OBVIOUS

\* A square is not negative.
LEMMA Square ==
    ASSUME NEW x \in Int
    PROVE  x * x >= 0
OBVIOUS

\* A matrix with diagonal and determinant not negative is positive semidefinite:
\* a times the form is a sum of a square and of the determinant times a square.
LEMMA Semidefinite ==
    ASSUME NEW a \in Int, NEW b \in Int, NEW d \in Int, a >= 0, d >= 0, a * d >= b * b,
           NEW x \in Int, NEW y \in Int
    PROVE  a * x * x + (b + b) * x * y + d * y * y >= 0
<1> DEFINE q == a * x * x + (b + b) * x * y + d * y * y
<1>1. CASE a = 0
    <2>1. b * b <= 0 
        BY <1>1
    <2>2. b = 0
        BY <2>1
    <2>3. d * (y * y) >= 0
        BY Square
    <2> QED BY <1>1, <2>2, <2>3
<1>2. CASE a > 0
    <2>1. a * q = (a * x + b * y) * (a * x + b * y) + (a * d - b * b) * (y * y)
        OBVIOUS
    <2>2. (a * d - b * b) * (y * y) >= 0
        BY Square
    <2>3. (a * x + b * y) * (a * x + b * y) >= 0
        BY Square
    <2>4. a * q >= 0 /\ q \in Int
        BY <2>1, <2>2, <2>3
    <2> HIDE DEF q
    <2>5. q >= 0
        BY <1>2, <2>4
    <2> QED BY <2>5 DEF q
<1> QED BY <1>1, <1>2

-----------------------------------------------------------------------------
\* Each part of a pair.

\* No observation stands twice, and none is from the future: the last one is not.
LEMMA ObservationsSound ==
    ASSUME NEW m, Model(m), NEW at \in Int, WindowOK(m, at)
    PROVE  /\ Distinct(Column(m.window.observations, "grid"))
           /\ \A o \in Elements(m.window.observations) : o.cursor <= at
<1> DEFINE points == m.window.observations
           cursors == Column(points, "cursor")
<1>1. points \in Seq([grid: Nat, cursor: Nat])
    BY DEF Model, Window, Array
<1>2. \A x \in [grid: Nat, cursor: Nat] : x["grid"] \in Int /\ x["cursor"] \in Int
    OBVIOUS
<1>3. Increasing(Column(points, "grid")) /\ Increasing(cursors)
    BY DEF WindowOK
<1>4. points # <<>> => points[Len(points)].cursor <= at
    BY DEF WindowOK
<1> HIDE DEF points
<1>5. Column(points, "grid") \in Seq(Int)
    BY <1>1, <1>2, ColumnTyped
<1>6. Distinct(Column(points, "grid"))
    BY <1>3, <1>5, IncreasingDistinct
<1>7. /\ cursors \in Seq(Int) /\ Len(cursors) = Len(points)
      /\ \A i \in 1..Len(points) : cursors[i] = points[i].cursor
    <2>1. cursors \in Seq(Int)
        BY <1>1, <1>2, ColumnTyped
    <2>2. Len(cursors) = Len(points)
        BY <1>1, <1>2, ColumnTyped
    <2>3. \A i \in 1..Len(points) : cursors[i] = points[i].cursor
        BY <1>1 DEF Column
    <2> QED BY <2>1, <2>2, <2>3
<1> HIDE DEF cursors
<1>8. ASSUME NEW o \in Elements(points)
      PROVE  o.cursor <= at
    <2>1. PICK i \in 1..Len(points) : o = points[i]
        BY <1>1 DEF Elements
    <2>2. Len(points) \in 1..Len(points) /\ points # <<>>
        BY <1>1, <2>1
    <2>3. cursors[i] \in Int /\ cursors[Len(points)] \in Int
        BY <1>7, <2>1, <2>2
    <2>4. cursors[i] <= cursors[Len(points)]
        <3>1. CASE i = Len(points)
            BY <2>3, <3>1
        <3>2. CASE i # Len(points)
            <4>1. i < Len(points)
                BY <2>1, <3>2, <1>1
            <4>2. cursors[i] < cursors[Len(points)]
                BY <1>3, <1>7, <2>1, <2>2, <4>1, IncreasingEverywhere
            <4> QED BY <2>3, <4>2
        <3> QED BY <3>1, <3>2
    <2>5. cursors[i] = o.cursor /\ cursors[Len(points)] = points[Len(points)].cursor
        BY <1>7, <2>1, <2>2
    <2> QED BY <1>4, <2>2, <2>3, <2>4, <2>5
<1> QED BY <1>6, <1>8 DEF points

\* The covariance of a state-space model is positive semidefinite.
LEMMA CovarianceSound ==
    ASSUME NEW m, Model(m), ParametersOK(m), m.tag = "state_space", NEW x \in Int, NEW y \in Int
    PROVE  LET c == m.covariance
           IN c[1] * x * x + (c[2] + c[3]) * x * y + c[4] * y * y >= 0
<1> DEFINE c == m.covariance
<1>1. c \in Seq(Int) /\ Len(c) = 4
    BY DEF Model, ParametersOK
<1>2. c[1] >= 0 /\ c[4] >= 0 /\ c[2] = c[3] /\ c[1] * c[4] >= c[2] * c[3]
    BY DEF ParametersOK
<1>3. c[1] \in Int /\ c[2] \in Int /\ c[3] \in Int /\ c[4] \in Int
    BY <1>1
<1> HIDE DEF c
<1>4. c[1] * x * x + (c[2] + c[2]) * x * y + c[4] * y * y >= 0
    BY <1>2, <1>3, Semidefinite
<1> QED BY <1>2, <1>4 DEF c

\* A deadline lies after its start, and its start is not in the future.
LEMMA DeadlineSound ==
    ASSUME NEW p, Pair(p), NEW at \in Int, EvidenceOK(p, at), NEW d \in Deadlines(p), d # None
    PROVE  d.utc_start_ns < d.utc_deadline_ns /\ d.start.cursor <= at
<1>1. d \in Deadline
    BY DeadlineTyped
<1>2. d.tag = "present" /\ d.utc_start_ns \in Nat /\ d.duration_ns \in Positive /\ d.utc_deadline_ns \in Nat
    BY <1>1 DEF Deadline
<1>3. d.utc_start_ns + d.duration_ns = d.utc_deadline_ns
    BY <1>2 DEF EvidenceOK
<1>4. d.start \in References(p)
    <2> DEFINE ofDeadlines == UNION {IF e.tag = "none" THEN {} ELSE {e.start, e.clock} : e \in Deadlines(p)}
    <2>1. d.start \in ofDeadlines
        BY <1>2
    <2>2. ofDeadlines \subseteq References(p)
        BY DEF References
    <2> QED BY <2>1, <2>2
<1>5. d.start.cursor <= at
    BY <1>4 DEF EvidenceOK
<1> QED BY <1>2, <1>3, <1>5 DEF Positive

\* The target of the holding lies between the absolute minimum and the target of
\* the entry, and is the target of the entry once everything matched.
LEMMA TargetSound ==
    ASSUME NEW c, Plan(c.plan), NEW at \in Int, TargetOK(c, at), c.plan.holding_target.tag = "frozen"
    PROVE  LET t == c.plan.holding_target
           IN /\ c.plan.absolute_minimum.atoms <= t.value.atoms
              /\ t.value.atoms <= c.plan.entry_target.atoms
              /\ t.matched.numerator = t.matched.denominator => t.value = c.plan.entry_target
<1> DEFINE n == c.plan.holding_target.matched.numerator
           d == c.plan.holding_target.matched.denominator
           e == c.plan.entry_target.atoms
           a == c.plan.absolute_minimum.atoms
           v == c.plan.holding_target.value
           whole == Ceil(c.plan.reference_profit.atoms * c.plan.alpha_ppm, Million)
<1>1. /\ n \in Int /\ d \in Nat \ {0} /\ e \in Int /\ a \in Int
      /\ v \in Money /\ c.plan.entry_target \in Money
    BY DEF Plan, Target, Rational, Money, Positive
<1>2. /\ 0 < e /\ 0 < a /\ 0 <= n /\ n <= d
      /\ v.asset = c.plan.entry_target.asset
      /\ v.atoms = Larger(a, Ceil(n * e, d)) /\ e = Larger(a, whole)
    BY DEF TargetOK, HoldingValue, EntryValue
<1>3. whole \in Int
    <2>1. c.plan.reference_profit.atoms \in Int /\ c.plan.alpha_ppm \in Int /\ Million \in Nat \ {0}
        BY BoundsAssumption DEF Plan, Money
    <2>2. c.plan.reference_profit.atoms * c.plan.alpha_ppm \in Int
        BY <2>1
    <2> QED BY <2>1, <2>2 DEF Ceil
<1> HIDE DEF n, d, e, a, v, whole
<1>4. n * e \in Int /\ n * e <= e * d
    BY <1>1, <1>2, Scaled
<1>5. Ceil(n * e, d) \in Int /\ Ceil(n * e, d) <= e
    BY <1>1, <1>4, CeilBounds
<1>6. a <= e
    BY <1>1, <1>2, <1>3 DEF Larger
<1>7. a <= v.atoms /\ v.atoms <= e
    BY <1>1, <1>2, <1>5, <1>6 DEF Larger
<1>8. ASSUME n = d PROVE v = c.plan.entry_target
    <2>1. Ceil(n * e, d) = e
        BY <1>1, <1>8, CeilExact
    <2>2. v.atoms = e
        BY <1>1, <1>2, <1>6, <2>1 DEF Larger
    <2> QED BY <1>1, <1>2, <2>2 DEF Money, e
<1> QED BY <1>7, <1>8 DEF n, d, e, a, v

\* No intent stands twice, and none has the number of the next one.
LEMMA IntentsSound ==
    ASSUME NEW c, c.intents \in Seq(IntentRef), NEW nx \in Int, IntentsOK(c, nx)
    PROVE  /\ Distinct(Column(c.intents, "sequence"))
           /\ \A i \in Elements(c.intents) : i.sequence # nx
<1> DEFINE sequences == Column(c.intents, "sequence")
<1>1. \A x \in IntentRef : x["sequence"] \in Int
    BY DEF IntentRef, Positive
<1>2. /\ sequences \in Seq(Int) /\ Len(sequences) = Len(c.intents)
      /\ \A i \in 1..Len(c.intents) : sequences[i] = c.intents[i].sequence
    BY <1>1, ColumnTyped
<1>3. \A i \in 1..Len(c.intents) : c.intents[i] \in IntentRef /\ c.intents[i].strategy = Strategy
    BY DEF IntentsOK, Elements
<1> HIDE DEF sequences
<1>4. Increasing(sequences)
    <2> SUFFICES ASSUME NEW i \in 1..Len(c.intents) - 1
                 PROVE  sequences[i] < sequences[i + 1]
        BY <1>2 DEF Increasing
    <2>1. i \in 1..Len(c.intents) /\ i + 1 \in 1..Len(c.intents)
        OBVIOUS
    <2>2. c.intents[i].strategy = c.intents[i + 1].strategy /\ c.intents[i].strategy \in Int
        BY <1>3, <2>1 DEF IntentRef, Positive
    <2>3. c.intents[i].sequence < c.intents[i + 1].sequence
        BY <2>2 DEF IntentsOK, IncreasingPairs
    <2> QED BY <1>2, <2>1, <2>3
<1>5. Distinct(sequences)
    BY <1>2, <1>4, IncreasingDistinct
<1>6. \A i \in Elements(c.intents) : i \in IntentRef
    BY <1>3 DEF Elements
<1>7. \A i \in Elements(c.intents) : i.sequence \in Int
    BY <1>6 DEF IntentRef, Positive
<1>8. \A i \in Elements(c.intents) : i.sequence < nx
    BY DEF IntentsOK
<1> QED BY <1>5, <1>7, <1>8 DEF sequences

\* A pair that passes the rules is sound.
LEMMA PairSound ==
    ASSUME cursor \in Int, next \in Int, NEW p, Pair(p), PairOK(p, cursor, next)
    PROVE  SoundPair(p)
<1>1. /\ Distinct(Column(p.model.window.observations, "grid"))
      /\ \A o \in Elements(p.model.window.observations) : o.cursor <= cursor
    BY ObservationsSound DEF Pair, PairOK
<1>2. p.model.tag = "state_space" =>
        LET m == p.model.covariance
        IN \A x, y \in -2..2 : m[1] * x * x + (m[2] + m[3]) * x * y + m[4] * y * y >= 0
    <2> SUFFICES ASSUME p.model.tag = "state_space", NEW x \in -2..2, NEW y \in -2..2
                 PROVE  LET m == p.model.covariance
                        IN m[1] * x * x + (m[2] + m[3]) * x * y + m[4] * y * y >= 0
        OBVIOUS
    <2>1. Model(p.model) /\ ParametersOK(p.model) /\ x \in Int /\ y \in Int
        BY DEF Pair, PairOK
    <2> QED BY <2>1, CovarianceSound
<1>3. Distinct(Column(p.predictions, "identity"))
    BY DEF PairOK, PredictionsOK, Distinct, Column
<1>4. \A d \in Deadlines(p) : d # None => d.utc_start_ns < d.utc_deadline_ns /\ d.start.cursor <= cursor
    BY DeadlineSound DEF PairOK
<1>5. ASSUME p.cycle # None
      PROVE  LET c == p.cycle  t == p.cycle.plan.holding_target
             IN /\ Distinct(Column(c.intents, "sequence"))
                /\ \A i \in Elements(c.intents) : i.sequence # next
                /\ t.tag = "frozen" =>
                     /\ c.plan.absolute_minimum.atoms <= t.value.atoms
                     /\ t.value.atoms <= c.plan.entry_target.atoms
                     /\ t.matched.numerator = t.matched.denominator => t.value = c.plan.entry_target
                /\ c.phase \in {"holding", "exiting"} => (c.phase = "exiting") = (c.first_exit # None)
    <2>1. /\ p.cycle.tag = "active" /\ Plan(p.cycle.plan) /\ p.cycle.intents \in Seq(IntentRef)
          /\ p.cycle.first_exit \in MaybeRef
        BY <1>5 DEF Pair, Cycle, Array
    <2>2. TargetOK(p.cycle, cursor) /\ ExitOK(p.cycle) /\ IntentsOK(p.cycle, next)
        BY <2>1 DEF PairOK, CycleOK
    <2>3. /\ Distinct(Column(p.cycle.intents, "sequence"))
          /\ \A i \in Elements(p.cycle.intents) : i.sequence # next
        BY <2>1, <2>2, IntentsSound
    <2>4. p.cycle.plan.holding_target.tag = "frozen" =>
            LET c == p.cycle  t == p.cycle.plan.holding_target
            IN /\ c.plan.absolute_minimum.atoms <= t.value.atoms
               /\ t.value.atoms <= c.plan.entry_target.atoms
               /\ t.matched.numerator = t.matched.denominator => t.value = c.plan.entry_target
        BY <2>1, <2>2, TargetSound
    <2>5. p.cycle.phase \in {"holding", "exiting"} => (p.cycle.phase = "exiting") = (p.cycle.first_exit # None)
        <3>1. p.cycle.first_exit # None <=> p.cycle.first_exit.tag = "present"
            BY <2>1 DEF MaybeRef, None
        <3> QED BY <2>2, <3>1 DEF ExitOK, Behind
    <2> QED BY <2>3, <2>4, <2>5
<1> QED BY <1>1, <1>2, <1>3, <1>4, <1>5 DEF SoundPair

\* No pair stands twice.
LEMMA PairsDistinct ==
    ASSUME NEW s, Root(s), Increasing(Column(s.pairs, "pair_ref"))
    PROVE  Distinct(Column(s.pairs, "pair_ref"))
<1>1. s.pairs \in Seq(Elements(s.pairs))
    BY DEF Root, Array
<1>2. \A x \in Elements(s.pairs) : x["pair_ref"] \in Int
    BY DEF Root, Pair, Positive
<1>3. Column(s.pairs, "pair_ref") \in Seq(Int)
    BY <1>1, <1>2, ColumnTyped
<1> QED BY <1>3, IncreasingDistinct

\* The strengthening: a state that a host has written or restored, and has not
\* refused since, satisfies the rules at the cursor of this moment.
Accepted == verdict \in {"written", "restored"} => Encodable(state, cursor, next)

\* Whatever the strategy's code produced: what a host has written or restored is
\* sound when it does so, and still is after every input and intent since.
THEOREM SoundnessKept == Spec => []AcceptedIsSound
<1>1. Init => Accepted
    BY DEF Init, Accepted
<1>2. TypeOK /\ Accepted /\ [Next]_vars => Accepted'
    <2> SUFFICES ASSUME TypeOK, Accepted, [Next]_vars, (verdict \in {"written", "restored"})'
                 PROVE  Encodable(state, cursor, next)'
        BY DEF Accepted
    <2> USE DEF Accepted
    <2>1. cursor \in Int /\ next \in Int
        BY BoundsAssumption DEF TypeOK
    <2>2. CASE Consume \/ Emit
        <3>1. /\ Encodable(state, cursor, next) /\ state' = state
              /\ cursor' \in Int /\ cursor <= cursor' /\ next' \in Int /\ next <= next'
            BY <2>1, <2>2 DEF Consume, Emit
        <3> QED BY <2>1, <3>1, EncodableGrows
    <2>3. CASE Checkpoint
        BY <2>3 DEF Checkpoint, Storable
    <2>4. CASE Rewrite
        BY <2>4 DEF Rewrite
    <2>5. CASE Restore
        BY <2>5 DEF Restore, Decodable
    <2>6. CASE UNCHANGED vars
        BY <2>6 DEF vars
    <2> QED BY <2>2, <2>3, <2>4, <2>5, <2>6 DEF Next
<1>3. TypeOK /\ Accepted => AcceptedIsSound
    <2> SUFFICES ASSUME TypeOK, Encodable(state, cursor, next)
                 PROVE  /\ Distinct(Column(state.pairs, "pair_ref"))
                        /\ \A p \in Elements(state.pairs) : SoundPair(p)
        BY DEF Accepted, AcceptedIsSound
    <2>1. cursor \in Int /\ next \in Int
        BY BoundsAssumption DEF TypeOK
    <2>2. /\ Root(state) /\ Increasing(Column(state.pairs, "pair_ref"))
          /\ \A p \in Elements(state.pairs) : PairOK(p, cursor, next)
        BY DEF Encodable, Valid
    <2>3. \A p \in Elements(state.pairs) : Pair(p)
        BY <2>2 DEF Root
    <2> QED BY <2>1, <2>2, <2>3, PairSound, PairsDistinct
<1> QED BY <1>1, <1>2, <1>3, TypeCorrect, PTL DEF Spec
=============================================================================

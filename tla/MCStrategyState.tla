-------------------------- MODULE MCStrategyState --------------------------
(* The states TLC tries: a base state, and every state that differs from it in
   one part of its pair. *)
EXTENDS StrategyState

Ref(at) == [identity |-> 1, version |-> 1, cursor |-> at]
Some(at) == [tag |-> "present", value |-> Ref(at)]
Euro(n) == [asset |-> 1, atoms |-> n]
Clock(at, start, end) ==
    [tag |-> "present", start |-> Ref(at), clock |-> Ref(0),
     utc_start_ns |-> start, duration_ns |-> 1, utc_deadline_ns |-> end]

BasePlan ==
    [reference_profit |-> Euro(3), entry_target |-> Euro(3), absolute_minimum |-> Euro(1),
     alpha_ppm |-> Million, holding_target |-> [tag |-> "pending"]]
BaseCycle ==
    [tag |-> "active", phase |-> "entering", before_reconciling |-> "entering", plan |-> BasePlan,
     intents |-> <<>>, first_exit |-> None, first_exit_reason |-> None,
     additional_reasons |-> <<>>, times |-> [t \in Timer |-> None]]
Rolling(points, last, cap, need, warm) ==
    [tag |-> "rolling", warmup |-> warm, last_grid |-> last, last_input |-> None, sum_squares |-> 0,
     window |-> [capacity |-> cap, warmup |-> need, observations |-> points]]
BasePair ==
    [pair_ref |-> 1, direction |-> "long_first", model |-> Rolling(<<>>, 0, 2, 1, "cold"),
     monitor |-> [health |-> "normal", reasons |-> <<>>], cycle |-> BaseCycle,
     opportunity |-> None, cooldown |-> None, predictions |-> <<>>, refs |-> <<>>]

UpTo(S, n) == UNION {[1..k -> S] : k \in 0..n}

Windows ==
    {Rolling(points, last, cap, need, warm) :
       points \in UpTo([grid: {1, 2}, cursor: 0..2], 2), last \in {0, 2}, cap \in 1..2,
       need \in 1..2, warm \in {"warming", "ready"}}
Parameters ==
    {[BasePair.model EXCEPT !.sum_squares = n] : n \in -1..1}
    \cup {[tag |-> "ar1", phi |-> n, warmup |-> "cold", last_grid |-> 0, last_input |-> Some(1),
           window |-> BasePair.model.window] : n \in 0..One}
    \cup {[tag |-> "state_space", mean |-> <<0, 0>>, covariance |-> m, warmup |-> "cold",
           last_grid |-> 0, last_input |-> None, window |-> BasePair.model.window] :
           m \in UpTo(-1..2, 4) \ UpTo(-1..2, 2)}
Predictions ==
    UpTo([identity: 1..2, generated_cursor: 0..2, value: {0}, lower: {0}, upper: {-1, 0},
          label: {[tag |-> "pending"], [tag |-> "missing", evidence |-> Ref(2)]}], 2)
Intents == UpTo([strategy: {Strategy, Strategy + 1}, sequence: 1..3, order: {None, Some(2)}, unknown: {"yes", "no"}], 2)
Targets ==
    {[tag |-> "pending"]} \cup
    {[tag |-> "frozen", matched |-> [numerator |-> n, denominator |-> d], value |-> Euro(v), freeze_cursor |-> at] :
       n \in -1..4, d \in 1..3, v \in 0..4, at \in {0, 2}}
Plans ==
    {[reference_profit |-> Euro(r), entry_target |-> Euro(e), absolute_minimum |-> Euro(a),
      alpha_ppm |-> ppm, holding_target |-> [tag |-> "pending"]] :
       r \in -1..3, e \in 0..3, a \in 0..2, ppm \in {0, Million \div 2, Million}}
    \cup {[BasePlan EXCEPT !.holding_target = t] : t \in Targets}
Cycles ==
    {None}
    \cup {[BaseCycle EXCEPT !.plan = p, !.phase = ph] : p \in Plans, ph \in {"entering", "holding"}}
    \cup {[BaseCycle EXCEPT !.plan.holding_target =
             [tag |-> "frozen", matched |-> [numerator |-> 1, denominator |-> 1], value |-> Euro(3), freeze_cursor |-> 0],
           !.phase = ph, !.before_reconciling = b, !.first_exit = f, !.first_exit_reason = r] :
             ph \in Phase, b \in {"holding", "exiting"}, f \in {None, Some(1)},
             r \in {None, [tag |-> "present", value |-> 1]}}
    \cup {[BaseCycle EXCEPT !.intents = i, !.phase = ph] : i \in Intents, ph \in {"entering", "completed"}}
    \cup {[BaseCycle EXCEPT !.times.holding = d, !.additional_reasons = r] :
             d \in {None, Clock(0, 1, 2), Clock(2, 1, 2), Clock(0, 2, 2)}, r \in UpTo(1..2, 2)}
Opportunities ==
    [tag: {"active"}, strategy: {Strategy, Strategy + 1}, pair: 1..2, direction: {"long_first", "short_first"},
     trigger_sequence: 1..2, deadline: {None, Clock(1, 1, 2)}, evaluations: 0..1,
     evaluation_limit: {0}, last_evaluation: {None, Some(2)}]
Monitors == [health: {"normal", "warning"}, reasons: UpTo(1..2, 2)]

Pairs ==
    {[BasePair EXCEPT !.model = m] : m \in Windows \cup Parameters}
    \cup {[BasePair EXCEPT !.predictions = v] : v \in Predictions}
    \cup {[BasePair EXCEPT !.cycle = c] : c \in Cycles}
    \cup {[BasePair EXCEPT !.opportunity = o] : o \in Opportunities}
    \cup {[BasePair EXCEPT !.monitor = m] : m \in Monitors}
    \cup {[BasePair EXCEPT !.cooldown = d, !.refs = r] :
            d \in {None, Clock(2, 1, 2)}, r \in UpTo({Ref(1), Ref(3)}, 1)}

Whole(pairs, input, research, bytes) ==
    [input_identity |-> input, pairs |-> pairs, research |-> research, bytes |-> bytes]
MCCandidates ==
    {Whole(<<p>>, 0, None, 1) : p \in Pairs}
    \cup {Whole(<<[BasePair EXCEPT !.pair_ref = a], [BasePair EXCEPT !.pair_ref = b]>>, input, research, bytes) :
            a \in 1..2, b \in 1..2, input \in 0..2, bytes \in {1, MaxPayload + 1},
            research \in {None} \cup [tag: {"enabled"}, used: 0..1, limit: {0}]}
MCCapacity == [observations |-> 2, reasons |-> 2, predictions |-> 2, intents |-> 2, pairs |-> 2]
=============================================================================

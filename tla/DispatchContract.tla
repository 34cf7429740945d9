-------------------------- MODULE DispatchContract --------------------------
(***************************************************************************)
(* What the execution gateway promises its callers about one order command, *)
(* without a word about journals, snapshots, crashes or archives: it is     *)
(* handed to the venue at most once, an answer is given at most once, and   *)
(* an answered command is never handed over any more.                      *)
(***************************************************************************)
EXTENDS Naturals

CONSTANT Command

VARIABLES wire,    \* how often each command was handed to the venue adapter
          answer   \* the durable answer given: "none", "accepted", "uncertain" (settled)

Init == wire = [c \in Command |-> 0] /\ answer = [c \in Command |-> "none"]

Send(c) ==
    /\ wire[c] = 0 /\ answer[c] = "none"
    /\ wire' = [wire EXCEPT ![c] = 1]
    /\ UNCHANGED answer

Accept(c) ==
    /\ wire[c] = 1 /\ answer[c] = "none"
    /\ answer' = [answer EXCEPT ![c] = "accepted"]
    /\ UNCHANGED wire

\* A reconciliation settles a command whose hand-over was left in doubt,
\* whether it happened or not.
Settle(c) ==
    /\ answer[c] = "none"
    /\ answer' = [answer EXCEPT ![c] = "uncertain"]
    /\ UNCHANGED wire

Next == \E c \in Command : Send(c) \/ Accept(c) \/ Settle(c)

Spec == Init /\ [][Next]_<<wire, answer>>
=============================================================================

--------------------------- MODULE HostAuthority ---------------------------
(***************************************************************************)
(* What the TradingShard promises about the authority of a strategy host   *)
(* (GLOSSARY.md, HostActivationBarrier): authority is opened by a fact of  *)
(* the journal under an identity never used before, closed by another, and *)
(* an intent is admitted only while it is open and only if it was computed *)
(* from a fact later than the opening one.                                 *)
(***************************************************************************)
EXTENDS Integers, Sequences

VARIABLES
    log,        \* number of facts in the journal
    opened,     \* fact that opened the current authority; 0 while it is closed
    epoch,      \* identity of the last authority opened
    admitted    \* sequence of admitted intents: authority, fact it answers, fact it is

vars == <<log, opened, epoch, admitted>>

Admission == [epoch : Nat \ {0}, cursor : Nat \ {0}, fact : Nat \ {0}]

TypeOK ==
    /\ log \in Nat /\ opened \in Nat /\ epoch \in Nat
    /\ admitted \in Seq(Admission)

Init == log = 0 /\ opened = 0 /\ epoch = 0 /\ admitted = <<>>

\* A fact that is neither about authority nor an intent.
Record == log' = log + 1 /\ UNCHANGED <<opened, epoch, admitted>>

Open ==
    /\ opened = 0 /\ log' = log + 1 /\ opened' = log'
    /\ epoch' \in Nat /\ epoch' > epoch
    /\ UNCHANGED admitted

Close == opened # 0 /\ opened' = 0 /\ log' = log + 1 /\ UNCHANGED <<epoch, admitted>>

Admit ==
    LET n == Len(admitted') IN
    /\ opened # 0 /\ log' = log + 1 /\ n = Len(admitted) + 1
    /\ admitted' \in Seq(Admission)
    /\ admitted'[n].cursor > opened /\ admitted'[n].cursor <= log
    /\ admitted' = Append(admitted, [epoch |-> epoch, cursor |-> admitted'[n].cursor,
                                     fact |-> log + 1])
    /\ UNCHANGED <<opened, epoch>>

Next == Record \/ Open \/ Close \/ Admit
Spec == Init /\ [][Next]_vars

\* Intents of different authorities come in the order of the authorities, and
\* the later one answers a fact later than the fact the earlier one became: an
\* intent left over from a host that lost its authority is never admitted
\* (trading_shard.zig, submitted intents and host_activated).
EpochsInOrder ==
    \A i, j \in DOMAIN admitted : i < j =>
        /\ admitted[i].epoch <= admitted[j].epoch
        /\ admitted[i].fact < admitted[j].fact
        /\ admitted[i].epoch < admitted[j].epoch => admitted[i].fact < admitted[j].cursor
=============================================================================

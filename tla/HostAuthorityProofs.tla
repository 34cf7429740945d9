------------------------ MODULE HostAuthorityProofs ------------------------
(***************************************************************************)
(* What the authority contract means for the journal, for every length of  *)
(* it: the intents of one authority end before those of the next begin.    *)
(* The invariant ties every admitted intent to the log, to the last        *)
(* identity and to the fact that opened the current authority.             *)
(***************************************************************************)
EXTENDS HostAuthority, TLAPS

Before ==
    /\ opened <= log
    /\ \A i \in DOMAIN admitted :
        /\ admitted[i].epoch <= epoch /\ admitted[i].fact <= log
        /\ opened # 0 /\ admitted[i].epoch < epoch => admitted[i].fact < opened

OrderInv == TypeOK /\ Before /\ EpochsInOrder

\* An admitted intent names an authority, a fact it answers and the fact it is.
LEMMA AdmittedTyped ==
    ASSUME TypeOK
    PROVE  \A i \in DOMAIN admitted :
            admitted[i].epoch \in Nat /\ admitted[i].fact \in Nat /\ admitted[i].cursor \in Nat
<1>1. \A i \in DOMAIN admitted : admitted[i] \in Admission
    BY DEF TypeOK
<1> QED BY <1>1 DEF Admission

\* Opening and closing authority and other facts admit nothing; an authority is
\* opened after every fact there is, under an identity above every earlier one.
LEMMA OthersInOrder == ASSUME OrderInv, Record \/ Open \/ Close PROVE OrderInv'
<1>1. TypeOK'
    BY DEF OrderInv, TypeOK, Record, Open, Close
<1>2. EpochsInOrder' /\ UNCHANGED admitted
    BY DEF OrderInv, EpochsInOrder, Record, Open, Close
<1>3. Before'
    BY AdmittedTyped, <1>2 DEF OrderInv, TypeOK, Before, Record, Open, Close
<1> QED BY <1>1, <1>2, <1>3 DEF OrderInv

\* An intent is admitted under the open authority, after every intent so far.
LEMMA AdmissionInOrder == ASSUME OrderInv, Admit PROVE OrderInv'
<1> DEFINE n == Len(admitted')
           new == admitted'[n]
<1>1. /\ log \in Nat /\ opened \in Nat /\ epoch \in Nat /\ admitted \in Seq(Admission)
      /\ opened <= log /\ opened # 0
    BY DEF OrderInv, TypeOK, Before, Admit
<1>2. /\ admitted' \in Seq(Admission) /\ n = Len(admitted) + 1
      /\ log' = log + 1 /\ UNCHANGED <<opened, epoch>>
      /\ new.cursor > opened
    BY DEF Admit
<1>3. /\ new = [epoch |-> epoch, cursor |-> new.cursor, fact |-> log + 1]
      /\ \A i \in DOMAIN admitted : admitted'[i] = admitted[i]
      /\ DOMAIN admitted' = DOMAIN admitted \cup {n}
    <2> DEFINE entry == [epoch |-> epoch, cursor |-> new.cursor, fact |-> log + 1]
    <2>1. admitted' = Append(admitted, entry)
        BY DEF Admit
    <2> HIDE DEF entry
    <2>2. new = entry /\ \A i \in DOMAIN admitted : admitted'[i] = admitted[i]
        BY <1>1, <1>2, <2>1
    <2>3. DOMAIN admitted' = DOMAIN admitted \cup {n}
        BY <1>1, <1>2, <2>1
    <2> QED BY <2>2, <2>3 DEF entry
<1>4. new.epoch = epoch /\ new.fact = log + 1 /\ new.cursor \in Nat
    <2>1. new \in Admission
        BY <1>1, <1>2
    <2> QED BY <1>3, <2>1 DEF Admission
<1>5. TypeOK'
    BY <1>1, <1>2 DEF TypeOK
<1> HIDE DEF n, new
<1>6. Before'
    <2> SUFFICES ASSUME NEW i \in DOMAIN admitted'
                 PROVE  /\ admitted'[i].epoch <= epoch /\ admitted'[i].fact <= log + 1
                        /\ admitted'[i].epoch < epoch => admitted'[i].fact < opened
        BY <1>1, <1>2 DEF Before
    <2>1. CASE i = n
        BY <1>1, <1>4, <2>1 DEF new
    <2>2. CASE i \in DOMAIN admitted
        BY <1>1, <1>3, <2>2, AdmittedTyped DEF OrderInv, Before
    <2> QED BY <1>3, <2>1, <2>2
<1>7. EpochsInOrder'
    <2> SUFFICES ASSUME NEW i \in DOMAIN admitted', NEW j \in DOMAIN admitted', i < j
                 PROVE  /\ admitted'[i].epoch <= admitted'[j].epoch
                        /\ admitted'[i].fact < admitted'[j].fact
                        /\ admitted'[i].epoch < admitted'[j].epoch =>
                                admitted'[i].fact < admitted'[j].cursor
        BY DEF EpochsInOrder
    <2>1. i \in DOMAIN admitted
        BY <1>1, <1>2, <1>3
    <2>2. CASE j \in DOMAIN admitted
        BY <1>3, <2>1, <2>2 DEF OrderInv, EpochsInOrder
    <2>3. CASE j = n
        <3>1. /\ admitted[i].epoch <= epoch /\ admitted[i].fact <= log
              /\ admitted[i].epoch < epoch => admitted[i].fact < opened
            BY <1>1, <2>1 DEF OrderInv, Before
        <3>2. admitted[i].fact \in Nat /\ admitted[i].epoch \in Nat
            BY <2>1, AdmittedTyped DEF OrderInv
        <3> QED BY <1>1, <1>2, <1>3, <1>4, <2>1, <2>3, <3>1, <3>2 DEF new
    <2> QED BY <1>3, <2>2, <2>3
<1> QED BY <1>5, <1>6, <1>7 DEF OrderInv

\* Whatever opens and closes authority, and however many intents are admitted,
\* an intent of an older authority is never admitted after one of a newer
\* (trading_shard.zig, submitOrderIntent and host_activated).
THEOREM AuthoritiesInOrder == Spec => []EpochsInOrder
<1>1. Init => OrderInv
    BY DEF Init, OrderInv, TypeOK, Before, EpochsInOrder
<1>2. OrderInv /\ [Next]_vars => OrderInv'
    <2> SUFFICES ASSUME OrderInv, [Next]_vars PROVE OrderInv'
        OBVIOUS
    <2>1. CASE UNCHANGED vars
        BY <2>1 DEF vars, OrderInv, TypeOK, Before, EpochsInOrder
    <2> QED BY <2>1, OthersInOrder, AdmissionInOrder DEF Next
<1>3. OrderInv => EpochsInOrder
    BY DEF OrderInv
<1> QED BY <1>1, <1>2, <1>3, PTL DEF Spec
=============================================================================

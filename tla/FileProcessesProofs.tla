------------------------ MODULE FileProcessesProofs ------------------------
(***************************************************************************)
(* What a summary, its result files and an audit are worth, for any number *)
(* of rounds, wrongs of processes, changes of the tree, crashes and hangs. *)
(*                                                                         *)
(* The driver's plan is a sequence; the first lemmas say which step is     *)
(* where.  The invariants then say what the datasets held before the step  *)
(* (Bases), what its process did and said (ChildInv), what the driver has  *)
(* seen (KeptInv, BasesInv), and - the heart of it - that nothing which    *)
(* went wrong and can be told has been passed over: as long as the state   *)
(* is Sound, every wrong is Excused, and without wrongs it stays Sound     *)
(* (WrongInv).  Behind the last step every state is Sound.  PairInv follows *)
(* the two steps that are compared with each other, and FrozenInv what ran *)
(* over a tree that had changed.                                           *)
(***************************************************************************)
EXTENDS FileProcesses, TLAPS

-----------------------------------------------------------------------------
(* The plan.                                                               *)

Last == 20 + 2 * Rounds
Modes == {"seed", "recover", "step", "advance", "hold-before-step", "hold-after-step"}
Names == {"seeded", "golden", "previous", "observed"}
Item ==
    {Write(f) : f \in {"identity", "faults", "reports", "observation-reports", "workload", "samples", "summary"}}
    \cup {Copy(d) : d \in Dataset}
    \cup {Run(m, d, l, n) : m \in Modes, d \in Dataset, l \in Names, n \in Nat}

LEMMA Items ==
    /\ \A f \in {"identity", "faults", "reports", "observation-reports", "workload", "samples", "summary"} :
         Write(f) \in Item
    /\ \A d \in Dataset : Copy(d) \in Item
    /\ \A m \in Modes, d \in Dataset, l \in Names, n \in Nat : Run(m, d, l, n) \in Item
BY DEF Item

LEMMA Appended ==
    ASSUME NEW s \in Seq(Item), NEW t \in Seq(Item)
    PROVE  /\ s \o t \in Seq(Item) /\ Len(s \o t) = Len(s) + Len(t)
           /\ \A i \in 1 .. Len(s) : (s \o t)[i] = s[i]
           /\ \A i \in 1 .. Len(t) : (s \o t)[Len(s) + i] = t[i]
<1> DEFINE S == Item
<1> HIDE DEF S
<1>1. s \in Seq(S) /\ t \in Seq(S)
    BY DEF S
<1> SUFFICES /\ s \o t \in Seq(S) /\ Len(s \o t) = Len(s) + Len(t)
             /\ \A i \in 1 .. Len(s) : (s \o t)[i] = s[i]
             /\ \A i \in 1 .. Len(t) : (s \o t)[Len(s) + i] = t[i]
    BY DEF S
<1> QED BY <1>1

Opening ==
    <<Write("identity"), Run("seed", "store", "seeded", 0), Run("recover", "store", "seeded", 0),
      Copy("step-golden"), Run("step", "step-golden", "golden", 0), Run("recover", "step-golden", "golden", 0)>>
Closing ==
    <<Write("reports"), Run("seed", "observation", "observed", 0), Run("recover", "observation", "observed", 0),
      Write("observation-reports"), Write("workload"), Write("samples"), Write("summary")>>

LEMMA Parts ==
    /\ Opening \in Seq(Item) /\ Len(Opening) = 6 /\ Closing \in Seq(Item) /\ Len(Closing) = 7
    /\ \A mode \in Modes \cap Dataset, like \in Names :
         Interruption(mode, like) \in Seq(Item) /\ Len(Interruption(mode, like)) = 3
    /\ <<Write("faults")>> \in Seq(Item) /\ Len(<<Write("faults")>>) = 1
    /\ AllRounds \in Seq(Item) /\ Len(AllRounds) = 2 * Rounds
<1>1. Opening \in Seq(Item) /\ Len(Opening) = 6 /\ Closing \in Seq(Item) /\ Len(Closing) = 7
    BY Items DEF Opening, Closing, Modes, Dataset, Names
<1>2. \A mode \in Modes \cap Dataset, like \in Names :
         Interruption(mode, like) \in Seq(Item) /\ Len(Interruption(mode, like)) = 3
    BY Items DEF Interruption, Modes, Dataset, Names
<1>3. <<Write("faults")>> \in Seq(Item) /\ Len(<<Write("faults")>>) = 1
    BY Items
<1>4. AllRounds \in Seq(Item) /\ Len(AllRounds) = 2 * Rounds
    <2>1. \A i \in 1 .. 2 * Rounds : (i + 1) \div 2 \in Nat
        BY RoundsAssumption
    <2>2. \A i \in 1 .. 2 * Rounds :
            Run(IF i % 2 = 1 THEN "advance" ELSE "recover", "store", "previous", (i + 1) \div 2) \in Item
        BY <2>1, Items DEF Modes, Dataset, Names
    <2> QED BY <2>2, RoundsAssumption DEF AllRounds
<1> QED BY <1>1, <1>2, <1>3, <1>4

LEMMA PlanIs ==
    /\ Plan \in Seq(Item) /\ Len(Plan) = Last
    /\ \A i \in 1 .. 6 : Plan[i] = Opening[i]
    /\ \A i \in 1 .. 3 : Plan[6 + i] = Interruption("hold-before-step", "seeded")[i]
    /\ \A i \in 1 .. 3 : Plan[9 + i] = Interruption("hold-after-step", "golden")[i]
    /\ Plan[13] = Write("faults")
    /\ \A i \in 1 .. 2 * Rounds : Plan[13 + i] = AllRounds[i]
    /\ \A i \in 1 .. 7 : Plan[13 + 2 * Rounds + i] = Closing[i]
<1> DEFINE a == Opening
           b == Interruption("hold-before-step", "seeded")
           c == Interruption("hold-after-step", "golden")
           d == <<Write("faults")>>
           e == AllRounds
           f == Closing
           ab == a \o b
           abc == ab \o c
           abcd == abc \o d
           abcde == abcd \o e
<1>1. Plan = abcde \o f
    BY DEF Plan, Opening, Closing
<1>2. /\ a \in Seq(Item) /\ Len(a) = 6 /\ b \in Seq(Item) /\ Len(b) = 3 /\ c \in Seq(Item) /\ Len(c) = 3
      /\ d \in Seq(Item) /\ Len(d) = 1 /\ e \in Seq(Item) /\ Len(e) = 2 * Rounds /\ f \in Seq(Item) /\ Len(f) = 7
    BY Parts DEF Modes, Dataset, Names
<1> HIDE DEF a, b, c, d, e, f
<1>3. /\ ab \in Seq(Item) /\ Len(ab) = 9
      /\ \A i \in 1 .. 6 : ab[i] = a[i]
      /\ \A i \in 1 .. 3 : ab[6 + i] = b[i]
    <2>1. a \in Seq(Item) /\ b \in Seq(Item) /\ Len(a) = 6 /\ Len(b) = 3
        BY <1>2
    <2>2. ab \in Seq(Item) /\ Len(ab) = Len(a) + Len(b)
        BY <2>1, Appended
    <2>3. \A i \in 1 .. Len(a) : ab[i] = a[i]
        BY <2>1, Appended
    <2>4. \A i \in 1 .. Len(b) : ab[Len(a) + i] = b[i]
        BY <2>1, Appended
    <2>5. Len(ab) = 9
        BY <2>1, <2>2
    <2>6. \A i \in 1 .. 6 : ab[i] = a[i]
        BY <2>1, <2>3
    <2>7. \A i \in 1 .. 3 : ab[6 + i] = b[i]
        BY <2>1, <2>4
    <2> QED BY <2>2, <2>5, <2>6, <2>7
<1> HIDE DEF ab
<1>4. /\ abc \in Seq(Item) /\ Len(abc) = 12
      /\ \A i \in 1 .. 9 : abc[i] = ab[i]
      /\ \A i \in 1 .. 3 : abc[9 + i] = c[i]
    <2>1. ab \in Seq(Item) /\ c \in Seq(Item) /\ Len(ab) = 9 /\ Len(c) = 3
        BY <1>2, <1>3
    <2>2. abc \in Seq(Item) /\ Len(abc) = Len(ab) + Len(c)
        BY <2>1, Appended
    <2>3. \A i \in 1 .. Len(ab) : abc[i] = ab[i]
        BY <2>1, Appended
    <2>4. \A i \in 1 .. Len(c) : abc[Len(ab) + i] = c[i]
        BY <2>1, Appended
    <2>5. Len(abc) = 12
        BY <2>1, <2>2
    <2>6. \A i \in 1 .. 9 : abc[i] = ab[i]
        BY <2>1, <2>3
    <2>7. \A i \in 1 .. 3 : abc[9 + i] = c[i]
        BY <2>1, <2>4
    <2> QED BY <2>2, <2>5, <2>6, <2>7
<1> HIDE DEF abc
<1>5. /\ abcd \in Seq(Item) /\ Len(abcd) = 13
      /\ \A i \in 1 .. 12 : abcd[i] = abc[i]
      /\ \A i \in 1 .. 1 : abcd[12 + i] = d[i]
    <2>1. abc \in Seq(Item) /\ d \in Seq(Item) /\ Len(abc) = 12 /\ Len(d) = 1
        BY <1>2, <1>4
    <2>2. abcd \in Seq(Item) /\ Len(abcd) = Len(abc) + Len(d)
        BY <2>1, Appended
    <2>3. \A i \in 1 .. Len(abc) : abcd[i] = abc[i]
        BY <2>1, Appended
    <2>4. \A i \in 1 .. Len(d) : abcd[Len(abc) + i] = d[i]
        BY <2>1, Appended
    <2>5. Len(abcd) = 13
        BY <2>1, <2>2
    <2>6. \A i \in 1 .. 12 : abcd[i] = abc[i]
        BY <2>1, <2>3
    <2>7. \A i \in 1 .. 1 : abcd[12 + i] = d[i]
        BY <2>1, <2>4
    <2> QED BY <2>2, <2>5, <2>6, <2>7
<1> HIDE DEF abcd
<1>6. /\ abcde \in Seq(Item) /\ Len(abcde) = 13 + 2 * Rounds
      /\ \A i \in 1 .. 13 : abcde[i] = abcd[i]
      /\ \A i \in 1 .. (2 * Rounds) : abcde[13 + i] = e[i]
    <2>1. abcd \in Seq(Item) /\ e \in Seq(Item) /\ Len(abcd) = 13 /\ Len(e) = (2 * Rounds)
        BY <1>2, <1>5
    <2>2. abcde \in Seq(Item) /\ Len(abcde) = Len(abcd) + Len(e)
        BY <2>1, Appended
    <2>3. \A i \in 1 .. Len(abcd) : abcde[i] = abcd[i]
        BY <2>1, Appended
    <2>4. \A i \in 1 .. Len(e) : abcde[Len(abcd) + i] = e[i]
        BY <2>1, Appended
    <2>5. Len(abcde) = 13 + 2 * Rounds
        BY <2>1, <2>2
    <2>6. \A i \in 1 .. 13 : abcde[i] = abcd[i]
        BY <2>1, <2>3
    <2>7. \A i \in 1 .. (2 * Rounds) : abcde[13 + i] = e[i]
        BY <2>1, <2>4
    <2> QED BY <2>2, <2>5, <2>6, <2>7
<1> HIDE DEF abcde
<1> DEFINE whole == abcde \o f
<1>7. /\ whole \in Seq(Item) /\ Len(whole) = Last
      /\ \A i \in 1 .. (13 + 2 * Rounds) : whole[i] = abcde[i]
      /\ \A i \in 1 .. 7 : whole[(13 + 2 * Rounds) + i] = f[i]
    <2>1. abcde \in Seq(Item) /\ f \in Seq(Item) /\ Len(abcde) = (13 + 2 * Rounds) /\ Len(f) = 7
        BY <1>2, <1>6
    <2>2. whole \in Seq(Item) /\ Len(whole) = Len(abcde) + Len(f)
        BY <2>1, Appended
    <2>3. \A i \in 1 .. Len(abcde) : whole[i] = abcde[i]
        BY <2>1, Appended
    <2>4. \A i \in 1 .. Len(f) : whole[Len(abcde) + i] = f[i]
        BY <2>1, Appended
    <2>5. Len(whole) = Last
        BY <2>1, <2>2, RoundsAssumption DEF Last
    <2>6. \A i \in 1 .. (13 + 2 * Rounds) : whole[i] = abcde[i]
        BY <2>1, <2>3
    <2>7. \A i \in 1 .. 7 : whole[(13 + 2 * Rounds) + i] = f[i]
        BY <2>1, <2>4
    <2> QED BY <2>2, <2>5, <2>6, <2>7
<1> HIDE DEF whole
<1>8. Plan = whole
    BY <1>1 DEF whole
<1>9. \A i \in 1 .. 13 : Plan[i] = abcd[i]
    <2>1. \A i \in 1 .. 13 : i \in 1 .. (13 + 2 * Rounds)
        BY RoundsAssumption
    <2>2. \A i \in 1 .. 13 : whole[i] = abcde[i]
        BY <2>1, <1>7
    <2> QED BY <2>2, <1>8, <1>6
<1>10. \A i \in 1 .. 12 : Plan[i] = abc[i]
    BY <1>9, <1>5
<1>11. \A i \in 1 .. 9 : Plan[i] = ab[i]
    BY <1>10, <1>4
<1>12. \A i \in 1 .. 6 : Plan[i] = a[i]
    BY <1>11, <1>3
<1>13. \A i \in 1 .. 3 : Plan[6 + i] = b[i]
    BY <1>11, <1>3
<1>14. \A i \in 1 .. 3 : Plan[9 + i] = c[i]
    BY <1>10, <1>4
<1>15. Plan[13] = Write("faults")
    <2>1. 12 + 1 = 13 /\ abcd[12 + 1] = d[1]
        BY <1>5
    <2> QED BY <2>1, <1>9 DEF d
<1>16. \A i \in 1 .. 2 * Rounds : Plan[13 + i] = e[i]
    <2>1. \A i \in 1 .. 2 * Rounds : 13 + i \in 1 .. (13 + 2 * Rounds)
        BY RoundsAssumption
    <2>2. \A i \in 1 .. 2 * Rounds : whole[13 + i] = abcde[13 + i]
        BY <2>1, <1>7
    <2> QED BY <2>2, <1>8, <1>6
<1> QED BY <1>7, <1>8, <1>12, <1>13, <1>14, <1>15, <1>16 DEF a, b, c, e, f

LEMMA FirstSteps ==
    /\ Plan[1] = Write("identity")
    /\ Plan[2] = Run("seed", "store", "seeded", 0) /\ Plan[3] = Run("recover", "store", "seeded", 0)
    /\ Plan[4] = Copy("step-golden")
    /\ Plan[5] = Run("step", "step-golden", "golden", 0) /\ Plan[6] = Run("recover", "step-golden", "golden", 0)
    /\ Plan[7] = Copy("hold-before-step")
    /\ Plan[8] = Run("hold-before-step", "hold-before-step", "seeded", 0)
    /\ Plan[9] = Run("recover", "hold-before-step", "seeded", 0)
    /\ Plan[10] = Copy("hold-after-step")
    /\ Plan[11] = Run("hold-after-step", "hold-after-step", "golden", 0)
    /\ Plan[12] = Run("recover", "hold-after-step", "golden", 0)
    /\ Plan[13] = Write("faults")
<1>1. /\ Plan[1] = Opening[1] /\ Plan[2] = Opening[2] /\ Plan[3] = Opening[3]
      /\ Plan[4] = Opening[4] /\ Plan[5] = Opening[5] /\ Plan[6] = Opening[6]
    BY PlanIs
<1>2. /\ Plan[6 + 1] = Interruption("hold-before-step", "seeded")[1]
      /\ Plan[6 + 2] = Interruption("hold-before-step", "seeded")[2]
      /\ Plan[6 + 3] = Interruption("hold-before-step", "seeded")[3]
    BY PlanIs
<1>3. /\ Plan[9 + 1] = Interruption("hold-after-step", "golden")[1]
      /\ Plan[9 + 2] = Interruption("hold-after-step", "golden")[2]
      /\ Plan[9 + 3] = Interruption("hold-after-step", "golden")[3]
    BY PlanIs
<1>4. /\ Plan[7] = Interruption("hold-before-step", "seeded")[1]
      /\ Plan[8] = Interruption("hold-before-step", "seeded")[2]
      /\ Plan[9] = Interruption("hold-before-step", "seeded")[3]
      /\ Plan[10] = Interruption("hold-after-step", "golden")[1]
      /\ Plan[11] = Interruption("hold-after-step", "golden")[2]
      /\ Plan[12] = Interruption("hold-after-step", "golden")[3]
    BY <1>2, <1>3
<1> QED BY <1>1, <1>4, PlanIs DEF Opening, Interruption

LEMMA RoundSteps ==
    \A n \in 1 .. Rounds : /\ Plan[12 + 2 * n] = Run("advance", "store", "previous", n)
                           /\ Plan[13 + 2 * n] = Run("recover", "store", "previous", n)
<1> TAKE n \in 1 .. Rounds
<1>1. /\ 2 * n - 1 \in 1 .. 2 * Rounds /\ 2 * n \in 1 .. 2 * Rounds
      /\ (2 * n - 1) % 2 = 1 /\ (2 * n) % 2 = 0 /\ (2 * n - 1 + 1) \div 2 = n /\ (2 * n + 1) \div 2 = n
    BY RoundsAssumption
<1>2. /\ AllRounds[2 * n - 1] = Run("advance", "store", "previous", n)
      /\ AllRounds[2 * n] = Run("recover", "store", "previous", n)
    BY <1>1 DEF AllRounds
<1>3. Plan[13 + (2 * n - 1)] = AllRounds[2 * n - 1] /\ Plan[13 + 2 * n] = AllRounds[2 * n]
    BY <1>1, PlanIs
<1>4. 13 + (2 * n - 1) = 12 + 2 * n
    OBVIOUS
<1> QED BY <1>2, <1>3, <1>4

LEMMA LastSteps ==
    /\ Plan[14 + 2 * Rounds] = Write("reports")
    /\ Plan[15 + 2 * Rounds] = Run("seed", "observation", "observed", 0)
    /\ Plan[16 + 2 * Rounds] = Run("recover", "observation", "observed", 0)
    /\ \A i \in 17 + 2 * Rounds .. Last : Plan[i].op = "write"
<1>1. /\ 13 + 2 * Rounds + 1 = 14 + 2 * Rounds /\ 13 + 2 * Rounds + 2 = 15 + 2 * Rounds
      /\ 13 + 2 * Rounds + 3 = 16 + 2 * Rounds
    BY RoundsAssumption
<1>2. /\ Plan[13 + 2 * Rounds + 1] = Closing[1] /\ Plan[13 + 2 * Rounds + 2] = Closing[2]
      /\ Plan[13 + 2 * Rounds + 3] = Closing[3]
    BY PlanIs
<1>3. ASSUME NEW i \in 17 + 2 * Rounds .. Last PROVE Plan[i].op = "write"
    <2>1. i - 13 - 2 * Rounds \in 4 .. 7 /\ 13 + 2 * Rounds + (i - 13 - 2 * Rounds) = i
        BY RoundsAssumption DEF Last
    <2>2. Plan[i] = Closing[i - 13 - 2 * Rounds]
        BY <2>1, PlanIs
    <2> QED BY <2>1, <2>2 DEF Closing, Write
<1> QED BY <1>1, <1>2, <1>3 DEF Closing

Turn(i) == \E n \in 1 .. Rounds : i = 12 + 2 * n \/ i = 13 + 2 * n

LEMMA Turns ==
    ASSUME NEW i \in 14 .. 13 + 2 * Rounds
    PROVE  Turn(i)
<1>1. CASE i % 2 = 0
    <2> DEFINE n == (i - 12) \div 2
    <2>1. n \in 1 .. Rounds /\ i = 12 + 2 * n
        BY <1>1, RoundsAssumption
    <2> QED BY <2>1 DEF Turn
<1>2. CASE i % 2 = 1
    <2> DEFINE n == (i - 13) \div 2
    <2>1. n \in 1 .. Rounds /\ i = 13 + 2 * n
        BY <1>2, RoundsAssumption
    <2> QED BY <2>1 DEF Turn
<1> QED BY <1>1, <1>2, RoundsAssumption

\* Which steps start a process.
Early == {2, 3, 5, 6, 8, 9, 11, 12}
Late == {15 + 2 * Rounds, 16 + 2 * Rounds}

LEMMA WhichRuns ==
    ASSUME NEW i \in 1 .. Last
    PROVE  i \in Runs <=> i \in Early \/ Turn(i) \/ i \in Late
<1>1. i \in Runs <=> Plan[i].op = "run"
    BY PlanIs DEF Runs
<1>2. CASE i \in 1 .. 13
    <2>1. Plan[i].op = "run" <=> i \in Early
        BY <1>2, FirstSteps DEF Early, Run, Copy, Write
    <2>2. ~Turn(i) /\ i \notin Late
        BY <1>2, RoundsAssumption DEF Turn, Late
    <2> QED BY <1>1, <2>1, <2>2
<1>3. CASE i \in 14 .. 13 + 2 * Rounds
    <2>1. Turn(i)
        BY <1>3, Turns
    <2> PICK n \in 1 .. Rounds : i = 12 + 2 * n \/ i = 13 + 2 * n
        BY <2>1 DEF Turn
    <2>2. Plan[i] \in {Run("advance", "store", "previous", n), Run("recover", "store", "previous", n)}
        BY RoundSteps
    <2>3. Plan[i].op = "run"
        BY <2>2 DEF Run
    <2> QED BY <1>1, <2>1, <2>3
<1>4. CASE i \in 14 + 2 * Rounds .. Last
    <2>1. ~Turn(i) /\ i \notin Early
        <3>1. \A n \in 1 .. Rounds : i > 13 + 2 * n
            BY <1>4, RoundsAssumption
        <3>2. ~Turn(i)
            BY <3>1 DEF Turn
        <3> QED BY <3>2, <1>4, RoundsAssumption DEF Early
    <2>2. i \in {14 + 2 * Rounds, 15 + 2 * Rounds, 16 + 2 * Rounds} \/ i \in 17 + 2 * Rounds .. Last
        BY <1>4, RoundsAssumption DEF Last
    <2>3. Plan[i].op = "run" <=> i \in Late
        BY <2>2, LastSteps, RoundsAssumption DEF Late, Run, Write
    <2> QED BY <1>1, <2>1, <2>3
<1> QED BY <1>2, <1>3, <1>4, RoundsAssumption DEF Last

LEMMA RunsArePlanned ==
    /\ DOMAIN Plan = 1 .. Last /\ Last \in Nat /\ Last >= 22 /\ Runs \subseteq 1 .. 16 + 2 * Rounds
    /\ 1 \notin Runs /\ Last \notin Runs
<1>1. DOMAIN Plan = 1 .. Last /\ Last \in Nat /\ Last >= 22
    BY PlanIs, RoundsAssumption DEF Last
<1>2. ASSUME NEW i \in Runs PROVE i \in 1 .. 16 + 2 * Rounds
    <2>1. i \in 1 .. Last
        BY <1>1 DEF Runs
    <2>2. i \in Early \/ Turn(i) \/ i \in Late
        BY <2>1, WhichRuns
    <2> QED BY <2>1, <2>2, RoundsAssumption DEF Early, Late, Turn
<1>3. 1 \notin Runs
    BY FirstSteps DEF Runs, Write
<1> QED BY <1>1, <1>2, <1>3, RoundsAssumption DEF Last

LEMMA RunIs ==
    ASSUME NEW i \in Runs
    PROVE  /\ i \in 1 .. Last /\ i + 1 \in 1 .. Last /\ Plan[i].op = "run"
           /\ Plan[i].mode \in Modes /\ Plan[i].dataset \in Dataset
           /\ Plan[i].like \in Names /\ Plan[i].round \in Nat
<1>1. i \in 1 .. Last /\ i + 1 \in 1 .. Last
    BY RunsArePlanned, RoundsAssumption DEF Last
<1>2. CASE i \in Early
    BY <1>1, <1>2, FirstSteps DEF Early, Run, Modes, Dataset, Names
<1>3. CASE Turn(i)
    <2> PICK n \in 1 .. Rounds : i = 12 + 2 * n \/ i = 13 + 2 * n
        BY <1>3 DEF Turn
    <2>1. Plan[i] \in {Run("advance", "store", "previous", n), Run("recover", "store", "previous", n)}
        BY RoundSteps
    <2> QED BY <1>1, <2>1, RoundsAssumption DEF Run, Modes, Dataset, Names
<1>4. CASE i \in Late
    BY <1>1, <1>4, LastSteps DEF Late, Run, Modes, Dataset, Names
<1> QED BY <1>1, <1>2, <1>3, <1>4, WhichRuns

\* Whatever a process did is recovered next.
LEMMA ThenRecovered ==
    ASSUME NEW i \in Runs, Plan[i].mode # "recover"
    PROVE  /\ i + 1 \in Runs /\ Plan[i + 1].mode = "recover"
           /\ Plan[i + 1].dataset = Plan[i].dataset /\ Plan[i + 1].like = Plan[i].like
<1>1. i \in 1 .. Last /\ i + 1 \in 1 .. Last
    BY RunIs
<1>2. i + 1 \in Runs <=> Plan[i + 1].op = "run"
    BY <1>1, RunsArePlanned DEF Runs
<1>3. CASE i \in Early
    BY <1>2, <1>3, FirstSteps DEF Early, Run
<1>4. CASE Turn(i)
    <2> PICK n \in 1 .. Rounds : i = 12 + 2 * n \/ i = 13 + 2 * n
        BY <1>4 DEF Turn
    <2>1. Plan[13 + 2 * n].mode = "recover" /\ Plan[12 + 2 * n] = Run("advance", "store", "previous", n)
          /\ Plan[13 + 2 * n] = Run("recover", "store", "previous", n)
        BY RoundSteps DEF Run
    <2>2. i = 12 + 2 * n /\ i + 1 = 13 + 2 * n
        BY <2>1, RoundsAssumption
    <2> QED BY <2>1, <2>2, <1>2 DEF Run
<1>5. CASE i \in Late
    <2>1. i = 15 + 2 * Rounds /\ i + 1 = 16 + 2 * Rounds
        BY <1>5, LastSteps, RoundsAssumption DEF Late, Run
    <2> QED BY <2>1, <1>2, LastSteps DEF Run
<1> QED BY <1>1, <1>3, <1>4, <1>5, WhichRuns

-----------------------------------------------------------------------------
(* Types, and where in a step the driver can be.                           *)

Data == [seeded : Nat, round : Nat, mark : Nat, economic : Nat, other : Nat, junk : Nat]
Report == [seeded : Nat, round : Nat, mark : Nat, economic : Nat, other : Nat]
Child == [alive : BOOLEAN, did : BOOLEAN, said : {"nothing", "marker", "report", "hung", "timed_out"},
          code : Nat, sends : Nat, resent : Nat, authority : Report, wellformed : BOOLEAN]
Result == [step : Runs, end : Child, changed : BOOLEAN, after : Data, artifact : BOOLEAN, spoiled : BOOLEAN]
Ran == phase \in {"running", "recorded"}

TypeInv ==
    /\ at \in 1 .. Last /\ phase \in {"next", "checked", "running", "recorded", "stuck"}
    /\ outcome \in {"open", "passed", "failed"}
    /\ store \in [Dataset -> Data] /\ before \in Data /\ child \in Child /\ kept \in [Names -> Child]
    /\ records \subseteq Result /\ drifted \subseteq Thing /\ troubles \in Nat
    /\ phase # "next" => at \in Runs
    /\ outcome = "passed" => at = Last /\ phase = "next"
    /\ phase \notin {"running", "stuck"} => ~child.alive
    /\ phase = "stuck" => outcome = "failed"

LEMMA DataTyped ==
    /\ Empty \in Data
    /\ \A d \in Data : /\ Authority(d) \in Report /\ Worked(d) \in Data
                       /\ [d EXCEPT !.mark = @ + 1] \in Data /\ [d EXCEPT !.other = @ + 1] \in Data
                       /\ [d EXCEPT !.economic = @ + 1] \in Data /\ [d EXCEPT !.junk = @ + 1] \in Data
BY DEF Empty, Data, Authority, Report, Worked

LEMMA FreshTyped == Fresh \in Child /\ Gone \in Child /\ ~Gone.alive
BY DataTyped DEF Fresh, Gone, Child

LEMMA SaysTyped ==
    ASSUME child \in Child, NEW d \in Data
    PROVE  /\ Says(d) \in Child /\ [Says(d) EXCEPT !.resent = 1] \in Child
           /\ [Says(d) EXCEPT !.wellformed = FALSE] \in Child
<1>1. Authority(d) \in Report /\ Sends \in Nat
    BY DataTyped DEF Sends
<1> QED BY <1>1 DEF Says, Child

\* A process works on the dataset of its step.
LEMMA AtRun ==
    ASSUME TypeInv, phase # "next"
    PROVE  /\ at \in Runs /\ at \in 1 .. Last /\ at + 1 \in 1 .. Last /\ Step.op = "run" /\ Step.mode \in Modes
           /\ Step.dataset \in Dataset /\ Step.like \in Names /\ Step.round \in Nat /\ Held \in Data
           /\ outcome # "passed" /\ at # Last
BY RunIs, RunsArePlanned DEF TypeInv, Step, Held

LEMMA Lasting ==
    ASSUME TypeInv, phase # "next", NEW d \in Data, Lasts(d)
    PROVE  store' \in [Dataset -> Data] /\ store'[Step.dataset] = d
           /\ \A e \in Dataset \ {Step.dataset} : store'[e] = store[e]
BY AtRun DEF TypeInv, Lasts

LEMMA WorkTyped ==
    ASSUME TypeInv, ChildWorks
    PROVE  store' \in [Dataset -> Data] /\ child' \in Child
<1>1. child \in Child /\ Held \in Data /\ phase # "next"
    BY AtRun DEF TypeInv, ChildWorks
<1>2. Worked(Held) \in Data /\ Worked(Worked(Held)) \in Data
    BY <1>1, DataTyped
<1>3. CASE WorksRight
    BY <1>1, <1>2, <1>3, SaysTyped, Lasting DEF WorksRight
<1>4. CASE LosesWork
    BY <1>1, <1>2, <1>4, SaysTyped DEF LosesWork, TypeInv
<1>5. CASE WorksAhead
    <2>1. [Worked(Held) EXCEPT !.mark = @ + 1] \in Data
        BY <1>2, DataTyped
    <2> QED BY <1>1, <1>2, <1>5, <2>1, SaysTyped, Lasting DEF WorksAhead
<1>6. CASE WorksTwice
    BY <1>1, <1>2, <1>6, SaysTyped, Lasting DEF WorksTwice
<1>11. CASE StepsBeside
    <2>1. [Worked(Held) EXCEPT !.mark = @ + 1] \in Data
        BY <1>2, DataTyped
    <2> QED BY <1>1, <1>2, <1>11, <2>1, SaysTyped, Lasting DEF StepsBeside
<1>7. CASE Strays
    <2>1. [Worked(Held) EXCEPT !.other = @ + 1] \in Data /\ [Worked(Held) EXCEPT !.economic = @ + 1] \in Data
        BY <1>2, DataTyped
    <2> PICK d \in {[Worked(Held) EXCEPT !.other = @ + 1], [Worked(Held) EXCEPT !.economic = @ + 1]} :
               Lasts(d) /\ child' = Says(d)
        BY <1>7 DEF Strays
    <2>2. d \in Data
        BY <2>1
    <2> QED BY <1>1, <2>2, SaysTyped, Lasting
<1>8. CASE Scribbles
    <2>1. [Worked(Held) EXCEPT !.junk = @ + 1] \in Data
        BY <1>2, DataTyped
    <2> QED BY <1>1, <1>2, <1>8, <2>1, SaysTyped, Lasting DEF Scribbles
<1>9. CASE Resends
    BY <1>1, <1>2, <1>9, SaysTyped, Lasting DEF Resends
<1>10. CASE Garbles
    BY <1>1, <1>2, <1>10, SaysTyped, Lasting DEF Garbles
<1> QED BY <1>3, <1>4, <1>5, <1>6, <1>7, <1>8, <1>9, <1>10, <1>11 DEF ChildWorks

LEMMA RecordTyped ==
    ASSUME TypeInv, phase = "running", NEW end \in Child, Recorded(end)
    PROVE  records' \subseteq Result
<1> DEFINE r == [step |-> at, end |-> end, changed |-> Held # before, after |-> Held,
                 artifact |-> "artifact" \notin drifted, spoiled |-> FALSE]
<1>1. at \in Runs /\ Held \in Data /\ (Held # before) \in BOOLEAN
    BY AtRun
<1>2. r \in Result
    <2> DEFINE c == Held # before
               a == "artifact" \notin drifted
    <2>1. c \in BOOLEAN /\ a \in BOOLEAN
        OBVIOUS
    <2> HIDE DEF c, a
    <2>2. [step |-> at, end |-> end, changed |-> c, after |-> Held, artifact |-> a, spoiled |-> FALSE] \in Result
        BY <1>1, <2>1 DEF Result
    <2> QED BY <2>2 DEF c, a
<1> QED BY <1>2 DEF TypeInv, Recorded

LEMMA FirstTyped == Init => TypeInv
<1> SUFFICES ASSUME Init PROVE TypeInv
    OBVIOUS
<1>1. store \in [Dataset -> Data] /\ before \in Data /\ child \in Child /\ ~child.alive
    BY DataTyped, FreshTyped DEF Init
<1>2. kept \in [Names -> Child]
    BY FreshTyped DEF Init, Names
<1> QED BY <1>1, <1>2, RunsArePlanned DEF Init, TypeInv

LEMMA TypeStep == TypeInv /\ [Next]_vars => TypeInv'
<1> SUFFICES ASSUME TypeInv, [Next]_vars PROVE TypeInv'
    OBVIOUS
<1> USE DEF evidence, tree
<1>1. CASE Check
    <2>1. Step.op = "run" => at \in Runs
        BY RunsArePlanned DEF TypeInv, Step, Runs
    <2>2. Held \in Data \/ Step.op # "run"
        BY <2>1, RunIs DEF TypeInv, Held, Step
    <2> QED BY <1>1, <2>1, <2>2 DEF TypeInv, Check, Fail
<1>2. CASE Spawn
    BY <1>2, AtRun, FreshTyped DEF TypeInv, Spawn
<1>3. ASSUME NEW end \in Child, ~end.alive, phase = "running", outcome = "open", Recorded(end)
      PROVE  TypeInv'
    BY <1>3, RecordTyped, AtRun DEF TypeInv, Recorded
<1>4. CASE SeesExit
    BY <1>3, <1>4 DEF SeesExit, TypeInv
<1>5. CASE SeesMarker
    <2>1. Interrupted \in Child /\ ~Interrupted.alive
        BY DEF TypeInv, Interrupted, Child
    <2> QED BY <1>3, <1>5, <2>1 DEF SeesMarker, MarkerSeen
<1>6. CASE TimesOut
    <2>1. TimedOut \in Child /\ ~TimedOut.alive
        BY DEF TypeInv, TimedOut, Child
    <2> QED BY <1>3, <1>6, <2>1 DEF TimesOut, Overdue
<1>7. CASE Sticks
    <2>1. phase = "running" /\ at \in Runs
        BY <1>7 DEF TypeInv, Sticks, MarkerSeen, Overdue
    <2> QED BY <1>7, <2>1 DEF TypeInv, Sticks, Fail
<1>8. CASE Judge
    <2>1. phase # "next" /\ phase = "recorded"
        BY <1>8 DEF Judge
    <2>2. kept' \in [Names -> Child]
        BY <1>8 DEF TypeInv, Judge
    <2>3. at' \in 1 .. Last
        BY <1>8, <2>1, AtRun DEF TypeInv, Judge
    <2> QED BY <1>8, <2>1, <2>2, <2>3 DEF TypeInv, Judge, Fail
<1>9. CASE CopyStore
    <2>1. at # Last /\ at \in 1 .. Last
        BY <1>9, LastSteps, RoundsAssumption DEF CopyStore, Step, TypeInv, Last
    <2>2. at + 1 \in 1 .. Last
        BY <2>1, RunsArePlanned
    <2>3. "store" \in Dataset
        BY DEF Dataset
    <2>4. store' \in [Dataset -> Data]
        BY <1>9, <2>3 DEF CopyStore, TypeInv
    <2> QED BY <1>9, <2>2, <2>4 DEF TypeInv, CopyStore, NextStep
<1>10. CASE WriteFile
    <2>1. Len(Plan) = Last /\ (at # Last => at + 1 \in 1 .. Last)
        BY PlanIs, RunsArePlanned DEF TypeInv
    <2> QED BY <1>10, <2>1 DEF TypeInv, WriteFile, NextStep
<1>11. CASE ChildWorks
    BY <1>11, WorkTyped, AtRun DEF TypeInv, ChildWorks
<1>12. CASE ChildExits
    <2>1. child' \in Child
        BY <1>12 DEF TypeInv, ChildExits, Child
    <2> QED BY <1>12, <2>1 DEF TypeInv, ChildExits
<1>13. CASE ChildCrashes
    <2>1. child' \in Child
        BY <1>13 DEF TypeInv, ChildCrashes, Child
    <2> QED BY <1>13, <2>1 DEF TypeInv, ChildCrashes
<1>14. CASE ChildHangs
    <2>1. child' \in Child
        BY <1>14 DEF TypeInv, ChildHangs, Child
    <2> QED BY <1>14, <2>1 DEF TypeInv, ChildHangs
<1>15. CASE Edit
    <2>1. drifted' \subseteq Thing
        BY <1>15 DEF TypeInv, Edit
    <2> QED BY <1>15, <2>1 DEF TypeInv, Edit
<1>19. CASE TakeBack
    <2>1. drifted' \subseteq Thing
        BY <1>19 DEF TypeInv, TakeBack
    <2> QED BY <1>19, <2>1 DEF TypeInv, TakeBack
<1>16. CASE Tamper
    <2>1. store' \in [Dataset -> Data]
        <3>1. CASE UNCHANGED store
            BY <3>1 DEF TypeInv
        <3>2. CASE \E d \in Dataset : \E s \in {[store[d] EXCEPT !.junk = @ + 1], [store[d] EXCEPT !.other = @ + 1]} :
                     store' = [store EXCEPT ![d] = s]
            <4> PICK d \in Dataset : \E s \in {[store[d] EXCEPT !.junk = @ + 1], [store[d] EXCEPT !.other = @ + 1]} :
                       store' = [store EXCEPT ![d] = s]
                BY <3>2
            <4> PICK s \in {[store[d] EXCEPT !.junk = @ + 1], [store[d] EXCEPT !.other = @ + 1]} :
                       store' = [store EXCEPT ![d] = s]
                OBVIOUS
            <4>1. store[d] \in Data
                BY DEF TypeInv
            <4>2. s \in Data
                BY <4>1, DataTyped
            <4> QED BY <4>2 DEF TypeInv
        <3> QED BY <1>16, <3>1, <3>2 DEF Tamper
    <2>2. \A r \in Result : [r EXCEPT !.spoiled = TRUE] \in Result
        BY DEF Result
    <2>3. records' \subseteq Result
        BY <1>16, <2>2 DEF TypeInv, Tamper
    <2> QED BY <1>16, <2>1, <2>3 DEF TypeInv, Tamper
<1>17. CASE Audit
    BY <1>17 DEF TypeInv, Audit
<1>18. CASE UNCHANGED vars
    BY <1>18 DEF TypeInv, vars
<1> QED BY <1>1, <1>2, <1>4, <1>5, <1>6, <1>7, <1>8, <1>9, <1>10, <1>11, <1>12, <1>13, <1>14, <1>15,
           <1>16, <1>17, <1>18, <1>19 DEF Next, Driver, Process

THEOREM AlwaysTyped == Spec => []TypeInv
BY FirstTyped, TypeStep, PTL DEF Spec

-----------------------------------------------------------------------------
(* Results that are kept.                                                  *)

ResultInv ==
    /\ \A i \in Runs : i < at \/ (i = at /\ phase = "recorded") => \E r \in records : r.step = i
    /\ \A r \in records : r.step < at \/ (r.step = at /\ phase = "recorded")
    /\ \A r, q \in records : r.step = q.step => r = q
    /\ outcome = "failed" => phase # "running"

\* How a step adds a result.
Ending == [step |-> at, end |-> child', changed |-> Held # before, after |-> Held,
           artifact |-> "artifact" \notin drifted, spoiled |-> FALSE]

LEMMA Ended ==
    ASSUME TypeInv, SeesExit \/ SeesMarker \/ TimesOut
    PROVE  /\ phase = "running" /\ outcome = "open" /\ phase' = "recorded" /\ child' \in Child /\ ~child'.alive
           /\ records' = records \cup {Ending} /\ Ending \in Result
           /\ child' \in {child, Interrupted, TimedOut}
           /\ UNCHANGED <<at, outcome, store, before, kept, files, drifted, unfrozen, undone, defects, troubles>>
<1>1. phase = "running" /\ outcome = "open" /\ Recorded(child')
    BY DEF SeesExit, SeesMarker, TimesOut, Overdue, MarkerSeen, Recorded
<1>2. child' \in {child, Interrupted, TimedOut} /\ ~child'.alive
    BY DEF SeesExit, SeesMarker, TimesOut, Recorded, Interrupted, TimedOut, TypeInv, Child
<1>3. child' \in Child
    <2>1. child \in Child
        BY DEF TypeInv
    <2>2. Interrupted \in Child
        BY <2>1 DEF Interrupted, Child
    <2>3. TimedOut \in Child
        <3>1. \A c \in Child : [c EXCEPT !.alive = FALSE] \in Child
            BY DEF Child
        <3>2. \A c \in Child : [c EXCEPT !.code = 143] \in Child
            BY DEF Child
        <3>3. \A c \in Child : [c EXCEPT !.said = "timed_out"] \in Child
            BY DEF Child
        <3>4. [child EXCEPT !.alive = FALSE] \in Child
            BY <2>1, <3>1
        <3>5. [[child EXCEPT !.alive = FALSE] EXCEPT !.code = 143] \in Child
            BY <3>2, <3>4
        <3>6. [[[child EXCEPT !.alive = FALSE] EXCEPT !.code = 143] EXCEPT !.said = "timed_out"] \in Child
            BY <3>3, <3>5
        <3> QED BY <3>6 DEF TimedOut
    <2> QED BY <1>2, <2>1, <2>2, <2>3
<1>4. records' = records \cup {Ending}
    BY <1>1 DEF Recorded, Ending
<1>5. Ending \in Result
    <2> DEFINE c == Held # before
               a == "artifact" \notin drifted
    <2>1. c \in BOOLEAN /\ a \in BOOLEAN /\ Held \in Data /\ at \in Runs
        BY <1>1, AtRun
    <2> HIDE DEF c, a
    <2>2. [step |-> at, end |-> child', changed |-> c, after |-> Held, artifact |-> a, spoiled |-> FALSE] \in Result
        BY <1>3, <2>1 DEF Result
    <2> QED BY <2>2 DEF c, a, Ending
<1> QED BY <1>1, <1>2, <1>3, <1>4, <1>5 DEF Recorded, tree

LEMMA EndingIs ==
    /\ Ending.step = at /\ Ending.end = child' /\ Ending.after = Held /\ Ending.spoiled = FALSE
    /\ Ending.changed <=> Held # before
    /\ Ending.artifact <=> "artifact" \notin drifted
BY DEF Ending

\* How an output is changed.
LEMMA Tampered ==
    ASSUME TypeInv, Tamper
    PROVE  \/ UNCHANGED records
           \/ \E r \in records : LET q == [r EXCEPT !.spoiled = TRUE]
                                 IN  /\ records' = (records \ {r}) \cup {q} /\ q \in Result
                                     /\ q.step = r.step /\ q.end = r.end /\ q.after = r.after /\ q.artifact = r.artifact
<1>1. \A r \in Result : LET q == [r EXCEPT !.spoiled = TRUE]
                        IN  q \in Result /\ q.step = r.step /\ q.end = r.end /\ q.after = r.after /\ q.artifact = r.artifact
    BY DEF Result
<1> QED BY <1>1 DEF Tamper, TypeInv

LEMMA StepsAreNumbers ==
    ASSUME TypeInv
    PROVE  at \in Int /\ Runs \subseteq Int /\ \A r \in records : r \in Result /\ r.step \in Runs /\ r.step \in Int
<1>1. at \in Int
    BY RunsArePlanned DEF TypeInv
<1>2. Runs \subseteq Int
    BY RunsArePlanned
<1>3. \A r \in records : r \in Result
    BY DEF TypeInv
<1>4. \A r \in Result : r.step \in Runs
    BY DEF Result
<1> QED BY <1>1, <1>2, <1>3, <1>4

LEMMA FirstResults == Init => ResultInv
BY RunsArePlanned DEF Init, ResultInv

LEMMA ResultStep == TypeInv /\ ResultInv /\ [Next]_vars => ResultInv'
<1> SUFFICES ASSUME TypeInv, ResultInv, [Next]_vars PROVE ResultInv'
    OBVIOUS
<1> USE DEF evidence, tree
<1>1. CASE Check
    BY <1>1 DEF ResultInv, Check, Fail
<1>2. CASE Spawn
    BY <1>2 DEF ResultInv, Spawn
<1>3. CASE SeesExit \/ SeesMarker \/ TimesOut
    <2>1. /\ phase = "running" /\ phase' = "recorded" /\ at' = at /\ records' = records \cup {Ending}
          /\ Ending.step = at /\ outcome' = "open"
        BY <1>3, Ended, EndingIs
    <2>2. \A r \in records : r.step < at
        BY <2>1 DEF ResultInv
    <2>3. \A i \in Runs : i < at \/ i = at => \E r \in records' : r.step = i
        BY <2>1 DEF ResultInv
    <2>4. \A r, q \in records' : r.step = q.step => r = q
        BY <2>1, <2>2 DEF ResultInv, TypeInv
    <2> QED BY <2>1, <2>2, <2>3, <2>4 DEF ResultInv
<1>4. CASE Sticks
    <2>1. phase = "running" /\ phase' = "stuck" /\ UNCHANGED <<at, records>>
        BY <1>4 DEF Sticks, MarkerSeen, Overdue
    <2> QED BY <2>1 DEF ResultInv
<1>5. CASE Judge
    <2>1. /\ phase = "recorded" /\ records' = records
          /\ (phase' = "next" /\ at' = at + 1) \/ (phase' = phase /\ at' = at)
        BY <1>5 DEF Judge
    <2>2. at \in Int /\ Runs \subseteq Int /\ \A r \in records : r.step \in Int
        BY StepsAreNumbers
    <2>3. \A r \in records : r.step < at \/ r.step = at
        BY <2>1 DEF ResultInv
    <2>4. \A i \in Runs : i <= at => \E r \in records : r.step = i
        BY <2>1, <2>2 DEF ResultInv
    <2> QED BY <2>1, <2>2, <2>3, <2>4 DEF ResultInv
<1>6. CASE CopyStore \/ WriteFile
    <2>1. /\ phase = "next" /\ outcome = "open" /\ records' = records /\ outcome' # "failed"
          /\ (phase' = "next" /\ at' = at + 1) \/ (phase' = phase /\ at' = at)
        BY <1>6 DEF CopyStore, WriteFile, NextStep
    <2>2. at \notin Runs
        BY <1>6 DEF CopyStore, WriteFile, Runs, Step
    <2>3. at \in Int /\ Runs \subseteq Int /\ \A r \in records : r.step \in Int
        BY StepsAreNumbers
    <2>4. \A r \in records : r.step < at
        BY <2>1 DEF ResultInv
    <2>5. \A i \in Runs : i < at + 1 => i < at
        BY <2>2, <2>3
    <2> QED BY <2>1, <2>3, <2>4, <2>5 DEF ResultInv
<1>7. CASE ChildWorks \/ ChildExits
    BY <1>7 DEF ResultInv, ChildWorks, ChildExits
<1>8. CASE ChildCrashes \/ ChildHangs
    BY <1>8 DEF ResultInv, ChildCrashes, ChildHangs, TypeInv
<1>9. CASE Edit
    BY <1>9 DEF ResultInv, Edit
<1>13. CASE TakeBack
    BY <1>13 DEF ResultInv, TakeBack
<1>10. CASE Tamper
    <2>1. UNCHANGED <<at, phase, outcome>> /\ outcome = "passed"
        BY <1>10 DEF Tamper
    <2>2. CASE UNCHANGED records
        BY <2>1, <2>2 DEF ResultInv
    <2>3. CASE \E r \in records : LET q == [r EXCEPT !.spoiled = TRUE]
                                  IN  /\ records' = (records \ {r}) \cup {q} /\ q \in Result
                                      /\ q.step = r.step /\ q.end = r.end /\ q.after = r.after /\ q.artifact = r.artifact
        <3> PICK r \in records : LET q == [r EXCEPT !.spoiled = TRUE]
                                 IN  records' = (records \ {r}) \cup {q} /\ q.step = r.step
            BY <2>3
        <3> DEFINE q == [r EXCEPT !.spoiled = TRUE]
        <3>1. records' = (records \ {r}) \cup {q} /\ q.step = r.step
            OBVIOUS
        <3> HIDE DEF q
        <3>2. \A i \in Runs : (\E p \in records : p.step = i) => \E p \in records' : p.step = i
            BY <3>1
        <3>3. \A p \in records' : \E o \in records : p.step = o.step
            BY <3>1
        <3>4. \A p, o \in records' : p.step = o.step => p = o
            BY <3>1 DEF ResultInv
        <3> QED BY <2>1, <3>2, <3>3, <3>4 DEF ResultInv
    <2> QED BY <1>10, <2>2, <2>3, Tampered
<1>11. CASE Audit
    BY <1>11 DEF ResultInv, Audit
<1>12. CASE UNCHANGED vars
    BY <1>12 DEF ResultInv, vars
<1> QED BY <1>1, <1>2, <1>3, <1>4, <1>5, <1>6, <1>7, <1>8, <1>9, <1>10, <1>11, <1>12, <1>13
        DEF Next, Driver, Process

\* However the driver ends, and whatever crashed, hung or did wrong in whichever
\* round, every process that was started has its result file and is gone: `run'
\* (run-10-file-processes.py) writes the result before any check of it.  The one
\* exception is a process that outlives its kill.
THEOREM ResultsAreKept == Spec => []ResultsKept
<1>1. TypeInv /\ ResultInv => ResultsKept
    <2> SUFFICES ASSUME TypeInv, ResultInv, outcome # "open" PROVE ResultsKept
        BY DEF ResultsKept
    <2>1. phase # "running"
        BY DEF TypeInv, ResultInv
    <2> QED BY <2>1 DEF TypeInv, ResultInv, ResultsKept
<1> QED BY <1>1, AlwaysTyped, FirstResults, ResultStep, TypeStep, PTL DEF Spec

-----------------------------------------------------------------------------
(* What ran over a tree that had changed.                                  *)

\* No process was checked for between `i' and `j'.
NoRunBetween(i, j) == \A k \in Runs : k > i => k >= j

\* A thing the driver did not look at any more after process `i': it is still as
\* it was then, or was taken back before the next process.
Overlooked(i, t) ==
    \/ phase = "next" /\ t \in drifted /\ NoRunBetween(i, at)
    \/ \E j \in i + 1 .. at : <<i, t, j>> \in undone /\ NoRunBetween(i, j)

Met(i, t) == UndoneWithin(i, t) \/ (~LookedAt(i, t) /\ Overlooked(i, t))

\* The digest of the artifact in a result file.
InDigest(i) == UndoneWithin(i, "artifact") \/ \E r \in records : r.step = i /\ ~r.artifact

FrozenInv ==
    /\ unfrozen \subseteq Runs \X Thing
    /\ outcome # "failed" =>
         /\ \A u \in unfrozen : u[1] < at \/ (u[1] = at /\ Ran)
         /\ \A u \in unfrozen : u[1] = at => u[2] \in drifted \/ UndoneWithin(u[1], u[2])
         /\ \A u \in unfrozen : u[1] < at => Met(u[1], u[2])
         /\ \A u \in unfrozen : u[2] = "artifact" /\ (u[1] < at \/ phase = "recorded") => InDigest(u[1])
    /\ "audit" \in files => outcome = "passed" /\ drifted = {}

LEMMA FirstFrozen == Init => FrozenInv
BY DEF Init, FrozenInv

\* Steps that keep the driver where it is, or in a run.
LEMMA FrozenStays ==
    ASSUME TypeInv, FrozenInv, UNCHANGED <<at, unfrozen, undone, drifted>>, records \subseteq records',
           Ran => Ran', phase = "next" => phase' = "next", outcome' # "failed" => outcome # "failed",
           phase' = "recorded" => phase = "recorded",
           "audit" \in files' => outcome' = "passed" /\ drifted = {}
    PROVE  FrozenInv'
<1>1. \A i, t : Met(i, t) => Met(i, t)'
    BY DEF Met, UndoneWithin, LookedAt, Overlooked, NoRunBetween
<1>2. \A i : InDigest(i) => InDigest(i)'
    BY DEF InDigest, UndoneWithin
<1>3. \A i, t : UndoneWithin(i, t) <=> UndoneWithin(i, t)'
    BY DEF UndoneWithin
<1> HIDE DEF Met, InDigest, UndoneWithin
<1> QED BY <1>1, <1>2, <1>3 DEF FrozenInv

LEMMA FrozenStep == TypeInv /\ FrozenInv /\ [Next]_vars => FrozenInv'
<1> SUFFICES ASSUME TypeInv, FrozenInv, [Next]_vars PROVE FrozenInv'
    OBVIOUS
<1> USE DEF evidence, tree
<1>a. /\ at \in Int /\ Runs \subseteq Int /\ unfrozen \subseteq Runs \X Thing
      /\ \A u \in unfrozen : u[1] \in Runs /\ u[1] \in Int /\ u[2] \in Thing
    BY StepsAreNumbers DEF FrozenInv
<1>1. CASE Check
    <2>1. /\ UNCHANGED <<at, unfrozen, undone, drifted, files, records>> /\ phase = "next" /\ outcome = "open"
          /\ \/ outcome' = "failed"
             \/ drifted = {} /\ phase' = "checked" /\ outcome' = outcome
        BY <1>1 DEF Check, Fail
    <2>2. CASE outcome' = "failed"
        BY <2>1, <2>2 DEF FrozenInv
    <2>3. CASE drifted = {} /\ phase' = "checked" /\ outcome' = outcome
        <3>1. \A i, t : Met(i, t) => Met(i, t)'
            BY <2>1, <2>3 DEF Met, UndoneWithin, LookedAt, Overlooked, NoRunBetween
        <3>2. \A i : InDigest(i) => InDigest(i)'
            BY <2>1 DEF InDigest, UndoneWithin
        <3>3. ~Ran
            BY <2>1 DEF Ran
        <3>4. \A u \in unfrozen : u[1] < at
            BY <2>1, <3>3 DEF FrozenInv
        <3> QED BY <1>a, <2>1, <2>3, <3>1, <3>2, <3>4 DEF FrozenInv
    <2> QED BY <2>1, <2>2, <2>3
<1>2. CASE Spawn
    <2>1. /\ UNCHANGED <<at, undone, drifted, files, outcome, records>> /\ phase = "checked" /\ phase' = "running"
          /\ outcome = "open" /\ unfrozen' = unfrozen \cup {<<at, t>> : t \in drifted} /\ at \in Runs
        BY <1>2 DEF Spawn, TypeInv
    <2>2. ~Ran /\ Ran' /\ drifted \subseteq Thing
        BY <2>1 DEF Ran, TypeInv
    <2>3. \A u \in unfrozen : u[1] < at
        BY <2>1, <2>2 DEF FrozenInv
    <2>4. \A i, t : Met(i, t) => Met(i, t)'
        BY <2>1 DEF Met, UndoneWithin, LookedAt, Overlooked, NoRunBetween
    <2>5. \A i : InDigest(i) => InDigest(i)'
        BY <2>1 DEF InDigest, UndoneWithin
    <2>6. unfrozen' \subseteq Runs \X Thing
        BY <1>a, <2>1, <2>2
    <2>7. \A u \in unfrozen' : u \in unfrozen \/ (u[1] = at /\ u[2] \in drifted)
        BY <2>1
    <2> QED BY <1>a, <2>1, <2>2, <2>3, <2>4, <2>5, <2>6, <2>7 DEF FrozenInv
<1>3. CASE SeesExit \/ SeesMarker \/ TimesOut
    <2>1. /\ UNCHANGED <<at, drifted, unfrozen, undone, files, outcome>> /\ phase = "running" /\ phase' = "recorded"
          /\ outcome = "open" /\ records' = records \cup {Ending} /\ Ending.step = at
          /\ (Ending.artifact <=> "artifact" \notin drifted)
        BY <1>3, Ended, EndingIs
    <2>2. \A i, t : Met(i, t) => Met(i, t)'
        BY <2>1 DEF Met, UndoneWithin, LookedAt, Overlooked, NoRunBetween
    <2>3. \A i : InDigest(i) => InDigest(i)'
        BY <2>1 DEF InDigest, UndoneWithin
    <2>4. ASSUME NEW u \in unfrozen, u[1] = at, u[2] = "artifact" PROVE InDigest(u[1])'
        <3>1. "artifact" \in drifted \/ UndoneWithin(at, "artifact")
            BY <2>1, <2>4 DEF FrozenInv
        <3> QED BY <2>1, <2>4, <3>1 DEF InDigest, UndoneWithin
    <2>5. \A i, t : UndoneWithin(i, t)' <=> UndoneWithin(i, t)
        BY <2>1 DEF UndoneWithin
    <2>6. Ran /\ Ran'
        BY <2>1 DEF Ran
    <2> QED BY <1>a, <2>1, <2>2, <2>3, <2>4, <2>5, <2>6 DEF FrozenInv
<1>4. CASE Sticks
    BY <1>4 DEF FrozenInv, Sticks, Fail, MarkerSeen, Overdue
<1>5. CASE Judge
    <2>1. /\ UNCHANGED <<drifted, files, unfrozen, undone, records>> /\ phase = "recorded" /\ outcome = "open"
          /\ at \in Runs
          /\ \/ outcome' = "failed" /\ at' = at
             \/ Passes /\ phase' = "next" /\ at' = at + 1 /\ outcome' = outcome
        BY <1>5 DEF Judge, Fail, TypeInv
    <2>2. CASE outcome' = "failed" /\ at' = at
        BY <2>1, <2>2 DEF FrozenInv
    <2>3. CASE Passes /\ phase' = "next" /\ at' = at + 1 /\ outcome' = outcome
        <3>1. "producers" \notin drifted /\ (Holding \/ "source" \notin drifted)
            BY <2>3 DEF Passes
        <3>2. ASSUME NEW u \in unfrozen, u[1] = at PROVE Met(u[1], u[2])'
            <4>1. u[2] \in drifted \/ UndoneWithin(u[1], u[2])
                BY <2>1, <3>2 DEF FrozenInv
            <4>2. u[2] \in drifted => ~LookedAt(u[1], u[2])
                BY <3>1, <3>2 DEF LookedAt, Holding, Step
            <4>3. \A k \in Runs : k > at => k >= at + 1
                BY <1>a
            <4>4. u[2] \in drifted => Overlooked(u[1], u[2])'
                BY <2>1, <2>3, <3>2, <4>3 DEF Overlooked, NoRunBetween
            <4>5. LookedAt(u[1], u[2])' <=> LookedAt(u[1], u[2])
                BY DEF LookedAt
            <4>6. UndoneWithin(u[1], u[2])' <=> UndoneWithin(u[1], u[2])
                BY <2>1 DEF UndoneWithin
            <4> QED BY <4>1, <4>2, <4>4, <4>5, <4>6 DEF Met
        <3>3. ASSUME NEW u \in unfrozen, u[1] < at PROVE Met(u[1], u[2])'
            <4>1. Met(u[1], u[2])
                BY <2>1, <3>3 DEF FrozenInv
            <4>2. UndoneWithin(u[1], u[2])' <=> UndoneWithin(u[1], u[2])
                BY <2>1 DEF UndoneWithin
            <4>3. Overlooked(u[1], u[2]) => Overlooked(u[1], u[2])'
                <5>1. \A j \in u[1] + 1 .. at : j \in u[1] + 1 .. at'
                    BY <1>a, <2>3
                <5> QED BY <2>1, <5>1 DEF Overlooked, NoRunBetween
            <4> QED BY <4>1, <4>2, <4>3 DEF Met, LookedAt
        <3>4. \A u \in unfrozen : u[1] <= at /\ u[1] < at + 1
            BY <1>a, <2>1 DEF FrozenInv
        <3>5. \A i : InDigest(i) => InDigest(i)'
            BY <2>1 DEF InDigest, UndoneWithin
        <3> QED BY <1>a, <2>1, <2>3, <3>2, <3>3, <3>4, <3>5 DEF FrozenInv
    <2> QED BY <2>1, <2>2, <2>3
<1>6. CASE CopyStore \/ WriteFile
    <2>1. /\ phase = "next" /\ outcome = "open" /\ UNCHANGED <<unfrozen, undone, drifted, records>> /\ phase' = "next"
          /\ outcome' # "failed" /\ \/ at' = at + 1
                                    \/ at' = at
        BY <1>6 DEF CopyStore, WriteFile, NextStep
    <2>2. at \notin Runs
        BY <1>6 DEF CopyStore, WriteFile, Runs, Step
    <2>3. \A u \in unfrozen : u[1] < at /\ u[1] < at'
        BY <1>a, <2>1 DEF FrozenInv, Ran
    <2>4. ASSUME NEW u \in unfrozen PROVE Met(u[1], u[2])'
        <3>1. Met(u[1], u[2])
            BY <2>1, <2>3 DEF FrozenInv
        <3>2. UndoneWithin(u[1], u[2])' <=> UndoneWithin(u[1], u[2])
            BY <2>1 DEF UndoneWithin
        <3>3. NoRunBetween(u[1], at) => NoRunBetween(u[1], at')
            BY <1>a, <2>1, <2>2 DEF NoRunBetween
        <3>4. \A j \in u[1] + 1 .. at : j \in u[1] + 1 .. at'
            BY <1>a, <2>1
        <3>5. Overlooked(u[1], u[2]) => Overlooked(u[1], u[2])'
            BY <2>1, <3>3, <3>4 DEF Overlooked, NoRunBetween
        <3> QED BY <3>1, <3>2, <3>5 DEF Met, LookedAt
    <2>5. \A i : InDigest(i) => InDigest(i)'
        BY <2>1 DEF InDigest, UndoneWithin
    <2>6. "audit" \notin files'
        <3>1. Step.op = "write" => Step.file # "audit"
            <4>1. Step \in Item
                BY PlanIs DEF TypeInv, Step
            <4> QED BY <4>1 DEF Item, Write, Copy, Run
        <3>2. "audit" \notin files
            BY <2>1 DEF FrozenInv
        <3> QED BY <1>6, <3>1, <3>2 DEF CopyStore, WriteFile
    <2> QED BY <1>a, <2>1, <2>3, <2>4, <2>5, <2>6 DEF FrozenInv
<1>7. CASE ChildWorks \/ ChildExits \/ ChildCrashes \/ ChildHangs
    <2>1. UNCHANGED <<at, phase, outcome, unfrozen, undone, drifted, files, records>>
        BY <1>7 DEF ChildWorks, ChildExits, ChildCrashes, ChildHangs
    <2>2. (Ran => Ran') /\ records \subseteq records'
        BY <2>1 DEF Ran
    <2>3. "audit" \in files' => outcome' = "passed" /\ drifted = {}
        BY <2>1 DEF FrozenInv
    <2> QED BY <2>1, <2>2, <2>3, FrozenStays
<1>8. CASE Edit
    <2>1. UNCHANGED <<at, phase, outcome, undone, files, records>> /\ drifted \subseteq drifted' /\ "audit" \notin files
        BY <1>8 DEF Edit
    <2>2. drifted' \subseteq Thing /\ \A u \in unfrozen' : u \in unfrozen \/ (phase = "running" /\ \E t \in drifted' : u = <<at, t>>)
        BY <1>8 DEF Edit, TypeInv
    <2>3. \A i, t : Met(i, t) => Met(i, t)'
        BY <2>1 DEF Met, UndoneWithin, LookedAt, Overlooked, NoRunBetween
    <2>4. \A i : InDigest(i) => InDigest(i)'
        BY <2>1 DEF InDigest, UndoneWithin
    <2>5. \A i, t : UndoneWithin(i, t)' <=> UndoneWithin(i, t)
        BY <2>1 DEF UndoneWithin
    <2>6. Ran' <=> Ran
        BY <2>1 DEF Ran
    <2>7. phase = "running" => Ran /\ at \in Runs
        BY DEF Ran, TypeInv
    <2>8. \A u \in unfrozen' : u \in unfrozen \/ (phase = "running" /\ u[1] = at /\ u[2] \in drifted' /\ u \in Runs \X Thing)
        BY <2>2, <2>7
    <2>9. unfrozen' \subseteq Runs \X Thing
        BY <1>a, <2>8
    <2> QED BY <1>a, <2>1, <2>3, <2>4, <2>5, <2>6, <2>7, <2>8, <2>9 DEF FrozenInv
<1>9. CASE TakeBack
    <2>1. UNCHANGED <<at, phase, outcome, unfrozen, files, records>> /\ "audit" \notin files /\ outcome # "failed"
        BY <1>9 DEF TakeBack
    <2> PICK t \in drifted : /\ drifted' = drifted \ {t}
                             /\ undone' = undone \cup {<<i, t, at>> : i \in {i \in DOMAIN Plan :
                                                <<i, t>> \in unfrozen /\ (i = at \/ phase = "next")}}
        BY <1>9 DEF TakeBack
    <2>2. undone \subseteq undone'
        OBVIOUS
    <2>3. ASSUME NEW u \in unfrozen, u[2] = t, u[1] = at \/ phase = "next" PROVE <<u[1], u[2], at>> \in undone'
        <3>1. u = <<u[1], t>> /\ u[1] \in DOMAIN Plan
            BY <1>a, <2>3 DEF Runs
        <3> QED BY <2>3, <3>1
    <2>4. \A u \in unfrozen : u[1] = at => u[2] \in drifted' \/ UndoneWithin(u[1], u[2])'
        <3> SUFFICES ASSUME NEW u \in unfrozen, u[1] = at PROVE u[2] \in drifted' \/ UndoneWithin(u[1], u[2])'
            OBVIOUS
        <3>1. u[2] \in drifted \/ UndoneWithin(u[1], u[2])
            BY <2>1 DEF FrozenInv
        <3>2. u[2] = t => <<u[1], u[2], u[1]>> \in undone'
            BY <2>3
        <3> QED BY <2>2, <3>1, <3>2 DEF UndoneWithin
    <2>5. ASSUME NEW u \in unfrozen, u[1] < at PROVE Met(u[1], u[2])'
        <3>1. Met(u[1], u[2])
            BY <2>1, <2>5 DEF FrozenInv
        <3>2. UndoneWithin(u[1], u[2]) => UndoneWithin(u[1], u[2])'
            BY <2>2 DEF UndoneWithin
        <3>3. at \in u[1] + 1 .. at
            BY <1>a, <2>5
        <3>4. Overlooked(u[1], u[2]) => Overlooked(u[1], u[2])'
            <4>1. CASE phase = "next" /\ u[2] \in drifted /\ NoRunBetween(u[1], at)
                <5>1. CASE u[2] = t
                    BY <2>1, <2>3, <3>3, <4>1, <5>1 DEF Overlooked, NoRunBetween
                <5>2. CASE u[2] # t
                    BY <2>1, <4>1, <5>2 DEF Overlooked, NoRunBetween
                <5> QED BY <5>1, <5>2
            <4>2. CASE \E j \in u[1] + 1 .. at : <<u[1], u[2], j>> \in undone /\ NoRunBetween(u[1], j)
                BY <2>1, <2>2, <4>2 DEF Overlooked, NoRunBetween
            <4> QED BY <4>1, <4>2 DEF Overlooked
        <3> QED BY <3>1, <3>2, <3>4 DEF Met, LookedAt
    <2>6. \A i : InDigest(i) => InDigest(i)'
        BY <2>1, <2>2 DEF InDigest, UndoneWithin
    <2>7. Ran' <=> Ran
        BY <2>1 DEF Ran
    <2> QED BY <1>a, <2>1, <2>4, <2>5, <2>6, <2>7 DEF FrozenInv
<1>10. CASE Tamper
    <2>1. UNCHANGED <<at, phase, outcome, unfrozen, undone, drifted, files>> /\ "audit" \notin files
        BY <1>10 DEF Tamper
    <2>2. \A i, t : Met(i, t) => Met(i, t)'
        BY <2>1 DEF Met, UndoneWithin, LookedAt, Overlooked, NoRunBetween
    <2>3. \A i : InDigest(i) => InDigest(i)'
        <3>1. \A r \in records : \E q \in records' : q.step = r.step /\ q.artifact = r.artifact
            <4>1. CASE UNCHANGED records
                BY <4>1
            <4>2. CASE \E r \in records : LET q == [r EXCEPT !.spoiled = TRUE]
                                          IN  /\ records' = (records \ {r}) \cup {q} /\ q \in Result
                                              /\ q.step = r.step /\ q.end = r.end /\ q.after = r.after /\ q.artifact = r.artifact
                <5> PICK r \in records : LET q == [r EXCEPT !.spoiled = TRUE]
                                         IN  /\ records' = (records \ {r}) \cup {q}
                                             /\ q.step = r.step /\ q.artifact = r.artifact
                    BY <4>2
                <5> DEFINE q == [r EXCEPT !.spoiled = TRUE]
                <5>1. records' = (records \ {r}) \cup {q} /\ q.step = r.step /\ q.artifact = r.artifact
                    OBVIOUS
                <5> HIDE DEF q
                <5> QED BY <5>1
            <4> QED BY <1>10, <4>1, <4>2, Tampered
        <3> QED BY <2>1, <3>1 DEF InDigest, UndoneWithin
    <2>4. \A i, t : UndoneWithin(i, t)' <=> UndoneWithin(i, t)
        BY <2>1 DEF UndoneWithin
    <2>5. Ran' <=> Ran
        BY <2>1 DEF Ran
    <2> QED BY <1>a, <2>1, <2>2, <2>3, <2>4, <2>5 DEF FrozenInv
<1>11. CASE Audit
    <2>1. UNCHANGED <<at, phase, outcome, unfrozen, undone, drifted, records>> /\ outcome = "passed" /\ drifted = {}
        BY <1>11 DEF Audit, AuditHolds
    <2>2. (Ran => Ran') /\ records \subseteq records'
        BY <2>1 DEF Ran
    <2> QED BY <2>1, <2>2, FrozenStays
<1>12. CASE UNCHANGED vars
    <2>1. UNCHANGED <<at, phase, outcome, unfrozen, undone, drifted, files, records>>
        BY <1>12 DEF vars
    <2>2. (Ran => Ran') /\ records \subseteq records'
        BY <2>1 DEF Ran
    <2>3. "audit" \in files' => outcome' = "passed" /\ drifted = {}
        BY <2>1 DEF FrozenInv
    <2> QED BY <2>1, <2>2, <2>3, FrozenStays
<1> QED BY <1>1, <1>2, <1>3, <1>4, <1>5, <1>6, <1>7, <1>8, <1>9, <1>10, <1>11, <1>12 DEF Next, Driver, Process

\* The last process is a recovery.
LEMMA LastRun ==
    /\ 16 + 2 * Rounds \in Runs /\ Plan[16 + 2 * Rounds] = Run("recover", "observation", "observed", 0)
    /\ \A i \in Runs : i <= 16 + 2 * Rounds
<1>1. 16 + 2 * Rounds \in 1 .. Last
    BY RoundsAssumption DEF Last
<1> QED BY <1>1, LastSteps, RunsArePlanned DEF Runs, Run

\* An audit finds in the result files whether the artifact was another one.
AuditedInv ==
    "audit" \in files => \A r \in records : r.artifact

LEMMA AuditedStep == TypeInv /\ FrozenInv /\ AuditedInv /\ [Next]_vars => AuditedInv'
<1> SUFFICES ASSUME TypeInv, FrozenInv, AuditedInv, [Next]_vars PROVE AuditedInv'
    OBVIOUS
<1> USE DEF evidence, tree
<1>1. CASE Audit
    BY <1>1 DEF Audit, AuditHolds, AuditedInv
<1>2. CASE WriteFile
    <2>1. Step \in Item /\ Step.op = "write"
        BY <1>2, PlanIs DEF TypeInv, Step, WriteFile
    <2>2. Step.file # "audit"
        BY <2>1 DEF Item, Write, Copy, Run
    <2> QED BY <1>2, <2>2 DEF WriteFile, AuditedInv
<1>3. CASE ~Audit /\ ~WriteFile
    <2>1. "audit" \in files' => "audit" \in files /\ outcome = "passed"
        <3>1. CASE SeesExit \/ SeesMarker \/ TimesOut
            BY <3>1, Ended DEF FrozenInv
        <3>2. CASE ~(SeesExit \/ SeesMarker \/ TimesOut)
            BY <1>3, <3>2 DEF FrozenInv, Next, Driver, Process, Check, Spawn, Sticks, Judge, CopyStore, ChildWorks,
                   ChildExits, ChildCrashes, ChildHangs, Edit, TakeBack, Tamper, vars
        <3> QED BY <3>1, <3>2
    <2>2. "audit" \in files' => records' = records
        <3>1. phase = "next" \/ outcome # "passed"
            BY DEF TypeInv
        <3> QED BY <1>3, <2>1, <3>1 DEF Next, Driver, Process, Check, Spawn, SeesExit, SeesMarker, MarkerSeen, TimesOut,
                   Overdue, Sticks, Judge, CopyStore, ChildWorks, ChildExits, ChildCrashes, ChildHangs,
                   Edit, TakeBack, Tamper, vars
    <2> QED BY <2>1, <2>2 DEF AuditedInv
<1> QED BY <1>1, <1>2, <1>3

\* The processes a summary is about ran on the sources, producers, artifact and
\* host metadata its identity names, however often the tree was changed and
\* changes were taken back - but for what was taken back before the driver looked
\* at it again; what is left after the last process only the audit finds
\* (run-10-file-processes.py `run', audit-11-processes.py).
THEOREM SummaryIsFrozen == Spec => []SummaryIsOfFrozen
<1>1. TypeInv /\ FrozenInv /\ AuditedInv => SummaryIsOfFrozen
    <2> SUFFICES ASSUME TypeInv, FrozenInv, AuditedInv PROVE SummaryIsOfFrozen
        OBVIOUS
    <2>1. ASSUME outcome = "passed", NEW u \in unfrozen
          PROVE  u[1] \in Runs /\ u[1] < at /\ at = Last /\ at \in Int /\ phase = "next" /\ Met(u[1], u[2])
        <3>1. at = Last /\ phase = "next"
            BY <2>1 DEF TypeInv
        <3>2. u[1] < at /\ Met(u[1], u[2]) /\ u[1] \in Runs
            BY <2>1, <3>1 DEF FrozenInv, Ran
        <3> QED BY <3>1, <3>2, StepsAreNumbers
    <2>2. ASSUME outcome = "passed", NEW u \in unfrozen
          PROVE  UndoneWithin(u[1], u[2]) \/ (~LookedAt(u[1], u[2]) /\ UndoneBefore(u[1], u[2]))
        <3>1. u[1] \in Runs /\ u[1] < at /\ at = Last /\ at \in Int /\ Met(u[1], u[2])
            BY <2>1, <2>2
        <3>2. \A k \in Runs : k < Last /\ k \in Int
            BY LastRun, RunsArePlanned, RoundsAssumption, StepsAreNumbers DEF Last
        <3>3. ASSUME Overlooked(u[1], u[2]) PROVE UndoneBefore(u[1], u[2])
            <4>1. CASE NoRunBetween(u[1], at)
                BY <3>1, <3>2, <4>1 DEF NoRunBetween, UndoneBefore
            <4>2. CASE \E j \in u[1] + 1 .. at : <<u[1], u[2], j>> \in undone /\ NoRunBetween(u[1], j)
                <5> PICK j \in u[1] + 1 .. at : <<u[1], u[2], j>> \in undone /\ NoRunBetween(u[1], j)
                    BY <4>2
                <5>1. \A k \in Runs : k > u[1] => j \in u[1] + 1 .. k
                    BY <3>1, <3>2 DEF NoRunBetween
                <5> QED BY <5>1 DEF UndoneBefore
            <4> QED BY <3>3, <4>1, <4>2 DEF Overlooked
        <3> QED BY <3>1, <3>3 DEF Met
    <2>3. ASSUME "audit" \in files, NEW u \in unfrozen
          PROVE  /\ \E j \in DOMAIN Plan : <<u[1], u[2], j>> \in undone
                 /\ u[2] = "artifact" => UndoneWithin(u[1], u[2])
        <3>1. outcome = "passed" /\ drifted = {}
            BY <2>3 DEF FrozenInv
        <3>2. u[1] \in Runs /\ u[1] < at /\ at = Last /\ at \in Int /\ Met(u[1], u[2])
            BY <2>1, <3>1
        <3>3. DOMAIN Plan = 1 .. Last /\ u[1] \in 1 .. Last
            BY <3>2, RunsArePlanned, RunIs
        <3>4. \E j \in DOMAIN Plan : <<u[1], u[2], j>> \in undone
            <4>1. CASE UndoneWithin(u[1], u[2])
                BY <3>3, <4>1 DEF UndoneWithin
            <4>2. CASE Overlooked(u[1], u[2])
                <5> PICK j \in u[1] + 1 .. at : <<u[1], u[2], j>> \in undone
                    BY <3>1, <4>2 DEF Overlooked
                <5>1. j \in DOMAIN Plan
                    BY <3>2, <3>3
                <5> QED BY <5>1
            <4> QED BY <3>2, <4>1, <4>2 DEF Met
        <3>5. u[2] = "artifact" => UndoneWithin(u[1], u[2])
            BY <2>3, <3>1, <3>2 DEF FrozenInv, InDigest, AuditedInv
        <3> QED BY <3>4, <3>5
    <2> QED BY <2>2, <2>3 DEF SummaryIsOfFrozen
<1>2. Init => AuditedInv
    BY DEF Init, AuditedInv
<1> QED BY <1>1, <1>2, AlwaysTyped, FirstFrozen, FrozenStep, AuditedStep, TypeStep, PTL DEF Spec

-----------------------------------------------------------------------------
(* The step the driver is at.                                              *)

Is(mode, dataset, like, n) ==
    Step.mode = mode /\ Step.dataset = dataset /\ Step.like = like /\ Step.round = n

AtFirst ==
    \/ at = 2 /\ Is("seed", "store", "seeded", 0)
    \/ at = 3 /\ Is("recover", "store", "seeded", 0)
    \/ at = 5 /\ Is("step", "step-golden", "golden", 0)
    \/ at = 6 /\ Is("recover", "step-golden", "golden", 0)
    \/ at = 8 /\ Is("hold-before-step", "hold-before-step", "seeded", 0)
    \/ at = 9 /\ Is("recover", "hold-before-step", "seeded", 0)
    \/ at = 11 /\ Is("hold-after-step", "hold-after-step", "golden", 0)
    \/ at = 12 /\ Is("recover", "hold-after-step", "golden", 0)

AtTurn(n) ==
    \/ at = 12 + 2 * n /\ Is("advance", "store", "previous", n)
    \/ at = 13 + 2 * n /\ Is("recover", "store", "previous", n)

AtLast ==
    \/ at = 15 + 2 * Rounds /\ Is("seed", "observation", "observed", 0)
    \/ at = 16 + 2 * Rounds /\ Is("recover", "observation", "observed", 0)

LEMMA Position ==
    ASSUME at \in Runs
    PROVE  AtFirst \/ (\E n \in 1 .. Rounds : AtTurn(n)) \/ AtLast
<1>1. at \in Early \/ Turn(at) \/ at \in Late
    BY WhichRuns, RunIs
<1>2. CASE at \in Early
    BY <1>2, FirstSteps DEF Early, AtFirst, Is, Step, Run
<1>3. CASE Turn(at)
    <2> PICK n \in 1 .. Rounds : at = 12 + 2 * n \/ at = 13 + 2 * n
        BY <1>3 DEF Turn
    <2>1. CASE at = 12 + 2 * n
        <3>1. Step = Run("advance", "store", "previous", n)
            BY <2>1, RoundSteps DEF Step
        <3> QED BY <2>1, <3>1 DEF AtTurn, Is, Run
    <2>2. CASE at = 13 + 2 * n
        <3>1. Step = Run("recover", "store", "previous", n)
            BY <2>2, RoundSteps DEF Step
        <3> QED BY <2>2, <3>1 DEF AtTurn, Is, Run
    <2> QED BY <2>1, <2>2
<1>4. CASE at \in Late
    BY <1>4, LastSteps DEF Late, AtLast, Is, Step, Run
<1> QED BY <1>1, <1>2, <1>3, <1>4

-----------------------------------------------------------------------------
(* What the process of a step did, and said.                               *)

\* What the datasets held when the process of the step was started.
Bases == [d \in Dataset |-> IF Ran /\ d = Step.dataset THEN before ELSE store[d]]

Spoken ==
    /\ child.sends = Sends /\ (Holding <=> child.said = "marker")
    /\ Step.mode = "recover" => child.authority = Authority(Held)
    /\ Step.mode = "seed" => child.authority = Authority(Worked(before))
    /\ Holding => child.authority.other = Held.other

Marked == child.wellformed /\ [child.authority EXCEPT !.other = 0] = kept[Step.like].authority

ChildInv ==
    Ran =>
      /\ ~child.did => Held = before /\ child.said = "nothing" /\ child.wellformed /\ child.resent = 0
      /\ child.code \in {0, 1, 137, 143} /\ (child.code \in {137, 143} => phase = "recorded")
      /\ child.code = 143 => child.said = "timed_out"
      /\ child.alive => child.code = 0
      /\ child.code = 0 /\ ~child.alive => child.did /\ child.said = "report" /\ ~Holding
      /\ child.said \in {"report", "marker"} => Spoken
      /\ child.code = 137 => child.said = "marker" /\ Marked

StepTwice == <<"twice", "step">>
HoldTwice == <<"twice", "hold-after-step">>

\* What may go wrong without being told from one report.
Excused(w) == NotShown(w) \/ w = <<"beside", "advance">> \/ w = StepTwice \/ w = HoldTwice

\* What the driver asks of the work on `b' that left `h'.
Asked(h, b) ==
    /\ Step.mode = "advance" => [Authority(h) EXCEPT !.mark = 0] = [Authority(Worked(b)) EXCEPT !.mark = 0]
    /\ Step.mode \in {"step", "hold-after-step"} =>
         Authority(h) \in {Authority(Worked(b)), Authority(Worked(Worked(b)))}
    /\ Step.mode \notin {"advance", "step", "hold-after-step"} => Authority(h) = Authority(Worked(b))

\* The process did what its mode should, but for what no report can show.
Innocent ==
    /\ child.authority = Authority(Held) /\ Asked(Held, before)
    /\ child.wellformed /\ (Holding \/ child.resent = 0)
    /\ Step.mode = "recover" => Held = before

LEMMA Unmoved ==
    ASSUME UNCHANGED at
    PROVE  /\ Step' = Step /\ (Holding' <=> Holding) /\ Sends' = Sends
           /\ UNCHANGED before => Worked(before)' = Worked(before)
           /\ UNCHANGED store => Held' = Held
BY DEF Step, Holding, Sends, Worked, Held

LEMMA SaysIs ==
    ASSUME child \in Child, NEW d \in Data
    PROVE  /\ Says(d).alive = child.alive /\ Says(d).code = child.code /\ Says(d).did = TRUE
           /\ Says(d).said = (IF Holding THEN "marker" ELSE "report") /\ Says(d).sends = Sends
           /\ Says(d).authority = Authority(d) /\ Says(d).resent = child.resent
           /\ Says(d).wellformed = child.wellformed
BY DEF Says, Child

\* The work of a mode, field by field.
LEMMA WorkIs ==
    ASSUME NEW d \in Data
    PROVE  /\ Worked(d).economic = d.economic /\ Worked(d).other = d.other /\ Worked(d).junk = d.junk
           /\ Worked(d).seeded = (IF Step.mode = "seed" THEN 1 ELSE d.seeded)
           /\ Worked(d).round = (IF Step.mode = "advance" THEN d.round + 1 ELSE d.round)
           /\ Worked(d).mark = (IF Step.mode \in {"step", "hold-after-step"} THEN d.mark + 1 ELSE d.mark)
BY DEF Worked, Data

LEMMA SameData ==
    ASSUME NEW d \in Data, NEW e \in Data
    PROVE  /\ Authority(d) = Authority(e) <=>
                /\ d.seeded = e.seeded /\ d.round = e.round /\ d.mark = e.mark
                /\ d.economic = e.economic /\ d.other = e.other
           /\ d = e <=> Authority(d) = Authority(e) /\ d.junk = e.junk
BY DEF Authority, Data

\* What a process holds and reports after its work, whichever way it worked.
Reports(h) ==
    /\ h \in Data /\ store'[Step.dataset] = h /\ \A e \in Dataset \ {Step.dataset} : store'[e] = store[e]
    /\ child'.alive = child.alive /\ child'.code = child.code /\ child'.did = TRUE
    /\ child'.said = (IF Holding THEN "marker" ELSE "report") /\ child'.sends = Sends
    /\ Step.mode = "recover" => child'.authority = Authority(h)
    /\ Step.mode = "seed" => child'.authority = Authority(Worked(Held))
    /\ Holding => child'.authority.other = h.other

\* What its work, when it was as it should, has to be.
Right(h) ==
    /\ child'.authority = Authority(h) /\ Asked(h, Held)
    /\ child'.wellformed /\ (Holding \/ child'.resent = 0)
    /\ Step.mode = "recover" => h = Held

\* It did the wrong `v'.
Wronged(h, v) ==
    /\ defects' = defects \cup {<<v, Step.mode>>} /\ (Right(h) => Excused(<<v, Step.mode>>))
    /\ Step.mode \in {"step", "hold-after-step"} =>
         child'.authority.mark = Held.mark + (IF v = "twice" THEN 2 ELSE 1)

\* It did no wrong, or one; and wrong work that looks right cannot be told.
Wrongs(h) ==
    \/ /\ defects' = defects /\ h = Worked(Held) /\ child'.authority = Authority(h)
       /\ child'.wellformed = child.wellformed /\ child'.resent = child.resent
    \/ \E v : Wronged(h, v)

\* Whatever the driver asks, nothing else was touched.
LEMMA AskedOnly ==
    ASSUME NEW h \in Data, NEW b \in Data, Asked(h, b)
    PROVE  h.other = b.other /\ h.economic = b.economic
<1> DEFINE w == Worked(b)
           v == Worked(w)
<1>1. w \in Data /\ v \in Data
    BY DataTyped
<1>2. w.other = b.other /\ w.economic = b.economic /\ v.other = b.other /\ v.economic = b.economic
    BY <1>1, WorkIs
<1> HIDE DEF w, v
<1>3. \A d \in Data : Authority(d) \in Report /\ Authority(d).other = d.other /\ Authority(d).economic = d.economic
    BY DEF Authority, Data, Report
<1>4. CASE Step.mode = "advance"
    <2>1. [Authority(h) EXCEPT !.mark = 0] = [Authority(w) EXCEPT !.mark = 0]
        BY <1>4 DEF Asked, w
    <2>2. \A a \in Report : [a EXCEPT !.mark = 0].other = a.other /\ [a EXCEPT !.mark = 0].economic = a.economic
        BY DEF Report
    <2> DEFINE a == Authority(h)
               c == Authority(w)
    <2>3. a \in Report /\ c \in Report /\ a.other = h.other /\ a.economic = h.economic
          /\ c.other = w.other /\ c.economic = w.economic
        BY <1>1, <1>3
    <2>4. [a EXCEPT !.mark = 0] = [c EXCEPT !.mark = 0]
        BY <2>1
    <2> HIDE DEF a, c
    <2>5. a.other = c.other /\ a.economic = c.economic
        <3>1. [a EXCEPT !.mark = 0].other = a.other /\ [a EXCEPT !.mark = 0].economic = a.economic
            BY <2>2, <2>3
        <3>2. [c EXCEPT !.mark = 0].other = c.other /\ [c EXCEPT !.mark = 0].economic = c.economic
            BY <2>2, <2>3
        <3> QED BY <2>4, <3>1, <3>2
    <2> QED BY <1>2, <2>3, <2>5
<1>5. CASE Step.mode \in {"step", "hold-after-step"}
    <2>1. Authority(h) = Authority(w) \/ Authority(h) = Authority(v)
        BY <1>5 DEF Asked, w, v
    <2> QED BY <1>1, <1>2, <1>3, <2>1
<1>6. CASE Step.mode \notin {"advance", "step", "hold-after-step"}
    <2>1. Authority(h) = Authority(w)
        BY <1>6 DEF Asked, w
    <2> QED BY <1>1, <1>2, <1>3, <2>1
<1> QED BY <1>4, <1>5, <1>6

LEMMA RightAndWrong ==
    ASSUME TypeInv, ChildWorks
    PROVE  \E h : Reports(h) /\ Wrongs(h)
<1> DEFINE w == Worked(Held)
<1>1. child \in Child /\ Held \in Data /\ phase # "next" /\ Step.mode \in Modes
    BY AtRun DEF TypeInv, ChildWorks
<1>2. w \in Data /\ Worked(w) \in Data
    BY <1>1, DataTyped
<1>3. /\ w.economic = Held.economic /\ w.other = Held.other /\ w.junk = Held.junk
      /\ w.seeded = (IF Step.mode = "seed" THEN 1 ELSE Held.seeded)
      /\ w.round = (IF Step.mode = "advance" THEN Held.round + 1 ELSE Held.round)
      /\ w.mark = (IF Step.mode \in {"step", "hold-after-step"} THEN Held.mark + 1 ELSE Held.mark)
    BY <1>1, WorkIs
<1>4. Step.mode = "recover" => w = Held
    BY DEF Worked
<1>5. ASSUME NEW d \in Data PROVE Authority(d).other = d.other /\ Authority(d).mark = d.mark
    BY DEF Authority
<1>6. ASSUME NEW h \in Data, NEW e \in Data, Lasts(h), child' = Says(e),
             Step.mode = "recover" => Authority(e) = Authority(h),
             Step.mode = "seed" => Authority(e) = Authority(w),
             Holding => e.other = h.other
      PROVE  Reports(h)
    <2>1. store'[Step.dataset] = h /\ \A o \in Dataset \ {Step.dataset} : store'[o] = store[o]
        BY <1>1, <1>6, Lasting
    <2> QED BY <1>1, <1>5, <1>6, <2>1, SaysIs DEF Reports
<1>16. child'.authority = Authority(w) /\ Step.mode \in {"step", "hold-after-step"} =>
         child'.authority.mark = Held.mark + 1
    BY <1>2, <1>3, <1>5
<1>17. /\ Says(w).authority = Authority(w) /\ [Says(w) EXCEPT !.resent = 1].authority = Authority(w)
       /\ [Says(w) EXCEPT !.wellformed = FALSE].authority = Authority(w)
    <2>1. Says(w) \in Child
        BY <1>1, <1>2, SaysTyped
    <2>2. Says(w).authority = Authority(w)
        BY <1>1, <1>2, SaysIs
    <2> QED BY <2>1, <2>2 DEF Child
<1> HIDE DEF w
<1>7. CASE WorksRight
    <2>1. Lasts(w) /\ child' = Says(w) /\ defects' = defects
        BY <1>7 DEF WorksRight, w
    <2>2. Reports(w)
        BY <1>2, <1>3, <1>6, <2>1
    <2>3. Wrongs(w)
        BY <1>1, <1>2, <2>1, SaysIs DEF Wrongs, w
    <2> QED BY <2>2, <2>3
<1>8. CASE LosesWork
    <2>1. Step.mode # "recover" /\ w # Held /\ child' = Says(w) /\ store' = store
        BY <1>8 DEF LosesWork, w
    <2>2. Reports(Held)
        BY <1>1, <1>2, <1>3, <1>5, <2>1, SaysIs DEF Reports, Held, w, Holding
    <2>3. defects' = defects \cup {<<"lost", Step.mode>>}
        BY <1>8 DEF LosesWork, Wrong
    <2>4. Authority(Held) # Authority(w)
        BY <1>1, <1>2, <1>3, <2>1, SameData
    <2>5. child'.authority = Authority(w)
        BY <1>17, <2>1
    <2>6. ~Right(Held)
        BY <2>4, <2>5 DEF Right
    <2>7. Step.mode \in {"step", "hold-after-step"} => child'.authority.mark = Held.mark + 1
        BY <1>16, <2>5
    <2>8. Wronged(Held, "lost")
        BY <2>3, <2>6, <2>7 DEF Wronged
    <2> QED BY <2>2, <2>8 DEF Wrongs
<1>9. CASE WorksAhead
    <2> DEFINE d == [w EXCEPT !.mark = @ + 1]
    <2>1. /\ Step.mode \in {"advance", "step", "hold-before-step", "hold-after-step"} /\ Lasts(d) /\ child' = Says(w)
          /\ defects' = defects \cup {<<"ahead", Step.mode>>}
        BY <1>9 DEF WorksAhead, Wrong, w
    <2>2. d \in Data /\ d.mark = w.mark + 1 /\ d.other = w.other
        BY <1>2 DEF Data
    <2> HIDE DEF d
    <2>3. Reports(d)
        BY <1>2, <1>6, <2>1, <2>2
    <2>4. Authority(d) # Authority(w)
        BY <1>2, <2>2, SameData DEF Data
    <2>5. child'.authority = Authority(w)
        BY <1>17, <2>1
    <2>6. ~Right(d)
        BY <2>4, <2>5 DEF Right
    <2>7. Step.mode \in {"step", "hold-after-step"} => child'.authority.mark = Held.mark + 1
        BY <1>16, <2>5
    <2>8. Wronged(d, "ahead")
        BY <2>1, <2>6, <2>7 DEF Wronged
    <2> QED BY <2>3, <2>8 DEF Wrongs
<1>10. CASE WorksTwice
    <2> DEFINE d == Worked(w)
    <2>1. /\ Step.mode \in {"advance", "step", "hold-after-step"} /\ Lasts(d) /\ child' = Says(d)
          /\ defects' = defects \cup {<<"twice", Step.mode>>}
        BY <1>10 DEF WorksTwice, Wrong, w
    <2>2. /\ d \in Data /\ d.other = w.other
          /\ Step.mode = "advance" => d.round = w.round + 1
          /\ Step.mode \in {"step", "hold-after-step"} => d.mark = Held.mark + 2
        <3>1. /\ d \in Data /\ d.other = w.other
              /\ d.round = (IF Step.mode = "advance" THEN w.round + 1 ELSE w.round)
              /\ d.mark = (IF Step.mode \in {"step", "hold-after-step"} THEN w.mark + 1 ELSE w.mark)
            BY <1>2, WorkIs DEF w
        <3> HIDE DEF d
        <3> QED BY <1>1, <1>2, <1>3, <3>1 DEF Data
    <2> HIDE DEF d
    <2>3. Reports(d)
        BY <1>6, <2>1, <2>2
    <2>4. child'.authority = Authority(d)
        BY <1>1, <2>1, <2>2, SaysIs
    <2>5. CASE Step.mode = "advance"
        <3>1. [Authority(d) EXCEPT !.mark = 0] # [Authority(w) EXCEPT !.mark = 0]
            <4>1. Authority(d).round = d.round /\ Authority(w).round = w.round /\ d.round # w.round
                BY <1>2, <2>2, <2>5 DEF Authority, Data
            <4>2. Authority(d) \in Report /\ Authority(w) \in Report
                BY <1>2, <2>2, DataTyped
            <4>3. \A a \in Report : [a EXCEPT !.mark = 0].round = a.round
                BY DEF Report
            <4> QED BY <4>1, <4>2, <4>3
        <3>2. ~Right(d)
            BY <2>5, <3>1 DEF Right, Asked, w
        <3>3. Wronged(d, "twice")
            BY <2>1, <2>5, <3>2 DEF Wronged
        <3> QED BY <2>3, <3>3 DEF Wrongs
    <2>6. CASE Step.mode \in {"step", "hold-after-step"}
        <3>1. Excused(<<"twice", Step.mode>>)
            BY <2>6 DEF Excused, StepTwice, HoldTwice
        <3>2. child'.authority.mark = Held.mark + 2
            BY <1>5, <2>2, <2>4, <2>6
        <3>3. Wronged(d, "twice")
            BY <2>1, <3>1, <3>2 DEF Wronged
        <3> QED BY <2>3, <3>3 DEF Wrongs
    <2> QED BY <2>1, <2>5, <2>6
<1>15. CASE StepsBeside
    <2> DEFINE d == [w EXCEPT !.mark = @ + 1]
    <2>1. /\ Step.mode = "advance" /\ Lasts(d) /\ child' = Says(d)
          /\ defects' = defects \cup {<<"beside", Step.mode>>}
        BY <1>15 DEF StepsBeside, Wrong, w
    <2>2. d \in Data /\ d.other = w.other
        BY <1>2 DEF Data
    <2> HIDE DEF d
    <2>3. Reports(d)
        BY <1>6, <2>1, <2>2
    <2>4. Excused(<<"beside", Step.mode>>)
        BY <2>1 DEF Excused
    <2>5. Wronged(d, "beside")
        BY <2>1, <2>4 DEF Wronged
    <2> QED BY <2>3, <2>5 DEF Wrongs
<1>11. CASE Strays
    <2>1. /\ Step.mode # "seed" /\ defects' = defects \cup {<<"strayed", Step.mode>>}
          /\ \E d \in {[w EXCEPT !.other = @ + 1], [w EXCEPT !.economic = @ + 1]} : Lasts(d) /\ child' = Says(d)
        BY <1>11 DEF Strays, Wrong, w
    <2> PICK d \in {[w EXCEPT !.other = @ + 1], [w EXCEPT !.economic = @ + 1]} : Lasts(d) /\ child' = Says(d)
        BY <2>1
    <2>2. d \in Data /\ d.mark = w.mark /\ (d.other = w.other + 1 \/ d.economic = w.economic + 1)
        BY <1>2 DEF Data
    <2>3. Reports(d)
        BY <1>6, <2>1, <2>2
    <2>4. ~Asked(d, Held)
        <3>1. d.other # Held.other \/ d.economic # Held.economic
            BY <1>1, <1>2, <1>3, <2>2 DEF Data
        <3> QED BY <1>1, <2>2, <3>1, AskedOnly
    <2>5. child'.authority = Authority(d)
        BY <1>1, <2>2, SaysIs
    <2>6. Step.mode \in {"step", "hold-after-step"} => child'.authority.mark = Held.mark + 1
        BY <1>3, <1>5, <2>2, <2>5
    <2>7. ~Right(d)
        BY <2>4 DEF Right
    <2>8. Wronged(d, "strayed")
        BY <2>1, <2>6, <2>7 DEF Wronged
    <2> QED BY <2>3, <2>8 DEF Wrongs
<1>12. CASE Scribbles
    <2> DEFINE d == [w EXCEPT !.junk = @ + 1]
    <2>1. Lasts(d) /\ child' = Says(w) /\ defects' = defects \cup {<<"scribbled", Step.mode>>}
        BY <1>12 DEF Scribbles, Wrong, w
    <2>2. d \in Data /\ d.mark = w.mark /\ d.other = w.other /\ d.junk = w.junk + 1 /\ Authority(d) = Authority(w)
        BY <1>2 DEF Data, Authority
    <2> HIDE DEF d
    <2>3. Reports(d)
        BY <1>2, <1>6, <2>1, <2>2
    <2>4. d # w
        BY <1>2, <2>2 DEF Data
    <2>5. Right(d) => Step.mode # "recover"
        BY <1>4, <2>4 DEF Right
    <2>6. Step.mode # "recover" => Excused(<<"scribbled", Step.mode>>)
        BY DEF Excused, NotShown
    <2>7. child'.authority = Authority(w)
        BY <1>17, <2>1
    <2>8. Step.mode \in {"step", "hold-after-step"} => child'.authority.mark = Held.mark + 1
        BY <1>16, <2>7
    <2>9. Wronged(d, "scribbled")
        BY <2>1, <2>5, <2>6, <2>8 DEF Wronged
    <2> QED BY <2>3, <2>9 DEF Wrongs
<1>13. CASE Resends
    <2>1. /\ Step.mode # "seed" /\ Lasts(w) /\ child' = [Says(w) EXCEPT !.resent = 1]
          /\ defects' = defects \cup {<<"resent", Step.mode>>}
        BY <1>13 DEF Resends, Wrong, w
    <2> DEFINE c == [Says(w) EXCEPT !.resent = 1]
    <2>2. /\ c.alive = Says(w).alive /\ c.code = Says(w).code /\ c.did = Says(w).did /\ c.said = Says(w).said
          /\ c.sends = Says(w).sends /\ c.authority = Says(w).authority /\ c.resent = 1
        BY <1>1, <1>2, SaysTyped DEF Child
    <2>3. store'[Step.dataset] = w /\ \A o \in Dataset \ {Step.dataset} : store'[o] = store[o]
        BY <1>1, <1>2, <2>1, Lasting
    <2> HIDE DEF c
    <2>4. child' = c
        BY <2>1 DEF c
    <2>5. Reports(w)
        <3>1. w.other = w.other /\ Authority(w).other = w.other /\ Authority(w).mark = w.mark
            BY <1>2, <1>5
        <3>2. /\ c.alive = child.alive /\ c.code = child.code /\ c.did = TRUE
              /\ c.said = (IF Holding THEN "marker" ELSE "report") /\ c.sends = Sends /\ c.authority = Authority(w)
            BY <1>1, <1>2, <2>2, SaysIs
        <3> QED BY <1>2, <2>3, <2>4, <3>1, <3>2 DEF Reports, w
    <2>6. Right(w) => Excused(<<"resent", Step.mode>>)
        BY <2>2, <2>4 DEF Right, Excused, NotShown, Holding
    <2>7. child'.authority = Authority(w)
        BY <1>17, <2>1
    <2>8. Step.mode \in {"step", "hold-after-step"} => child'.authority.mark = Held.mark + 1
        BY <1>16, <2>7
    <2>9. Wronged(w, "resent")
        BY <2>1, <2>6, <2>8 DEF Wronged
    <2> QED BY <2>5, <2>9 DEF Wrongs
<1>14. CASE Garbles
    <2>1. /\ Lasts(w) /\ child' = [Says(w) EXCEPT !.wellformed = FALSE]
          /\ defects' = defects \cup {<<"garbled", Step.mode>>}
        BY <1>14 DEF Garbles, Wrong, w
    <2> DEFINE c == [Says(w) EXCEPT !.wellformed = FALSE]
    <2>2. /\ c.alive = Says(w).alive /\ c.code = Says(w).code /\ c.did = Says(w).did /\ c.said = Says(w).said
          /\ c.sends = Says(w).sends /\ c.authority = Says(w).authority /\ c.wellformed = FALSE
        BY <1>1, <1>2, SaysTyped DEF Child
    <2>3. store'[Step.dataset] = w /\ \A o \in Dataset \ {Step.dataset} : store'[o] = store[o]
        BY <1>1, <1>2, <2>1, Lasting
    <2> HIDE DEF c
    <2>4. child' = c
        BY <2>1 DEF c
    <2>5. Reports(w)
        <3>1. w.other = w.other /\ Authority(w).other = w.other /\ Authority(w).mark = w.mark
            BY <1>2, <1>5
        <3>2. /\ c.alive = child.alive /\ c.code = child.code /\ c.did = TRUE
              /\ c.said = (IF Holding THEN "marker" ELSE "report") /\ c.sends = Sends /\ c.authority = Authority(w)
            BY <1>1, <1>2, <2>2, SaysIs
        <3> QED BY <1>2, <2>3, <2>4, <3>1, <3>2 DEF Reports, w
    <2>6. ~Right(w)
        BY <2>2, <2>4 DEF Right
    <2>7. child'.authority = Authority(w)
        BY <1>17, <2>1
    <2>8. Step.mode \in {"step", "hold-after-step"} => child'.authority.mark = Held.mark + 1
        BY <1>16, <2>7
    <2>9. Wronged(w, "garbled")
        BY <2>1, <2>6, <2>8 DEF Wronged
    <2> QED BY <2>5, <2>9 DEF Wrongs
<1> QED BY <1>7, <1>8, <1>9, <1>10, <1>11, <1>12, <1>13, <1>14, <1>15 DEF ChildWorks

-----------------------------------------------------------------------------
(* What the driver has seen.                                               *)

\* An authority after n rounds and m marks, with nothing astray.
Shown(n, m) == [seeded |-> 1, round |-> n, mark |-> m, economic |-> 0, other |-> 0]

\* An authority as `AdvancedOnce' compares it.
Onward(a) == [a EXCEPT !.round = @ + 1, !.mark = 0]
Markless(a) == [a EXCEPT !.mark = 0]

\* The round after the one before n is n, whatever the mark.
LEMMA NextRound ==
    ASSUME NEW n \in Nat, NEW m \in Nat
    PROVE  Onward(Shown(n - 1, m)) = Shown(n, 0) /\ Markless(Shown(n, m)) = Shown(n, 0)
<1> DEFINE k == n - 1
           s == Shown(k, m)
<1>1. k + 1 = n
    OBVIOUS
<1> HIDE DEF k
<1>2. s.round = k /\ s = [seeded |-> 1, round |-> k, mark |-> m, economic |-> 0, other |-> 0]
    BY DEF Shown
<1> HIDE DEF s
<1> DEFINE u == [s EXCEPT !.round = s.round + 1]
<1>3. u = [seeded |-> 1, round |-> n, mark |-> m, economic |-> 0, other |-> 0]
    BY <1>1, <1>2
<1> HIDE DEF u
<1>4. [u EXCEPT !.mark = 0] = Shown(n, 0)
    BY <1>3 DEF Shown
<1>5. [s EXCEPT !.round = s.round + 1, !.mark = 0] = Shown(n, 0)
    BY <1>4 DEF u
<1>6. [Shown(n, m) EXCEPT !.mark = 0] = Shown(n, 0)
    BY DEF Shown
<1> QED BY <1>5, <1>6 DEF s, k, Onward, Markless

KeptFirst ==
    /\ at > 2 => kept["seeded"].authority = Shown(0, 0)
    /\ at \in 3 .. 13 => kept["previous"].authority = Shown(0, 0)
    /\ at \in 6 .. 12 => kept["golden"].authority = Shown(0, kept["golden"].authority.mark)
KeptTurns ==
    \A n \in 1 .. Rounds : /\ at = 12 + 2 * n => kept["previous"].authority = Shown(n - 1, kept["previous"].authority.mark)
                           /\ at = 13 + 2 * n => kept["previous"].authority = Shown(n, kept["previous"].authority.mark)
KeptLast == at = 16 + 2 * Rounds => kept["observed"].authority = Shown(0, 0)

BasesFirst ==
    /\ at <= 2 => Bases["store"] = Empty
    /\ at \in 4 .. 13 => Authority(Bases["store"]) = Shown(0, 0)
    /\ at = 5 => Authority(Bases["step-golden"]) = Shown(0, 0)
    /\ at = 8 => Authority(Bases["hold-before-step"]) = Shown(0, 0)
    /\ at = 11 => Authority(Bases["hold-after-step"]) = Shown(0, 0)
BasesTurns == \A n \in 1 .. Rounds : at = 12 + 2 * n => Authority(Bases["store"]) = kept["previous"].authority
BasesLast == at <= 15 + 2 * Rounds => Bases["observation"] = Empty

KeptInv == KeptFirst /\ KeptTurns /\ KeptLast
BasesInv == BasesFirst /\ BasesTurns /\ BasesLast
SeenInv == outcome # "failed" => KeptInv /\ BasesInv /\ (phase = "checked" => before = Held)

LEMMA FirstSeen == Init => ChildInv /\ SeenInv
<1> SUFFICES ASSUME Init PROVE ChildInv /\ SeenInv
    OBVIOUS
<1>1. at = 1 /\ phase = "next" /\ \A d \in Dataset : store[d] = Empty
    BY DEF Init
<1>2. Bases["store"] = Empty /\ Bases["observation"] = Empty
    BY <1>1 DEF Bases, Ran, Dataset
<1>3. KeptInv
    BY <1>1, RoundsAssumption DEF KeptInv, KeptFirst, KeptTurns, KeptLast
<1>4. BasesInv
    BY <1>1, <1>2, RoundsAssumption DEF BasesInv, BasesFirst, BasesTurns, BasesLast
<1> QED BY <1>1, <1>3, <1>4 DEF ChildInv, SeenInv, Ran

LEMMA ChildSame ==
    ASSUME ChildInv, UNCHANGED <<at, phase, store, before, child, kept>>
    PROVE  ChildInv'
BY Unmoved DEF ChildInv, Ran, Spoken, Marked

LEMMA ChildStep == TypeInv /\ ChildInv /\ SeenInv /\ [Next]_vars => ChildInv'
<1> SUFFICES ASSUME TypeInv, ChildInv, SeenInv, [Next]_vars PROVE ChildInv'
    OBVIOUS
<1> USE DEF evidence, tree
<1>1. CASE Check
    <2>1. ~Ran'
        BY <1>1 DEF Check, Ran
    <2> QED BY <2>1 DEF ChildInv
<1>2. CASE Spawn
    <2>1. UNCHANGED <<at, store, before>> /\ child' = Fresh /\ before = Held
        BY <1>2 DEF Spawn, SeenInv
    <2>2. Held' = before'
        BY <2>1, Unmoved
    <2> QED BY <2>1, <2>2 DEF ChildInv, Fresh
<1>3. CASE SeesExit \/ SeesMarker \/ TimesOut
    <2>1. /\ phase = "running" /\ phase' = "recorded" /\ UNCHANGED <<at, store, before, kept>> /\ ~child'.alive
        BY <1>3, Ended
    <2>2. Step' = Step /\ (Holding' <=> Holding) /\ Sends' = Sends /\ Held' = Held /\ Worked(before)' = Worked(before)
        BY <2>1, Unmoved
    <2>3. Ran /\ child \in Child
        BY <2>1 DEF Ran, TypeInv
    <2>4. CASE SeesExit
        <3>1. child' = child /\ ~child.alive
            BY <2>4 DEF SeesExit, Recorded
        <3> QED BY <2>1, <2>2, <2>3, <3>1 DEF ChildInv, Spoken, Marked
    <2>5. CASE SeesMarker
        <3>1. child' = [child EXCEPT !.alive = FALSE, !.code = 137] /\ child.said = "marker" /\ Marked
            BY <2>5 DEF SeesMarker, MarkerSeen, Marked, Recorded, Interrupted
        <3>2. /\ child'.code = 137 /\ child'.did = child.did /\ child'.said = child.said /\ child'.sends = child.sends
              /\ child'.authority = child.authority /\ child'.wellformed = child.wellformed
              /\ child'.resent = child.resent
            BY <2>3, <3>1 DEF Child
        <3>3. child.did /\ Spoken
            BY <2>3, <3>1 DEF ChildInv
        <3>4. Spoken' /\ Marked'
            BY <2>1, <2>2, <3>1, <3>2, <3>3 DEF Spoken, Marked
        <3> QED BY <2>1, <3>1, <3>2, <3>3, <3>4 DEF ChildInv
    <2>6. CASE TimesOut
        <3>1. /\ child' = [child EXCEPT !.alive = FALSE, !.code = 143, !.said = "timed_out"]
              /\ child.said \in {"hung", "marker"}
            BY <2>6 DEF TimesOut, Overdue, Recorded, TimedOut
        <3>2. child'.code = 143 /\ child'.did = child.did /\ child'.said = "timed_out"
            BY <2>3, <3>1 DEF Child
        <3>3. child.did
            BY <2>3, <3>1 DEF ChildInv
        <3> QED BY <2>1, <3>2, <3>3 DEF ChildInv
    <2> QED BY <1>3, <2>4, <2>5, <2>6
<1>4. CASE Sticks
    BY <1>4 DEF Sticks, ChildInv, Ran
<1>5. CASE Judge
    <2>1. CASE phase' = "next"
        BY <2>1 DEF ChildInv, Ran
    <2>2. CASE UNCHANGED <<at, phase, kept>>
        BY <1>5, <2>2, ChildSame DEF Judge
    <2> QED BY <1>5, <2>1, <2>2 DEF Judge
<1>6. CASE CopyStore \/ WriteFile
    BY <1>6 DEF CopyStore, WriteFile, NextStep, ChildInv, Ran
<1>7. CASE ChildWorks
    <2>1. phase = "running" /\ child.alive /\ ~child.did /\ UNCHANGED <<at, phase, before, kept>>
        BY <1>7 DEF ChildWorks
    <2>2. Step' = Step /\ (Holding' <=> Holding) /\ Sends' = Sends /\ Worked(before)' = Worked(before)
        BY <2>1, Unmoved
    <2> PICK h : Reports(h)
        BY <1>7, RightAndWrong
    <2>3. Held' = h
        BY <2>2 DEF Reports, Held
    <2>4. Held = before /\ child.code = 0
        BY <2>1 DEF ChildInv, Ran
    <2>5. child'.did = TRUE /\ child'.alive /\ child'.code = 0 /\ child'.said = (IF Holding THEN "marker" ELSE "report")
        BY <2>1, <2>4 DEF Reports
    <2>6. Spoken'
        BY <2>2, <2>3, <2>4, <2>5 DEF Spoken, Reports
    <2> QED BY <2>1, <2>5, <2>6 DEF ChildInv
<1>8. CASE ChildExits
    <2>1. /\ phase = "running" /\ child.alive /\ child.said = "report" /\ child' = [child EXCEPT !.alive = FALSE]
          /\ UNCHANGED <<at, phase, store, before, kept>> /\ child \in Child
        BY <1>8 DEF ChildExits, TypeInv
    <2>2. Step' = Step /\ (Holding' <=> Holding) /\ Sends' = Sends /\ Held' = Held /\ Worked(before)' = Worked(before)
        BY <2>1, Unmoved
    <2>3. /\ ~child'.alive /\ child'.code = child.code /\ child'.did = child.did /\ child'.said = child.said
          /\ child'.sends = child.sends /\ child'.authority = child.authority
        BY <2>1 DEF Child
    <2>4. child.did /\ Spoken /\ child.code = 0
        BY <2>1 DEF ChildInv, Ran
    <2>5. Spoken' /\ ~Holding
        BY <2>1, <2>2, <2>3, <2>4 DEF Spoken
    <2> QED BY <2>1, <2>2, <2>3, <2>4, <2>5 DEF ChildInv
<1>9. CASE ChildCrashes
    <2>1. /\ phase = "running" /\ child.alive /\ child' = [child EXCEPT !.alive = FALSE, !.code = 1, !.said = "nothing"]
          /\ UNCHANGED <<at, phase, store, before, kept>> /\ child \in Child
        BY <1>9 DEF ChildCrashes, TypeInv
    <2>2. Held' = Held
        BY <2>1, Unmoved
    <2>3. /\ ~child'.alive /\ child'.code = 1 /\ child'.did = child.did /\ child'.said = "nothing"
          /\ child'.wellformed = child.wellformed /\ child'.resent = child.resent
        BY <2>1 DEF Child
    <2> QED BY <2>1, <2>2, <2>3 DEF ChildInv, Ran
<1>10. CASE ChildHangs
    <2>1. /\ phase = "running" /\ child.alive /\ child' = [child EXCEPT !.did = TRUE, !.said = "hung"]
          /\ UNCHANGED <<at, phase, store, before, kept>> /\ child \in Child
        BY <1>10 DEF ChildHangs, TypeInv
    <2>2. child'.alive /\ child'.code = child.code /\ child'.did = TRUE /\ child'.said = "hung"
        BY <2>1 DEF Child
    <2> QED BY <2>1, <2>2 DEF ChildInv, Ran
<1>11. CASE Edit \/ TakeBack
    BY <1>11, ChildSame DEF Edit, TakeBack
<1>12. CASE Tamper
    <2>1. phase' = "next"
        BY <1>12 DEF Tamper, TypeInv
    <2> QED BY <2>1 DEF ChildInv, Ran
<1>13. CASE Audit
    BY <1>13, ChildSame DEF Audit
<1>14. CASE UNCHANGED vars
    BY <1>14, ChildSame DEF vars
<1> QED BY <1>1, <1>2, <1>3, <1>4, <1>5, <1>6, <1>7, <1>8, <1>9, <1>10, <1>11, <1>12, <1>13, <1>14
        DEF Next, Driver, Process

LEMMA SeenSame ==
    ASSUME KeptInv, BasesInv, UNCHANGED <<at, kept, Bases>>
    PROVE  KeptInv' /\ BasesInv'
BY DEF KeptInv, KeptFirst, KeptTurns, KeptLast, BasesInv, BasesFirst, BasesTurns, BasesLast

\* The steps within a run leave what was seen as it was.
LEMMA Steady ==
    ASSUME TypeInv, SeenInv, outcome' # "failed",
           \/ Check \/ Spawn \/ SeesExit \/ SeesMarker \/ TimesOut
           \/ ChildWorks \/ ChildExits \/ ChildCrashes \/ ChildHangs \/ Edit \/ TakeBack \/ Audit \/ UNCHANGED vars
    PROVE  UNCHANGED <<at, kept, Bases>> /\ outcome # "failed" /\ (phase' = "checked" => before' = Held')
<1> USE DEF evidence, tree
<1>1. CASE Check
    <2>1. UNCHANGED <<at, store, kept>> /\ phase = "next" /\ phase' = "checked" /\ before' = Held /\ outcome = "open"
        BY <1>1 DEF Check, Fail
    <2>2. Held' = Held /\ Step' = Step
        BY <2>1, Unmoved
    <2> QED BY <2>1, <2>2 DEF Bases, Ran
<1>2. CASE Spawn
    <2>1. /\ UNCHANGED <<at, store, kept, before>> /\ phase = "checked" /\ phase' = "running" /\ before = Held
          /\ outcome = "open"
        BY <1>2 DEF Spawn, SeenInv
    <2>2. Step' = Step
        BY <2>1, Unmoved
    <2> QED BY <2>1, <2>2 DEF Bases, Ran, Held
<1>3. CASE SeesExit \/ SeesMarker \/ TimesOut
    <2>1. UNCHANGED <<at, store, kept, before>> /\ phase = "running" /\ phase' = "recorded" /\ outcome = "open"
        BY <1>3, Ended
    <2>2. Step' = Step
        BY <2>1, Unmoved
    <2> QED BY <2>1, <2>2 DEF Bases, Ran
<1>4. CASE ChildWorks
    <2>1. UNCHANGED <<at, kept, before, phase, outcome>> /\ phase = "running"
        BY <1>4 DEF ChildWorks
    <2>2. Step' = Step
        BY <2>1, Unmoved
    <2> PICK h : Reports(h)
        BY <1>4, RightAndWrong
    <2>3. \A e \in Dataset \ {Step.dataset} : store'[e] = store[e]
        BY DEF Reports
    <2> QED BY <2>1, <2>2, <2>3 DEF Bases, Ran
<1>5. CASE ChildExits \/ ChildCrashes \/ ChildHangs \/ Edit \/ TakeBack \/ Audit \/ UNCHANGED vars
    <2>1. UNCHANGED <<at, kept, before, phase, store, outcome>>
        BY <1>5 DEF ChildExits, ChildCrashes, ChildHangs, Edit, TakeBack, Audit, vars
    <2>2. Step' = Step /\ Held' = Held
        BY <2>1, Unmoved
    <2> QED BY <2>1, <2>2 DEF Bases, Ran, SeenInv
<1> QED BY <1>1, <1>2, <1>3, <1>4, <1>5

\* Which reports a step keeps.
LEMMA KeptNames ==
    ASSUME at \in Runs
    PROVE  /\ "seeded" \in Kept <=> at = 2
           /\ "golden" \in Kept <=> at = 5
           /\ "observed" \in Kept <=> at = 15 + 2 * Rounds
           /\ at \in 3 .. 13 => "previous" \notin Kept
           /\ at = 2 => "previous" \in Kept
           /\ \A n \in 1 .. Rounds : /\ at = 12 + 2 * n => "previous" \in Kept
                                     /\ at = 13 + 2 * n => "previous" \notin Kept
<1>1. CASE AtFirst
    BY <1>1, RoundsAssumption DEF AtFirst, Is, Kept, Holding
<1>2. ASSUME NEW m \in 1 .. Rounds, AtTurn(m)
      PROVE  /\ at > 13 /\ at < 15 + 2 * Rounds /\ Step.like = "previous"
             /\ \A n \in 1 .. Rounds : /\ at = 12 + 2 * n => Step.mode = "advance"
                                       /\ at = 13 + 2 * n => Step.mode = "recover"
    BY <1>2, RoundsAssumption DEF AtTurn, Is
<1>3. CASE \E n \in 1 .. Rounds : AtTurn(n)
    <2> PICK m \in 1 .. Rounds : AtTurn(m)
        BY <1>3
    <2>1. /\ at > 13 /\ at < 15 + 2 * Rounds /\ Step.like = "previous" /\ Step.mode \in {"advance", "recover"}
          /\ \A n \in 1 .. Rounds : /\ at = 12 + 2 * n => Step.mode = "advance"
                                    /\ at = 13 + 2 * n => Step.mode = "recover"
        BY <1>2 DEF AtTurn, Is
    <2>2. Kept = (IF Step.mode = "advance" THEN {"previous"} ELSE {})
        BY <2>1 DEF Kept, Holding
    <2> QED BY <2>1, <2>2, RoundsAssumption
<1>4. CASE AtLast
    <2>1. at > 13 + 2 * Rounds /\ Step.like = "observed" /\ (at = 15 + 2 * Rounds <=> Step.mode = "seed")
          /\ (at = 16 + 2 * Rounds <=> Step.mode = "recover")
        BY <1>4, RoundsAssumption DEF AtLast, Is
    <2>2. "observed" \in Kept <=> at = 15 + 2 * Rounds
        BY <1>4, <2>1 DEF Kept, Holding, AtLast, Is
    <2>3. Kept \subseteq {"observed", "previous"}
        BY <2>1 DEF Kept
    <2> QED BY <2>1, <2>2, <2>3, RoundsAssumption
<1> QED BY <1>1, <1>3, <1>4, Position

\* What a process said and did whose run passed.
LEMMA Passed ==
    ASSUME TypeInv, ChildInv, phase = "recorded", Passes
    PROVE  /\ child.did /\ child.wellformed /\ (Holding \/ child.resent = 0)
           /\ child.said = (IF Holding THEN "marker" ELSE "report")
           /\ Step.mode = "recover" => /\ Held = before /\ child.authority = Authority(Held)
                                       /\ child.authority = kept[Step.like].authority
           /\ Step.mode = "seed" => child.authority = Authority(Worked(before))
           /\ Step.mode = "step" => SteppedOnce
           /\ Step.mode = "advance" => AdvancedOnce
           /\ Holding => /\ [child.authority EXCEPT !.other = 0] = kept[Step.like].authority
                         /\ child.authority.other = Held.other
<1>1. Ran /\ ~child.alive
    BY DEF Ran, TypeInv
<1>2. CASE Holding
    <2>1. child.code = 137
        BY <1>2 DEF Passes
    <2>2. child.said = "marker" /\ Marked /\ Spoken /\ child.did
        BY <1>1, <2>1 DEF ChildInv
    <2> QED BY <1>2, <2>2 DEF Marked, Spoken, Holding
<1>3. CASE ~Holding
    <2>1. child.code = 0 /\ (Step.mode = "recover" => Held = before) /\ Satisfied
        BY <1>3 DEF Passes
    <2>2. child.did /\ child.said = "report" /\ Spoken
        BY <1>1, <2>1 DEF ChildInv
    <2> QED BY <1>3, <2>1, <2>2 DEF Satisfied, Valid, SameAuthority, Spoken
<1> QED BY <1>2, <1>3

LEMMA SeedOfEmpty ==
    ASSUME Step.mode = "seed"
    PROVE  Authority(Worked(Empty)) = Shown(0, 0)
BY DEF Worked, Empty, Authority, Shown

LEMMA OnlyMark ==
    ASSUME NEW a \in Report, NEW n, NEW m, [a EXCEPT !.mark = m] = Shown(n, m)
    PROVE  a = Shown(n, a.mark)
<1> DEFINE c == [a EXCEPT !.mark = m]
<1>1. c.seeded = a.seeded /\ c.round = a.round /\ c.economic = a.economic /\ c.other = a.other
    BY DEF Report
<1>2. c = Shown(n, m)
    OBVIOUS
<1> HIDE DEF c
<1>3. a.seeded = 1 /\ a.round = n /\ a.economic = 0 /\ a.other = 0
    BY <1>1, <1>2 DEF Shown
<1> QED BY <1>3 DEF Report, Shown

\* What the reports and the datasets of a run that passed show.
LEMMA Values ==
    ASSUME TypeInv, ChildInv, KeptInv, BasesInv, phase = "recorded", Passes
    PROVE  /\ at = 2 => child.authority = Shown(0, 0)
           /\ at = 3 => Authority(Held) = Shown(0, 0)
           /\ at = 5 => child.authority = Shown(0, child.authority.mark)
           /\ \A n \in 1 .. Rounds :
                /\ at = 12 + 2 * n => child.authority = Shown(n, child.authority.mark)
                /\ at = 13 + 2 * n => Authority(Held) = kept["previous"].authority /\ Step.dataset = "store"
           /\ at = 15 + 2 * Rounds => child.authority = Shown(0, 0)
<1>1. before = Bases[Step.dataset] /\ Step.dataset \in Dataset /\ before \in Data
    BY AtRun DEF Bases, Ran, TypeInv
<1>2. ASSUME at = 2 PROVE child.authority = Shown(0, 0)
    <2>1. Step.mode = "seed" /\ Step.dataset = "store"
        BY <1>2, FirstSteps DEF Step, Run
    <2>2. before = Empty
        BY <1>1, <1>2, <2>1 DEF BasesInv, BasesFirst
    <2>3. child.authority = Authority(Worked(before))
        BY <2>1, Passed
    <2>4. Authority(Worked(Empty)) = Shown(0, 0)
        BY <2>1, SeedOfEmpty
    <2> QED BY <2>2, <2>3, <2>4
<1>3. ASSUME at = 3 PROVE Authority(Held) = Shown(0, 0)
    <2>1. Step.mode = "recover" /\ Step.like = "seeded"
        BY <1>3, FirstSteps DEF Step, Run
    <2>2. Authority(Held) = kept["seeded"].authority
        BY <2>1, Passed
    <2> QED BY <1>3, <2>2 DEF KeptInv, KeptFirst
<1>4. ASSUME at = 5 PROVE child.authority = Shown(0, child.authority.mark)
    <2>1. Step.mode = "step"
        BY <1>4, FirstSteps DEF Step, Run
    <2>2. child.authority = [kept["seeded"].authority EXCEPT !.mark = child.authority.mark]
        BY <2>1, Passed DEF SteppedOnce
    <2>3. kept["seeded"].authority = Shown(0, 0)
        BY <1>4 DEF KeptInv, KeptFirst
    <2>4. \A m : [Shown(0, 0) EXCEPT !.mark = m] = Shown(0, m)
        BY DEF Shown
    <2> QED BY <2>2, <2>3, <2>4
<1>5. ASSUME NEW n \in 1 .. Rounds, at = 12 + 2 * n
      PROVE  child.authority = Shown(n, child.authority.mark)
    <2>1. Step.mode = "advance"
        <3>1. Step = Run("advance", "store", "previous", n)
            BY <1>5, RoundSteps DEF Step
        <3> QED BY <3>1 DEF Run
    <2>2. [child.authority EXCEPT !.mark = 0] = [kept["previous"].authority EXCEPT !.round = @ + 1, !.mark = 0]
        BY <2>1, Passed DEF AdvancedOnce
    <2>3. kept["previous"].authority = Shown(n - 1, kept["previous"].authority.mark)
        BY <1>5 DEF KeptInv, KeptTurns
    <2> DEFINE m == kept["previous"].authority.mark
    <2>7. m \in Nat /\ n \in Nat
        BY DEF TypeInv, Child, Report, Names
    <2> HIDE DEF m
    <2>4. Onward(Shown(n - 1, m)) = Shown(n, 0)
        BY <2>7, NextRound
    <2>6. kept["previous"].authority = Shown(n - 1, m)
        BY <2>3 DEF m
    <2>5. [child.authority EXCEPT !.mark = 0] = Shown(n, 0) /\ child.authority \in Report
        BY <2>2, <2>4, <2>6 DEF TypeInv, Child, Onward
    <2> QED BY <2>5, OnlyMark
<1>6. ASSUME NEW n \in 1 .. Rounds, at = 13 + 2 * n
      PROVE  Authority(Held) = kept["previous"].authority /\ Step.dataset = "store"
    <2>1. Step.mode = "recover" /\ Step.like = "previous" /\ Step.dataset = "store"
        <3>1. Step = Run("recover", "store", "previous", n)
            BY <1>6, RoundSteps DEF Step
        <3> QED BY <3>1 DEF Run
    <2>2. Authority(Held) = kept["previous"].authority
        BY <2>1, Passed
    <2> QED BY <2>1, <2>2
<1>7. ASSUME at = 15 + 2 * Rounds PROVE child.authority = Shown(0, 0)
    <2>1. Step.mode = "seed" /\ Step.dataset = "observation"
        BY <1>7, LastSteps DEF Step, Run
    <2>2. before = Empty
        <3>1. at <= 15 + 2 * Rounds /\ "observation" \in Dataset
            BY <1>7, RoundsAssumption DEF Dataset
        <3>2. Bases["observation"] = Empty
            <4>1. BasesLast
                BY DEF BasesInv
            <4> QED BY <3>1, <4>1 DEF BasesLast
        <3> QED BY <1>1, <2>1, <3>2
    <2>3. child.authority = Authority(Worked(before))
        BY <2>1, Passed
    <2>4. Authority(Worked(Empty)) = Shown(0, 0)
        BY <2>1, SeedOfEmpty
    <2> QED BY <2>2, <2>3, <2>4
<1> QED BY <1>2, <1>3, <1>4, <1>5, <1>6, <1>7

\* Where the driver copies and writes.
LEMMA Others ==
    ASSUME at \in 1 .. Last, at \notin Runs
    PROVE  \/ at \in {4, 7, 10} /\ Step.op = "copy"
           \/ at \in {1, 13, 14 + 2 * Rounds} \cup (17 + 2 * Rounds .. Last) /\ Step.op = "write"
<1>1. at \notin Early /\ ~Turn(at) /\ at \notin Late
    BY WhichRuns
<1>2. CASE at \in 1 .. 13
    <2>1. at \in {1, 4, 7, 10, 13}
        BY <1>1, <1>2 DEF Early
    <2> QED BY <2>1, FirstSteps DEF Step, Copy, Write
<1>3. CASE at \in 14 .. 13 + 2 * Rounds
    BY <1>1, <1>3, Turns
<1>4. CASE at = 14 + 2 * Rounds
    BY <1>4, LastSteps DEF Step, Write
<1>5. CASE at \in 17 + 2 * Rounds .. Last
    BY <1>5, LastSteps DEF Step
<1>6. CASE at \in 15 + 2 * Rounds .. 16 + 2 * Rounds
    BY <1>1, <1>6, RoundsAssumption DEF Late
<1>7. at \in 1 .. 13 \/ at \in 14 .. 13 + 2 * Rounds \/ at = 14 + 2 * Rounds
      \/ at \in 15 + 2 * Rounds .. 16 + 2 * Rounds \/ at \in 17 + 2 * Rounds .. Last
    BY RoundsAssumption DEF Last
<1> QED BY <1>2, <1>3, <1>4, <1>5, <1>6, <1>7

\* A run that passes: what is kept of it, and what it leaves in its dataset.
LEMMA JudgeSees ==
    ASSUME TypeInv, ChildInv, SeenInv, Judge, Passes
    PROVE  KeptInv' /\ BasesInv'
<1>1. /\ outcome = "open" /\ phase = "recorded" /\ phase' = "next" /\ at' = at + 1 /\ store' = store
      /\ kept' = [k \in DOMAIN kept |-> IF k \in Kept THEN child ELSE kept[k]] /\ at \in Runs
      /\ KeptInv /\ BasesInv /\ DOMAIN kept = Names /\ at \in Int
    BY StepsAreNumbers DEF Judge, TypeInv, SeenInv
<1>2. \A k \in Names : kept'[k] = IF k \in Kept THEN child ELSE kept[k]
    BY <1>1
<1>3. \A d \in Dataset : Bases'[d] = store[d]
    BY <1>1 DEF Bases, Ran
<1>4. /\ \A d \in Dataset \ {Step.dataset} : Bases'[d] = Bases[d]
      /\ Step.dataset \in Dataset => Bases'[Step.dataset] = Held
    BY <1>1, <1>3 DEF Bases, Ran, Held
<1>5. /\ at = 2 => child.authority = Shown(0, 0)
      /\ at = 3 => Authority(Held) = Shown(0, 0)
      /\ at = 5 => child.authority = Shown(0, child.authority.mark)
    BY <1>1, Values
<1>6. \A n \in 1 .. Rounds :
        /\ at = 12 + 2 * n => child.authority = Shown(n, child.authority.mark)
        /\ at = 13 + 2 * n => Authority(Held) = kept["previous"].authority /\ Step.dataset = "store"
    BY <1>1, Values
<1>7. at = 15 + 2 * Rounds => child.authority = Shown(0, 0)
    BY <1>1, Values
<1>8. at > 1 /\ at \notin {4, 7, 10, 13}
    <2>1. Plan[4].op = "copy" /\ Plan[7].op = "copy" /\ Plan[10].op = "copy" /\ Plan[13].op = "write" /\ Plan[at].op = "run"
        BY <1>1, FirstSteps, RunIs DEF Copy, Write
    <2> QED BY <1>1, <2>1, RunsArePlanned
<1>9. KeptFirst'
    <2>1. /\ "seeded" \in Kept <=> at = 2
          /\ "golden" \in Kept <=> at = 5
          /\ at \in 3 .. 13 => "previous" \notin Kept
          /\ at = 2 => "previous" \in Kept
        BY <1>1, KeptNames
    <2>2. at' > 2 => kept'["seeded"].authority = Shown(0, 0)
        BY <1>1, <1>2, <1>5, <1>8, <2>1 DEF KeptInv, KeptFirst, Names
    <2>3. at' \in 3 .. 13 => kept'["previous"].authority = Shown(0, 0)
        BY <1>1, <1>2, <1>5, <1>8, <2>1 DEF KeptInv, KeptFirst, Names
    <2>4. at' \in 6 .. 12 => kept'["golden"].authority = Shown(0, kept'["golden"].authority.mark)
        BY <1>1, <1>2, <1>5, <1>8, <2>1 DEF KeptInv, KeptFirst, Names
    <2> QED BY <2>2, <2>3, <2>4 DEF KeptFirst
<1>10. KeptTurns'
    <2>1. \A n \in 1 .. Rounds : /\ at = 12 + 2 * n => "previous" \in Kept
                                 /\ at = 13 + 2 * n => "previous" \notin Kept
        BY <1>1, KeptNames
    <2> SUFFICES ASSUME NEW n \in 1 .. Rounds
                 PROVE  /\ at + 1 = 12 + 2 * n =>
                             kept'["previous"].authority = Shown(n - 1, kept'["previous"].authority.mark)
                        /\ at + 1 = 13 + 2 * n =>
                             kept'["previous"].authority = Shown(n, kept'["previous"].authority.mark)
        BY <1>1 DEF KeptTurns
    <2>2. ASSUME at + 1 = 13 + 2 * n
          PROVE  kept'["previous"].authority = Shown(n, kept'["previous"].authority.mark)
        <3>1. at = 12 + 2 * n
            BY <1>1, <2>2
        <3> QED BY <1>2, <1>6, <2>1, <3>1 DEF Names
    <2>3. ASSUME at + 1 = 12 + 2 * n
          PROVE  kept'["previous"].authority = Shown(n - 1, kept'["previous"].authority.mark)
        <3>1. at = 13 + 2 * (n - 1) /\ n - 1 \in 1 .. Rounds
            <4>1. at \in Int /\ at # 13
                BY <1>1, <1>8
            <4> QED BY <2>3, <4>1, RoundsAssumption
        <3>2. kept["previous"].authority = Shown(n - 1, kept["previous"].authority.mark)
            BY <1>1, <3>1 DEF KeptInv, KeptTurns
        <3> QED BY <1>2, <2>1, <3>1, <3>2 DEF Names
    <2> QED BY <2>2, <2>3
<1>11. KeptLast'
    <2>1. at' = 16 + 2 * Rounds => at = 15 + 2 * Rounds /\ "observed" \in Kept
        BY <1>1, KeptNames, RoundsAssumption
    <2> QED BY <1>2, <1>7, <2>1 DEF KeptLast, Names
<1>12. BasesFirst'
    <2>1. at' \in 4 .. 13 => Authority(Bases'["store"]) = Shown(0, 0)
        <3>1. CASE at = 3
            <4>1. Step.dataset = "store"
                BY <3>1, FirstSteps DEF Step, Run
            <4> QED BY <1>4, <1>5, <3>1, <4>1 DEF Dataset
        <3>2. CASE at \in 4 .. 12
            <4>1. Step.dataset # "store"
                <5>1. at \in {5, 6, 8, 9, 11, 12}
                    BY <1>8, <3>2
                <5> QED BY <5>1, FirstSteps DEF Step, Run
            <4>2. "store" \in Dataset \ {Step.dataset}
                BY <4>1 DEF Dataset
            <4> QED BY <1>1, <1>4, <3>2, <4>2 DEF BasesInv, BasesFirst
        <3> QED BY <1>1, <3>1, <3>2
    <2> QED BY <1>1, <1>8, <2>1 DEF BasesFirst
<1>13. BasesTurns'
    <2> SUFFICES ASSUME NEW n \in 1 .. Rounds, at + 1 = 12 + 2 * n
                 PROVE  Authority(Bases'["store"]) = kept'["previous"].authority
        BY <1>1 DEF BasesTurns
    <2>1. at = 13 + 2 * (n - 1) /\ n - 1 \in 1 .. Rounds
        <3>1. at \in Int /\ at # 13
            BY <1>1, <1>8
        <3> QED BY <3>1, RoundsAssumption
    <2>2. Authority(Held) = kept["previous"].authority /\ Step.dataset = "store"
        BY <1>6, <2>1
    <2>3. kept'["previous"] = kept["previous"]
        BY <1>1, <1>2, <2>1, KeptNames DEF Names
    <2> QED BY <1>4, <2>2, <2>3 DEF Dataset
<1>14. BasesLast'
    <2> SUFFICES ASSUME at + 1 <= 15 + 2 * Rounds PROVE Bases'["observation"] = Empty
        BY <1>1 DEF BasesLast
    <2>1. at \in Early \/ Turn(at)
        <3>1. at \notin Late
            BY <1>1, RoundsAssumption DEF Late
        <3> QED BY <1>1, <3>1, WhichRuns, RunIs
    <2>2. Step.dataset # "observation"
        <3>1. CASE at \in Early
            BY <3>1, FirstSteps DEF Early, Step, Run
        <3>2. CASE Turn(at)
            <4> PICK n \in 1 .. Rounds : at = 12 + 2 * n \/ at = 13 + 2 * n
                BY <3>2 DEF Turn
            <4>1. Step \in {Run("advance", "store", "previous", n), Run("recover", "store", "previous", n)}
                BY RoundSteps DEF Step
            <4> QED BY <4>1 DEF Run
        <3> QED BY <2>1, <3>1, <3>2
    <2>3. "observation" \in Dataset \ {Step.dataset}
        BY <2>2 DEF Dataset
    <2>4. at <= 15 + 2 * Rounds
        BY <1>1, RoundsAssumption
    <2> QED BY <1>1, <1>4, <2>3, <2>4 DEF BasesInv, BasesLast
<1> QED BY <1>9, <1>10, <1>11, <1>12, <1>13, <1>14 DEF KeptInv, BasesInv

\* The driver's own steps between the runs.
LEMMA BetweenRuns ==
    ASSUME TypeInv, CopyStore \/ WriteFile
    PROVE  /\ phase = "next" /\ phase' = "next" /\ outcome = "open" /\ outcome' # "failed"
           /\ at \in 1 .. Last /\ at \notin Runs /\ UNCHANGED <<kept, child, defects, troubles, drifted>>
           /\ \/ CopyStore /\ at \in {4, 7, 10} /\ at' = at + 1
              \/ WriteFile /\ at \in {1, 13, 14 + 2 * Rounds} \cup (17 + 2 * Rounds .. Last)
                 /\ store' = store /\ at' \in {at, at + 1} /\ (at' = at => at = Last)
<1>1. at \in 1 .. Last /\ Len(Plan) = Last
    BY PlanIs DEF TypeInv
<1>2. at \notin Runs
    BY DEF CopyStore, WriteFile, Runs, Step
<1>3. CASE CopyStore
    <2>1. Step.op = "copy"
        BY <1>3 DEF CopyStore
    <2>2. at \in {4, 7, 10}
        BY <1>1, <1>2, <2>1, Others
    <2> QED BY <1>1, <1>2, <1>3, <2>2 DEF CopyStore, NextStep, evidence, tree
<1>4. CASE WriteFile
    <2>1. Step.op = "write"
        BY <1>4 DEF WriteFile
    <2>2. at \in {1, 13, 14 + 2 * Rounds} \cup (17 + 2 * Rounds .. Last)
        BY <1>1, <1>2, <2>1, Others
    <2> QED BY <1>1, <1>2, <1>4, <2>2 DEF WriteFile, NextStep, evidence, tree
<1> QED BY <1>3, <1>4

LEMMA CopySees ==
    ASSUME TypeInv, KeptInv, BasesInv, CopyStore
    PROVE  KeptInv' /\ BasesInv'
<1>1. phase = "next" /\ phase' = "next" /\ at \in {4, 7, 10} /\ at' = at + 1 /\ kept' = kept
    BY BetweenRuns DEF CopyStore, WriteFile
<1>2. \A d \in Dataset : Bases[d] = store[d] /\ Bases'[d] = store'[d]
    BY <1>1 DEF Bases, Ran
<1>3. /\ at = 4 => Step.dataset = "step-golden"
      /\ at = 7 => Step.dataset = "hold-before-step"
      /\ at = 10 => Step.dataset = "hold-after-step"
    BY FirstSteps DEF Step, Copy
<1>4. store' = [store EXCEPT ![Step.dataset] = store["store"]] /\ DOMAIN store = Dataset
    BY DEF CopyStore, TypeInv
<1>5. Step.dataset \in Dataset \ {"store", "observation"}
    BY <1>1, <1>3 DEF Dataset
<1>6. store'[Step.dataset] = store["store"] /\ store'["store"] = store["store"] /\ store'["observation"] = store["observation"]
    BY <1>4, <1>5 DEF Dataset
<1>7. Authority(store["store"]) = Shown(0, 0)
    <2>1. Authority(Bases["store"]) = Shown(0, 0)
        BY <1>1 DEF BasesInv, BasesFirst
    <2> QED BY <1>2, <2>1 DEF Dataset
<1>8. KeptInv'
    BY <1>1, RoundsAssumption DEF KeptInv, KeptFirst, KeptTurns, KeptLast
<1>9. BasesFirst'
    <2>1. Authority(Bases'["store"]) = Shown(0, 0)
        BY <1>2, <1>6, <1>7 DEF Dataset
    <2>2. Authority(Bases'[Step.dataset]) = Shown(0, 0)
        BY <1>2, <1>5, <1>6, <1>7
    <2> QED BY <1>1, <1>3, <2>1, <2>2 DEF BasesFirst
<1>10. BasesTurns'
    BY <1>1 DEF BasesTurns
<1>11. BasesLast'
    <2>1. Bases["observation"] = Empty
        <3>1. BasesLast /\ at <= 15 + 2 * Rounds
            BY <1>1, RoundsAssumption DEF BasesInv
        <3> QED BY <3>1 DEF BasesLast
    <2> QED BY <1>2, <1>6, <2>1 DEF BasesLast, Dataset
<1> QED BY <1>8, <1>9, <1>10, <1>11 DEF BasesInv

LEMMA WriteSees ==
    ASSUME TypeInv, KeptInv, BasesInv, WriteFile
    PROVE  KeptInv' /\ BasesInv'
<1>1. /\ phase = "next" /\ phase' = "next" /\ at' \in {at, at + 1} /\ kept' = kept /\ store' = store
      /\ at \in {1, 13, 14 + 2 * Rounds} \cup (17 + 2 * Rounds .. Last)
    BY BetweenRuns DEF CopyStore, WriteFile
<1>2. Bases' = Bases
    BY <1>1 DEF Bases, Ran
<1>3. CASE at' = at
    BY <1>1, <1>2, <1>3, SeenSame
<1>4. CASE at = 1 /\ at' = at + 1
    <2>1. at' = 2
        BY <1>4
    <2>2. KeptInv'
        BY <2>1, RoundsAssumption DEF KeptInv, KeptFirst, KeptTurns, KeptLast
    <2>3. Bases["store"] = Empty /\ Bases["observation"] = Empty
        BY <1>4, RoundsAssumption DEF BasesInv, BasesFirst, BasesLast
    <2> QED BY <1>2, <2>1, <2>2, <2>3 DEF BasesInv, BasesFirst, BasesTurns, BasesLast
<1>5. CASE at = 13 /\ at' = at + 1
    <2>1. at' = 14
        BY <1>5
    <2>2. kept["seeded"].authority = Shown(0, 0) /\ kept["previous"].authority = Shown(0, 0)
        BY <1>5 DEF KeptInv, KeptFirst
    <2>3. Authority(Bases["store"]) = Shown(0, 0) /\ Bases["observation"] = Empty
        BY <1>5, RoundsAssumption DEF BasesInv, BasesFirst, BasesLast
    <2>4. KeptFirst' /\ KeptLast'
        BY <1>1, <2>1, <2>2, RoundsAssumption DEF KeptFirst, KeptLast
    <2>5. \A n \in 1 .. Rounds : (14 = 12 + 2 * n => n = 1) /\ 14 # 13 + 2 * n
        OBVIOUS
    <2>8. Shown(0, 0).mark = 0
        BY DEF Shown
    <2>6. KeptTurns' /\ BasesTurns'
        BY <1>1, <1>2, <2>1, <2>2, <2>3, <2>5, <2>8 DEF KeptTurns, BasesTurns
    <2>7. BasesFirst' /\ BasesLast'
        BY <1>2, <2>1, <2>3 DEF BasesFirst, BasesLast
    <2> QED BY <2>4, <2>6, <2>7 DEF KeptInv, BasesInv
<1>6. CASE at \in {14 + 2 * Rounds} \cup (17 + 2 * Rounds .. Last) /\ at' = at + 1
    <2>1. /\ at > 13 /\ at' > 14 + 2 * Rounds /\ at' # 16 + 2 * Rounds
          /\ at' <= 15 + 2 * Rounds => at <= 15 + 2 * Rounds
        BY <1>6, RoundsAssumption DEF Last
    <2>2. KeptFirst' /\ KeptLast'
        BY <1>1, <2>1, RoundsAssumption DEF KeptInv, KeptFirst, KeptLast
    <2>3. \A n \in 1 .. Rounds : 13 + 2 * n <= 13 + 2 * Rounds /\ 12 + 2 * n <= 13 + 2 * Rounds
        BY RoundsAssumption
    <2>4. KeptTurns' /\ BasesTurns'
        BY <1>6, <2>1, <2>3, RoundsAssumption DEF KeptTurns, BasesTurns, Last
    <2>5. BasesFirst' /\ BasesLast'
        BY <1>2, <1>6, <2>1, RoundsAssumption DEF BasesInv, BasesFirst, BasesLast, Last
    <2> QED BY <2>2, <2>4, <2>5 DEF KeptInv, BasesInv
<1> QED BY <1>1, <1>3, <1>4, <1>5, <1>6

LEMMA SeenStep == TypeInv /\ ChildInv /\ SeenInv /\ [Next]_vars => SeenInv'
<1> SUFFICES ASSUME TypeInv, ChildInv, SeenInv, [Next]_vars, outcome' # "failed"
             PROVE  KeptInv' /\ BasesInv' /\ (phase' = "checked" => before' = Held')
    BY DEF SeenInv
<1>1. CASE \/ Check \/ Spawn \/ SeesExit \/ SeesMarker \/ TimesOut
           \/ ChildWorks \/ ChildExits \/ ChildCrashes \/ ChildHangs \/ Edit \/ TakeBack \/ Audit \/ UNCHANGED vars
    BY <1>1, Steady, SeenSame DEF SeenInv
<1>2. CASE Sticks
    BY <1>2 DEF Sticks, Fail
<1>3. CASE Judge
    <2>1. Passes /\ phase' = "next"
        BY <1>3 DEF Judge, Fail
    <2> QED BY <1>3, <2>1, JudgeSees
<1>4. CASE CopyStore \/ WriteFile
    BY <1>4, BetweenRuns, CopySees, WriteSees DEF SeenInv
<1>5. CASE Tamper
    <2>1. UNCHANGED <<at, phase, kept, outcome>> /\ outcome = "passed"
        BY <1>5 DEF Tamper
    <2>2. at = Last /\ phase' = "next"
        BY <2>1 DEF TypeInv
    <2>3. at' = 20 + 2 * Rounds
        BY <2>1, <2>2 DEF Last
    <2>4. BasesInv'
        <3>1. ~(at' <= 13) /\ ~(at' <= 15 + 2 * Rounds) /\ \A n \in 1 .. Rounds : at' # 12 + 2 * n
            BY <2>3, RoundsAssumption
        <3>2. BasesFirst'
            BY <2>3, RoundsAssumption DEF BasesFirst
        <3> QED BY <3>1, <3>2 DEF BasesInv, BasesTurns, BasesLast
    <2>5. KeptInv'
        BY <2>1 DEF SeenInv, KeptInv, KeptFirst, KeptTurns, KeptLast
    <2> QED BY <2>2, <2>4, <2>5
<1> QED BY <1>1, <1>2, <1>3, <1>4, <1>5 DEF Next, Driver, Process

-----------------------------------------------------------------------------
(* The two steps that are compared with each other: how often each was taken *)
(* is in the report and the marker, and in nothing else.                     *)

PairInv ==
    outcome # "failed" =>
      /\ at < 5 \/ (at = 5 /\ ~(Ran /\ child.did)) => StepTwice \notin defects
      /\ at < 11 \/ (at = 11 /\ ~(Ran /\ child.did)) => HoldTwice \notin defects
      /\ at = 5 /\ Ran /\ child.said = "report" =>
           child.authority.mark = (IF StepTwice \in defects THEN 2 ELSE 1)
      /\ at \in 6 .. 11 => kept["golden"].authority.mark = (IF StepTwice \in defects THEN 2 ELSE 1)
      /\ at = 11 /\ Ran /\ child.said = "marker" =>
           child.authority.mark = (IF HoldTwice \in defects THEN 2 ELSE 1)
      /\ at >= 12 => (StepTwice \in defects <=> HoldTwice \in defects)

LEMMA FirstPair == Init => PairInv
BY DEF Init, PairInv, Ran

LEMMA PairStays ==
    ASSUME PairInv, outcome # "failed", UNCHANGED <<at, kept, defects>>,
           Ran /\ child.did => Ran' /\ child'.did,
           Ran' /\ child'.said \in {"report", "marker"} =>
             Ran /\ child.said = child'.said /\ child.authority = child'.authority
    PROVE  PairInv'
BY DEF PairInv

LEMMA PairStep == TypeInv /\ ChildInv /\ SeenInv /\ PairInv /\ [Next]_vars => PairInv'
<1> SUFFICES ASSUME TypeInv, ChildInv, SeenInv, PairInv, [Next]_vars, outcome' # "failed"
             PROVE  PairInv'
    BY DEF PairInv
<1> USE DEF evidence, tree
<1>a. at \in Int /\ Runs \subseteq Int
    BY StepsAreNumbers
<1>1. CASE Check
    <2>1. UNCHANGED <<at, kept, defects>> /\ ~Ran /\ ~Ran' /\ outcome = "open"
        BY <1>1 DEF Check, Fail, Ran
    <2> QED BY <2>1, PairStays
<1>2. CASE Spawn
    <2>1. UNCHANGED <<at, kept, defects>> /\ ~Ran /\ child' = Fresh /\ outcome = "open"
        BY <1>2 DEF Spawn, Ran
    <2> QED BY <2>1, PairStays DEF Fresh
<1>3. CASE SeesExit \/ SeesMarker \/ TimesOut
    <2>1. /\ UNCHANGED <<at, kept, defects>> /\ Ran /\ Ran' /\ outcome = "open"
          /\ child' \in {child, Interrupted, TimedOut} /\ child \in Child
        BY <1>3, Ended DEF Ran, TypeInv
    <2>2. /\ child'.did = child.did /\ child'.authority = child.authority
          /\ child'.said = child.said \/ child'.said = "timed_out"
        BY <2>1 DEF Interrupted, TimedOut, Child
    <2> QED BY <2>1, <2>2, PairStays
<1>4. CASE Sticks
    BY <1>4 DEF Sticks, Fail
<1>5. CASE Judge
    <2>1. /\ Passes /\ phase = "recorded" /\ phase' = "next" /\ at' = at + 1 /\ outcome = "open" /\ at \in Runs
          /\ UNCHANGED <<defects, child>> /\ Ran /\ ~Ran' /\ DOMAIN kept = Names
          /\ kept' = [k \in DOMAIN kept |-> IF k \in Kept THEN child ELSE kept[k]]
        BY <1>5 DEF Judge, Fail, Ran, TypeInv
    <2>2. /\ child.did /\ child.said = (IF Holding THEN "marker" ELSE "report")
          /\ Holding => [child.authority EXCEPT !.other = 0] = kept[Step.like].authority
        BY <2>1, Passed
    <2>3. kept'["golden"] = (IF at = 5 THEN child ELSE kept["golden"])
        <3>1. "golden" \in Kept <=> at = 5
            BY <2>1, KeptNames
        <3> QED BY <2>1, <3>1 DEF Names
    <2>4. at # 4 /\ at # 10
        BY <2>1, FirstSteps, RunIs DEF Copy
    <2>5. CASE at = 5
        <3>1. ~Holding
            BY <2>5, FirstSteps DEF Step, Run, Holding
        <3> QED BY <2>1, <2>2, <2>3, <2>5, <3>1 DEF PairInv
    <2>6. CASE at = 11
        <3>1. Holding /\ Step.like = "golden"
            BY <2>6, FirstSteps DEF Step, Run, Holding
        <3>2. child.authority \in Report
            BY DEF TypeInv, Child
        <3>3. child.authority.mark = kept["golden"].authority.mark
            <4>1. [child.authority EXCEPT !.other = 0].mark = child.authority.mark
                BY <3>2 DEF Report
            <4> QED BY <2>2, <3>1, <4>1
        <3> QED BY <2>1, <2>2, <2>3, <2>6, <3>1, <3>3 DEF PairInv
    <2>7. CASE at # 5 /\ at # 11
        <3>1. /\ at' < 5 \/ (at' = 5 /\ TRUE) => at < 5
              /\ at' < 11 \/ (at' = 11 /\ TRUE) => at < 11
              /\ at' \in 6 .. 11 => at \in 6 .. 11
              /\ at' >= 12 => at >= 12
            BY <1>a, <2>1, <2>4, <2>7
        <3> QED BY <2>1, <2>3, <2>7, <3>1 DEF PairInv
    <2> QED BY <2>5, <2>6, <2>7
<1>6. CASE CopyStore \/ WriteFile
    <2>1. /\ phase = "next" /\ phase' = "next" /\ outcome = "open" /\ UNCHANGED <<kept, defects>>
          /\ at' \in {at, at + 1} /\ at \in {1, 4, 7, 10, 13, 14 + 2 * Rounds} \cup (17 + 2 * Rounds .. Last)
        BY <1>6, BetweenRuns
    <2>2. ~Ran /\ ~Ran'
        BY <2>1 DEF Ran
    <2>3. at \in {1, 4, 7, 10} \/ at >= 12
        BY <1>a, <2>1, RoundsAssumption
    <2>4. CASE at \in {1, 4, 7, 10}
        BY <2>1, <2>2, <2>4 DEF PairInv
    <2>5. CASE at >= 12
        BY <1>a, <2>1, <2>2, <2>5 DEF PairInv
    <2> QED BY <2>3, <2>4, <2>5
<1>7. CASE ChildWorks
    <2>1. /\ phase = "running" /\ child.alive /\ ~child.did /\ UNCHANGED <<at, phase, outcome, before, kept>>
          /\ outcome # "failed"
        BY <1>7 DEF ChildWorks
    <2> PICK h : Reports(h) /\ Wrongs(h)
        BY <1>7, RightAndWrong
    <2>2. Ran /\ Ran' /\ child'.did = TRUE /\ child'.said = (IF Holding THEN "marker" ELSE "report")
        BY <2>1 DEF Ran, Reports
    <2>3. Held = before /\ before \in Data /\ Step.dataset \in Dataset /\ before = Bases[Step.dataset]
        BY <2>1, <2>2, AtRun DEF ChildInv, TypeInv, Bases
    <2>4. BasesFirst
        BY <2>1 DEF SeenInv, BasesInv
    <2>6. CASE at = 5
        <3>1. Step.mode = "step" /\ Step.dataset = "step-golden"
            BY <2>6, FirstSteps DEF Step, Run
        <3>2. Held.mark = 0
            BY <2>3, <2>4, <2>6, <3>1 DEF BasesFirst, Authority, Shown
        <3>3. StepTwice \notin defects /\ HoldTwice \notin defects
            BY <2>1, <2>6 DEF PairInv
        <3>4. CASE /\ defects' = defects /\ h = Worked(Held) /\ child'.authority = Authority(h)
            <4>1. child'.authority.mark = 1
                BY <2>3, <3>1, <3>2, <3>4, WorkIs DEF Authority
            <4> QED BY <2>1, <2>2, <2>6, <3>3, <3>4, <4>1 DEF PairInv
        <3>5. CASE \E w : /\ defects' = defects \cup {<<w, Step.mode>>}
                          /\ child'.authority.mark = Held.mark + (IF w = "twice" THEN 2 ELSE 1)
            <4> PICK w : /\ defects' = defects \cup {<<w, Step.mode>>}
                         /\ child'.authority.mark = Held.mark + (IF w = "twice" THEN 2 ELSE 1)
                BY <3>5
            <4>1. HoldTwice \notin defects' /\ (StepTwice \in defects' <=> w = "twice")
                BY <3>1, <3>3 DEF StepTwice, HoldTwice
            <4>2. child'.authority.mark = (IF StepTwice \in defects' THEN 2 ELSE 1)
                BY <3>2, <4>1
            <4> QED BY <2>1, <2>2, <2>6, <4>1, <4>2 DEF PairInv
        <3> QED BY <3>1, <3>4, <3>5 DEF Wrongs, Wronged
    <2>7. CASE at = 11
        <3>1. Step.mode = "hold-after-step" /\ Step.dataset = "hold-after-step"
            BY <2>7, FirstSteps DEF Step, Run
        <3>2. Held.mark = 0
            BY <2>3, <2>4, <2>7, <3>1 DEF BasesFirst, Authority, Shown
        <3>3. HoldTwice \notin defects
            BY <2>1, <2>7 DEF PairInv
        <3>4. CASE /\ defects' = defects /\ h = Worked(Held) /\ child'.authority = Authority(h)
            <4>1. child'.authority.mark = 1
                BY <2>3, <3>1, <3>2, <3>4, WorkIs DEF Authority
            <4> QED BY <2>1, <2>2, <2>7, <3>3, <3>4, <4>1 DEF PairInv
        <3>5. CASE \E w : /\ defects' = defects \cup {<<w, Step.mode>>}
                          /\ child'.authority.mark = Held.mark + (IF w = "twice" THEN 2 ELSE 1)
            <4> PICK w : /\ defects' = defects \cup {<<w, Step.mode>>}
                         /\ child'.authority.mark = Held.mark + (IF w = "twice" THEN 2 ELSE 1)
                BY <3>5
            <4>1. (StepTwice \in defects' <=> StepTwice \in defects) /\ (HoldTwice \in defects' <=> w = "twice")
                BY <3>1, <3>3 DEF StepTwice, HoldTwice
            <4>2. child'.authority.mark = (IF HoldTwice \in defects' THEN 2 ELSE 1)
                BY <3>2, <4>1
            <4> QED BY <2>1, <2>2, <2>7, <4>1, <4>2 DEF PairInv
        <3> QED BY <3>1, <3>4, <3>5 DEF Wrongs, Wronged
    <2>8. CASE at # 5 /\ at # 11
        <3>1. at \in Runs
            BY <2>1 DEF TypeInv
        <3>2. Step.mode \notin {"step", "hold-after-step"}
            BY <2>8, <3>1, Position DEF AtFirst, AtTurn, AtLast, Is
        <3>3. (StepTwice \in defects' <=> StepTwice \in defects) /\ (HoldTwice \in defects' <=> HoldTwice \in defects)
            BY <3>2 DEF Wrongs, Wronged, StepTwice, HoldTwice
        <3> QED BY <2>1, <2>8, <3>3 DEF PairInv
    <2> QED BY <2>6, <2>7, <2>8
<1>8. CASE ChildExits
    <2>1. /\ UNCHANGED <<at, phase, kept, defects, outcome>> /\ child.alive /\ child' = [child EXCEPT !.alive = FALSE]
          /\ child \in Child
        BY <1>8 DEF ChildExits, TypeInv
    <2>2. child'.did = child.did /\ child'.said = child.said /\ child'.authority = child.authority
        BY <2>1 DEF Child
    <2> QED BY <2>1, <2>2, PairStays DEF Ran
<1>9. CASE ChildCrashes
    <2>1. /\ UNCHANGED <<at, phase, kept, defects, outcome>> /\ child \in Child
          /\ child' = [child EXCEPT !.alive = FALSE, !.code = 1, !.said = "nothing"]
        BY <1>9 DEF ChildCrashes, TypeInv
    <2>2. child'.did = child.did /\ child'.said = "nothing"
        BY <2>1 DEF Child
    <2> QED BY <2>1, <2>2, PairStays DEF Ran
<1>10. CASE ChildHangs
    <2>1. /\ UNCHANGED <<at, phase, kept, defects, outcome>> /\ child \in Child
          /\ child' = [child EXCEPT !.did = TRUE, !.said = "hung"]
        BY <1>10 DEF ChildHangs, TypeInv
    <2>2. child'.did = TRUE /\ child'.said = "hung"
        BY <2>1 DEF Child
    <2> QED BY <2>1, <2>2, PairStays DEF Ran
<1>11. CASE Edit \/ TakeBack \/ Audit \/ Tamper \/ UNCHANGED vars
    <2>1. UNCHANGED <<at, phase, kept, defects, outcome, child>>
        BY <1>11 DEF Edit, TakeBack, Audit, Tamper, vars
    <2> QED BY <2>1, PairStays DEF Ran
<1> QED BY <1>1, <1>2, <1>3, <1>4, <1>5, <1>6, <1>7, <1>8, <1>9, <1>10, <1>11 DEF Next, Driver, Process

-----------------------------------------------------------------------------
(* Wrongs: whether what went wrong is still to be seen.                    *)

\* The recovery the driver is at was given what it should find.
Found == at \in Runs /\ Step.mode = "recover" => Authority(Bases[Step.dataset]) = kept[Step.like].authority
Sound == Found /\ (Ran /\ child.did => Innocent)

WrongInv ==
    outcome # "failed" =>
      /\ Sound => \A w \in defects : Excused(w)
      /\ defects = {} /\ troubles = 0 => Sound

LEMMA FirstWrong == Init => WrongInv
<1> SUFFICES ASSUME Init PROVE WrongInv
    OBVIOUS
<1>1. at = 1 /\ ~Ran /\ defects = {}
    BY DEF Init, Ran
<1> QED BY <1>1, RunsArePlanned DEF WrongInv, Sound, Found

LEMMA PlacesSame ==
    ASSUME UNCHANGED <<at, kept, Bases>>
    PROVE  (Found' <=> Found)
<1>1. Step' = Step
    BY Unmoved
<1> QED BY <1>1 DEF Found

LEMMA AskedSame ==
    ASSUME UNCHANGED <<at, before>>
    PROVE  \A h : Asked(h, before)' <=> Asked(h, before)
<1>1. Step' = Step
    BY Unmoved
<1> QED BY <1>1 DEF Asked, Worked

\* No step within a run but the work of the process changes what is to be seen;
\* a hang may hide what was not done, and is a trouble.
LEMMA QuietSteps ==
    ASSUME TypeInv, ChildInv, SeenInv, outcome' # "failed",
           \/ Check \/ Spawn \/ SeesExit \/ SeesMarker \/ TimesOut
           \/ ChildExits \/ ChildCrashes \/ ChildHangs \/ Edit \/ TakeBack \/ Audit \/ UNCHANGED vars
    PROVE  /\ defects' = defects /\ (troubles' = 0 => troubles = 0)
           /\ Sound' => Sound
           /\ troubles' = 0 /\ Sound => Sound'
<1> USE DEF evidence, tree
<1>1. UNCHANGED <<at, kept, Bases>>
    BY Steady
<1>2. (Found' <=> Found)
    BY <1>1, PlacesSame
<1>3. CASE Check
    <2>1. ~Ran /\ ~Ran' /\ UNCHANGED <<defects, troubles>>
        BY <1>3 DEF Check, Fail, Ran
    <2> QED BY <1>2, <2>1 DEF Sound
<1>4. CASE Spawn
    <2>1. ~Ran /\ ~child'.did /\ UNCHANGED <<defects, troubles>>
        BY <1>4 DEF Spawn, Ran, Fresh
    <2> QED BY <1>2, <2>1 DEF Sound
<1>5. ASSUME Ran, Ran', UNCHANGED <<at, store, before, defects>>, troubles' = 0 => troubles = 0,
             child'.authority = child.authority, child'.wellformed = child.wellformed,
             child'.resent = child.resent,
             child'.did = child.did \/ (troubles' # 0 /\ child'.did = TRUE)
      PROVE  /\ defects' = defects /\ (troubles' = 0 => troubles = 0)
             /\ Sound' => Sound
             /\ troubles' = 0 /\ Sound => Sound'
    <2>1. /\ Step' = Step /\ (Holding' <=> Holding) /\ Held' = Held
        BY <1>5, Unmoved
    <2>2. Innocent' <=> Innocent
        BY <1>5, <2>1, AskedSame DEF Innocent
    <2> QED BY <1>2, <1>5, <2>2 DEF Sound
<1>6. CASE SeesExit \/ SeesMarker \/ TimesOut
    <2>1. /\ Ran /\ Ran' /\ UNCHANGED <<at, store, before, defects, troubles>>
          /\ child' \in {child, Interrupted, TimedOut} /\ child \in Child
        BY <1>6, Ended DEF Ran, TypeInv
    <2>2. /\ child'.authority = child.authority /\ child'.wellformed = child.wellformed
          /\ child'.resent = child.resent /\ child'.did = child.did
        BY <2>1 DEF Interrupted, TimedOut, Child
    <2> QED BY <1>5, <2>1, <2>2
<1>7. CASE ChildExits
    <2>1. /\ Ran /\ Ran' /\ UNCHANGED <<at, store, before, defects, troubles>>
          /\ child' = [child EXCEPT !.alive = FALSE] /\ child \in Child
        BY <1>7 DEF Ran, ChildExits, TypeInv
    <2>2. /\ child'.authority = child.authority /\ child'.wellformed = child.wellformed
          /\ child'.resent = child.resent /\ child'.did = child.did
        BY <2>1 DEF Child
    <2> QED BY <1>5, <2>1, <2>2
<1>8. CASE ChildCrashes
    <2>1. /\ Ran /\ Ran' /\ UNCHANGED <<at, store, before, defects>> /\ (troubles' = 0 => troubles = 0)
          /\ child' = [child EXCEPT !.alive = FALSE, !.code = 1, !.said = "nothing"] /\ child \in Child
        BY <1>8 DEF Ran, ChildCrashes, TypeInv
    <2>2. /\ child'.authority = child.authority /\ child'.wellformed = child.wellformed
          /\ child'.resent = child.resent /\ child'.did = child.did
        BY <2>1 DEF Child
    <2> QED BY <1>5, <2>1, <2>2
<1>9. CASE ChildHangs
    <2>1. /\ Ran /\ Ran' /\ UNCHANGED <<at, store, before, defects>> /\ troubles' # 0
          /\ child' = [child EXCEPT !.did = TRUE, !.said = "hung"] /\ child \in Child
        BY <1>9 DEF Ran, ChildHangs, TypeInv
    <2>2. /\ child'.authority = child.authority /\ child'.wellformed = child.wellformed
          /\ child'.resent = child.resent /\ child'.did = TRUE
        BY <2>1 DEF Child
    <2> QED BY <1>5, <2>1, <2>2
<1>10. CASE Edit \/ TakeBack \/ Audit \/ UNCHANGED vars
    <2>1. UNCHANGED <<at, phase, store, before, child, defects, troubles>>
        BY <1>10 DEF Edit, TakeBack, Audit, vars
    <2>2. /\ Step' = Step /\ (Holding' <=> Holding) /\ Held' = Held
        BY <2>1, Unmoved
    <2>3. (Innocent' <=> Innocent) /\ (Ran' <=> Ran)
        BY <2>1, <2>2, AskedSame DEF Innocent, Ran
    <2> QED BY <1>2, <2>1, <2>3 DEF Sound
<1> QED BY <1>3, <1>4, <1>6, <1>7, <1>8, <1>9, <1>10

\* The work of the process: a wrong that can be told makes it unsound.
LEMMA WorkCounts ==
    ASSUME TypeInv, ChildInv, SeenInv, ChildWorks, outcome # "failed", WrongInv
    PROVE  WrongInv'
<1>1. /\ phase = "running" /\ child.alive /\ ~child.did /\ UNCHANGED <<at, phase, outcome, before, kept, troubles>>
    BY DEF ChildWorks, evidence
<1>2. UNCHANGED <<at, kept, Bases>>
    BY <1>1, Steady
<1>3. (Found' <=> Found)
    BY <1>2, PlacesSame
<1>4. /\ Step' = Step /\ (Holding' <=> Holding) /\ Worked(before)' = Worked(before)
    BY <1>1, Unmoved
<1>5. Held = before /\ child.wellformed /\ child.resent = 0
    BY <1>1 DEF ChildInv, Ran
<1> PICK h : Reports(h) /\ Wrongs(h)
    BY RightAndWrong
<1>6. Held' = h /\ child'.did = TRUE /\ Ran'
    BY <1>1, <1>4 DEF Reports, Held, Ran
<1>7. Innocent' <=> Right(h)
    BY <1>1, <1>4, <1>5, <1>6, AskedSame DEF Innocent, Right
<1>8. Sound' <=> Sound /\ Right(h)
    BY <1>1, <1>3, <1>6, <1>7 DEF Sound
<1>9. CASE /\ defects' = defects /\ h = Worked(Held) /\ child'.authority = Authority(h)
           /\ child'.wellformed = child.wellformed /\ child'.resent = child.resent
    <2>1. Right(h)
        BY <1>5, <1>9 DEF Right, Asked, Worked
    <2> QED BY <1>1, <1>8, <1>9, <2>1 DEF WrongInv
<1>10. CASE \E w : defects' = defects \cup {<<w, Step.mode>>} /\ (Right(h) => Excused(<<w, Step.mode>>))
    <2> PICK w : defects' = defects \cup {<<w, Step.mode>>} /\ (Right(h) => Excused(<<w, Step.mode>>))
        BY <1>10
    <2>1. defects' # {}
        OBVIOUS
    <2>2. Sound' => \A u \in defects' : Excused(u)
        BY <1>1, <1>8 DEF WrongInv
    <2> QED BY <2>1, <2>2 DEF WrongInv, Excused, NotShown
<1> QED BY <1>9, <1>10 DEF Wrongs, Wronged

LEMMA WorkShown ==
    ASSUME NEW d \in Data, NEW n \in Nat, NEW m \in Nat, Authority(d) = Shown(n, m)
    PROVE  /\ Step.mode = "hold-before-step" => Authority(Worked(d)) = Shown(n, m)
           /\ Step.mode \in {"step", "hold-after-step"} => Authority(Worked(d)) = Shown(n, m + 1)
           /\ Step.mode = "advance" => Authority(Worked(d)) = Shown(n + 1, m)
BY DEF Worked, Authority, Shown, Data

\* What a process that does right makes of its dataset.
LEMMA Expected ==
    ASSUME TypeInv, KeptInv, BasesInv, Ran
    PROVE  /\ at = 2 => Authority(Worked(before)) = Shown(0, 0)
           /\ at = 5 => Authority(Worked(before)) = Shown(0, 1)
           /\ at = 8 => Authority(Worked(before)) = Shown(0, 0)
           /\ at = 11 => Authority(Worked(before)) = Shown(0, 1)
           /\ at \in {5, 11} => Authority(Worked(Worked(before))) = Shown(0, 2)
           /\ \A n \in 1 .. Rounds :
                at = 12 + 2 * n => Authority(Worked(before)) = Shown(n, kept["previous"].authority.mark)
           /\ at = 15 + 2 * Rounds => Authority(Worked(before)) = Shown(0, 0)
<1>1. before = Bases[Step.dataset] /\ Step.dataset \in Dataset /\ before \in Data
    BY AtRun DEF Bases, Ran, TypeInv
<1>2. ASSUME at = 2 PROVE Authority(Worked(before)) = Shown(0, 0)
    <2>1. Step.mode = "seed" /\ Step.dataset = "store"
        BY <1>2, FirstSteps DEF Step, Run
    <2>2. Bases["store"] = Empty
        BY <1>2 DEF BasesInv, BasesFirst
    <2> QED BY <1>1, <2>1, <2>2, SeedOfEmpty
<1>3. ASSUME at = 5 PROVE Authority(Worked(before)) = Shown(0, 1)
    <2>1. Step.mode = "step" /\ Step.dataset = "step-golden"
        BY <1>3, FirstSteps DEF Step, Run
    <2>2. Authority(before) = Shown(0, 0)
        BY <1>1, <1>3, <2>1 DEF BasesInv, BasesFirst
    <2>3. Authority(Worked(before)) = Shown(0, 0 + 1)
        BY <1>1, <2>1, <2>2, WorkShown
    <2> QED BY <2>3
<1>4. ASSUME at = 8 PROVE Authority(Worked(before)) = Shown(0, 0)
    <2>1. Step.mode = "hold-before-step" /\ Step.dataset = "hold-before-step"
        BY <1>4, FirstSteps DEF Step, Run
    <2>2. Authority(before) = Shown(0, 0)
        BY <1>1, <1>4, <2>1 DEF BasesInv, BasesFirst
    <2> QED BY <1>1, <2>1, <2>2, WorkShown
<1>5. ASSUME at = 11 PROVE Authority(Worked(before)) = Shown(0, 1)
    <2>1. Step.mode = "hold-after-step" /\ Step.dataset = "hold-after-step"
        BY <1>5, FirstSteps DEF Step, Run
    <2>2. Authority(before) = Shown(0, 0)
        BY <1>1, <1>5, <2>1 DEF BasesInv, BasesFirst
    <2>3. Authority(Worked(before)) = Shown(0, 0 + 1)
        BY <1>1, <2>1, <2>2, WorkShown
    <2> QED BY <2>3
<1>8. ASSUME at \in {5, 11} PROVE Authority(Worked(Worked(before))) = Shown(0, 2)
    <2>1. Step.mode \in {"step", "hold-after-step"}
        BY <1>8, FirstSteps DEF Step, Run
    <2>2. Authority(Worked(before)) = Shown(0, 1) /\ Worked(before) \in Data
        BY <1>1, <1>3, <1>5, <1>8, DataTyped
    <2> DEFINE d == Worked(before)
    <2> HIDE DEF d
    <2>3. d \in Data /\ Authority(d) = Shown(0, 1)
        BY <2>2 DEF d
    <2>4. Authority(Worked(d)) = Shown(0, 1 + 1)
        BY <2>1, <2>3, WorkShown
    <2> QED BY <2>4 DEF d
<1>6. ASSUME NEW n \in 1 .. Rounds, at = 12 + 2 * n
      PROVE  Authority(Worked(before)) = Shown(n, kept["previous"].authority.mark)
    <2>1. Step = Run("advance", "store", "previous", n)
        BY <1>6, RoundSteps DEF Step
    <2>2. Step.mode = "advance" /\ Step.dataset = "store"
        BY <2>1 DEF Run
    <2> DEFINE m == kept["previous"].authority.mark
    <2>3. Authority(before) = Shown(n - 1, m)
        BY <1>1, <1>6, <2>2 DEF BasesInv, BasesTurns, KeptInv, KeptTurns
    <2>6. m \in Nat
        BY DEF TypeInv, Child, Report, Names
    <2> HIDE DEF m
    <2>4. n - 1 \in Nat /\ n - 1 + 1 = n
        BY RoundsAssumption
    <2>5. Authority(Worked(before)) = Shown(n - 1 + 1, m)
        BY <1>1, <2>2, <2>3, <2>4, <2>6, WorkShown
    <2> QED BY <2>4, <2>5 DEF m
<1>7. ASSUME at = 15 + 2 * Rounds PROVE Authority(Worked(before)) = Shown(0, 0)
    <2>1. Step.mode = "seed" /\ Step.dataset = "observation"
        BY <1>7, LastSteps DEF Step, Run
    <2>2. BasesLast /\ at <= 15 + 2 * Rounds
        BY <1>7, RoundsAssumption DEF BasesInv
    <2>3. Bases["observation"] = Empty
        BY <2>2 DEF BasesLast
    <2> QED BY <1>1, <2>1, <2>3, SeedOfEmpty
<1> QED BY <1>2, <1>3, <1>4, <1>5, <1>6, <1>7, <1>8

\* A recovery is not followed by another.
LEMMA OneRecovery ==
    ASSUME NEW i \in Runs, Plan[i].mode = "recover", i + 1 \in Runs
    PROVE  Plan[i + 1].mode # "recover"
<1>1. i \in 1 .. Last /\ i + 1 \in 1 .. Last /\ Plan[i + 1].op = "run"
    BY RunIs
<1>2. i \in Early \/ Turn(i) \/ i \in Late
    BY <1>1, WhichRuns
<1>3. CASE i \in Early
    <2>1. i \in {3, 6, 9, 12}
        BY <1>3, FirstSteps DEF Early, Run
    <2>2. i + 1 \in {4, 7, 10, 13}
        BY <2>1
    <2> QED BY <1>1, <2>2, FirstSteps DEF Copy, Write
<1>4. CASE Turn(i)
    <2> PICK n \in 1 .. Rounds : i = 12 + 2 * n \/ i = 13 + 2 * n
        BY <1>4 DEF Turn
    <2>1. i = 13 + 2 * n
        <3>1. Plan[12 + 2 * n] = Run("advance", "store", "previous", n)
            BY RoundSteps
        <3>2. Plan[12 + 2 * n].mode = "advance"
            BY <3>1 DEF Run
        <3> QED BY <3>2
    <2>2. CASE n = Rounds
        <3>1. i + 1 = 14 + 2 * Rounds
            BY <2>1, <2>2, RoundsAssumption
        <3> QED BY <1>1, <3>1, LastSteps DEF Write
    <2>3. CASE n # Rounds
        <3>1. n + 1 \in 1 .. Rounds /\ i + 1 = 12 + 2 * (n + 1)
            BY <2>1, <2>3, RoundsAssumption
        <3>2. Plan[i + 1] = Run("advance", "store", "previous", n + 1)
            BY <3>1, RoundSteps
        <3> QED BY <3>2 DEF Run
    <2> QED BY <2>2, <2>3
<1>5. CASE i \in Late
    <2>1. i = 16 + 2 * Rounds
        BY <1>5, LastSteps DEF Late, Run
    <2>2. i + 1 \in 17 + 2 * Rounds .. Last
        BY <2>1, RoundsAssumption DEF Last
    <2>3. Plan[i + 1].op = "write"
        BY <2>2, LastSteps
    <2> QED BY <1>1, <2>3
<1> QED BY <1>2, <1>3, <1>4, <1>5

\* A run that passes shows what went wrong in it, or hands it to the recovery
\* that follows.
LEMMA JudgeCounts ==
    ASSUME TypeInv, ChildInv, SeenInv, PairInv, Judge, Passes
    PROVE  Sound' <=> Sound
<1>1. /\ outcome = "open" /\ phase = "recorded" /\ phase' = "next" /\ at' = at + 1 /\ store' = store
      /\ kept' = [k \in DOMAIN kept |-> IF k \in Kept THEN child ELSE kept[k]] /\ at \in Runs
      /\ KeptInv /\ BasesInv /\ DOMAIN kept = Names /\ at \in Int
    BY StepsAreNumbers DEF Judge, TypeInv, SeenInv
<1>2. Ran /\ ~Ran' /\ Step.dataset \in Dataset /\ Step.like \in Names /\ Step.mode \in Modes
    BY <1>1, AtRun DEF Ran
<1>3. /\ child.did /\ child.wellformed /\ (Holding \/ child.resent = 0)
      /\ Step.mode = "recover" => /\ Held = before /\ child.authority = Authority(Held)
                                  /\ child.authority = kept[Step.like].authority
      /\ Step.mode = "seed" => child.authority = Authority(Worked(before))
      /\ Step.mode = "step" => SteppedOnce
      /\ Step.mode = "advance" => AdvancedOnce
      /\ Holding => /\ [child.authority EXCEPT !.other = 0] = kept[Step.like].authority
                    /\ child.authority.other = Held.other
      /\ child.said = (IF Holding THEN "marker" ELSE "report")
    BY <1>1, Passed
<1>4. Bases[Step.dataset] = before /\ \A d \in Dataset : Bases'[d] = store[d]
    BY <1>1, <1>2 DEF Bases, Ran
<1>5. \A k \in Names : kept'[k] = IF k \in Kept THEN child ELSE kept[k]
    BY <1>1
<1>6. Step = Plan[at] /\ Step' = Plan[at + 1]
    BY <1>1 DEF Step
<1>7. CASE Step.mode = "recover"
    <2>1. Found'
        <3>1. at + 1 \notin Runs \/ Plan[at + 1].mode # "recover"
            BY <1>1, <1>6, <1>7, OneRecovery
        <3> QED BY <1>1, <1>6, <3>1 DEF Found, Runs
    <2>2. Found
        BY <1>3, <1>4, <1>7 DEF Found
    <2>3. Innocent
        BY <1>3, <1>7 DEF Innocent, Asked, Worked, Holding
    <2> QED BY <1>2, <1>3, <2>1, <2>2, <2>3 DEF Sound
<1>8. CASE Step.mode # "recover"
    <2> DEFINE e == kept'[Step.like].authority
    <2>1. /\ at + 1 \in Runs /\ Plan[at + 1].mode = "recover"
          /\ Plan[at + 1].dataset = Step.dataset /\ Plan[at + 1].like = Step.like
        BY <1>1, <1>6, <1>8, ThenRecovered
    <2>2. Found' <=> Authority(Held) = e
        <3>1. Bases'[Step.dataset] = Held
            BY <1>2, <1>4 DEF Held
        <3> QED BY <1>1, <1>6, <2>1, <3>1 DEF Found, Runs
    <2>3. Found
        BY <1>8 DEF Found
    <2>4. Innocent <=> child.authority = Authority(Held) /\ Asked(Held, before)
        BY <1>3, <1>8 DEF Innocent
    <2>5. Sound' <=> Found'
        BY <1>2 DEF Sound
    <2>6. Sound <=> Innocent
        BY <1>2, <1>3, <2>3 DEF Sound
    <2>7. CASE Step.mode = "seed"
        <3>1. e = child.authority
            <4>1. Step.like \in Kept
                BY <2>7 DEF Kept, Holding
            <4> QED BY <1>2, <1>5, <4>1
        <3>2. Asked(Held, before) <=> Authority(Held) = Authority(Worked(before))
            BY <2>7 DEF Asked
        <3> QED BY <1>3, <2>2, <2>4, <2>5, <2>6, <2>7, <3>1, <3>2
    <2>8. CASE at = 5
        <3>1. Step.mode = "step" /\ Step.like = "golden"
            BY <1>6, <2>8, FirstSteps DEF Run
        <3>2. kept'["golden"] = child
            <4>1. "golden" \in Kept
                BY <1>1, <2>8, KeptNames
            <4> QED BY <1>5, <4>1 DEF Names
        <3>3. /\ child.authority = Shown(0, child.authority.mark)
              /\ Authority(Worked(before)) = Shown(0, 1) /\ Authority(Worked(Worked(before))) = Shown(0, 2)
            BY <1>1, <1>2, <2>8, Values, Expected
        <3>4. child.authority.mark \in {1, 2}
            <4>1. child.said = "report"
                BY <1>3, <3>1 DEF Holding
            <4> QED BY <1>1, <1>2, <2>8, <4>1 DEF PairInv
        <3>5. Asked(Held, before) <=> Authority(Held) \in {Shown(0, 1), Shown(0, 2)}
            BY <3>1, <3>3 DEF Asked
        <3> QED BY <2>2, <2>4, <2>5, <2>6, <3>1, <3>2, <3>3, <3>4, <3>5
    <2>9. CASE at = 8
        <3>1. Holding /\ Step.like = "seeded"
            BY <1>6, <2>9, FirstSteps DEF Run, Holding
        <3>2. kept' = kept
            BY <1>1, <3>1 DEF Kept, TypeInv
        <3>3. kept["seeded"].authority = Shown(0, 0) /\ Authority(Worked(before)) = Shown(0, 0)
            BY <1>1, <1>2, <2>9, Expected DEF KeptInv, KeptFirst
        <3>4. [child.authority EXCEPT !.other = 0] = Shown(0, 0) /\ child.authority.other = Held.other
            BY <1>3, <3>1, <3>3
        <3>5. Authority(Held) = Shown(0, 0) => child.authority = Shown(0, 0)
            <4>1. child.authority \in Report
                BY DEF TypeInv, Child
            <4> QED BY <3>4, <4>1 DEF Authority, Shown, Report
        <3>6. Asked(Held, before) <=> Authority(Held) = Shown(0, 0)
            <4>1. Step.mode = "hold-before-step"
                BY <1>6, <2>9, FirstSteps DEF Run
            <4> QED BY <3>3, <4>1 DEF Asked
        <3> QED BY <2>2, <2>4, <2>5, <2>6, <3>1, <3>2, <3>3, <3>5, <3>6
    <2>10. CASE at = 11
        <3>1. Holding /\ Step.like = "golden"
            BY <1>6, <2>10, FirstSteps DEF Run, Holding
        <3>2. kept' = kept
            BY <1>1, <3>1 DEF Kept, TypeInv
        <3>3. /\ kept["golden"].authority = Shown(0, kept["golden"].authority.mark)
              /\ Authority(Worked(before)) = Shown(0, 1) /\ Authority(Worked(Worked(before))) = Shown(0, 2)
            BY <1>1, <1>2, <2>10, Expected DEF KeptInv, KeptFirst
        <3>4. /\ [child.authority EXCEPT !.other = 0] = kept["golden"].authority
              /\ child.authority.other = Held.other
            BY <1>3, <3>1
        <3>5. kept["golden"].authority.mark \in {1, 2}
            BY <1>1, <2>10 DEF PairInv
        <3>6. child.authority \in Report
            BY DEF TypeInv, Child
        <3>7. kept["golden"].authority \in {Shown(0, 1), Shown(0, 2)}
            BY <3>3, <3>5
        <3>8. ASSUME Authority(Held) = kept["golden"].authority PROVE child.authority = Authority(Held)
            <4>1. Held.other = 0
                BY <3>3, <3>8 DEF Authority, Shown
            <4>2. [child.authority EXCEPT !.other = 0] = child.authority
                BY <3>4, <3>6, <4>1 DEF Report
            <4> QED BY <3>4, <3>8, <4>2
        <3>9. ASSUME child.authority = Authority(Held), Authority(Held) \in {Shown(0, 1), Shown(0, 2)}
              PROVE  Authority(Held) = kept["golden"].authority
            <4>1. child.authority.other = 0
                BY <3>9 DEF Shown
            <4>2. [child.authority EXCEPT !.other = 0] = child.authority
                BY <3>6, <4>1 DEF Report
            <4> QED BY <3>4, <3>9, <4>2
        <3>10. Asked(Held, before) <=> Authority(Held) \in {Shown(0, 1), Shown(0, 2)}
            <4>1. Step.mode = "hold-after-step"
                BY <1>6, <2>10, FirstSteps DEF Run
            <4> QED BY <3>3, <4>1 DEF Asked
        <3> QED BY <2>2, <2>4, <2>5, <2>6, <3>1, <3>2, <3>7, <3>8, <3>9, <3>10
    <2>11. CASE \E n \in 1 .. Rounds : at = 12 + 2 * n
        <3> PICK n \in 1 .. Rounds : at = 12 + 2 * n
            BY <2>11
        <3>1. Step = Run("advance", "store", "previous", n)
            BY <1>6, RoundSteps
        <3>2. Step.like = "previous" /\ "previous" \in Kept
            BY <1>1, <3>1, KeptNames DEF Run
        <3>3. kept'["previous"] = child
            BY <1>5, <3>2 DEF Names
        <3>4. /\ child.authority = Shown(n, child.authority.mark)
              /\ Authority(Worked(before)) = Shown(n, kept["previous"].authority.mark)
            BY <1>1, <1>2, Values, Expected
        <3>5. child.authority = Authority(Held) => Asked(Held, before)
            <4>1. Step.mode = "advance"
                BY <3>1 DEF Run
            <4>2. \A m : [Shown(n, m) EXCEPT !.mark = 0] = Shown(n, 0)
                BY DEF Shown
            <4>3. child.authority = Authority(Held) =>
                    [Authority(Held) EXCEPT !.mark = 0] = [Authority(Worked(before)) EXCEPT !.mark = 0]
                BY <3>4, <4>2
            <4> QED BY <4>1, <4>3 DEF Asked
        <3> QED BY <2>2, <2>4, <2>5, <2>6, <3>2, <3>3, <3>4, <3>5
    <2>12. Step.mode = "seed" \/ at = 5 \/ at = 8 \/ at = 11 \/ \E n \in 1 .. Rounds : at = 12 + 2 * n
        BY <1>1, <1>8, Position DEF AtFirst, AtTurn, AtLast, Is
    <2> QED BY <2>7, <2>8, <2>9, <2>10, <2>11, <2>12
<1> QED BY <1>7, <1>8

LEMMA WrongStep == TypeInv /\ ChildInv /\ SeenInv /\ PairInv /\ WrongInv /\ [Next]_vars => WrongInv'
<1> SUFFICES ASSUME TypeInv, ChildInv, SeenInv, PairInv, WrongInv, [Next]_vars, outcome' # "failed"
             PROVE  WrongInv'
    BY DEF WrongInv
<1>1. CASE \/ Check \/ Spawn \/ SeesExit \/ SeesMarker \/ TimesOut
           \/ ChildExits \/ ChildCrashes \/ ChildHangs \/ Edit \/ TakeBack \/ Audit \/ UNCHANGED vars
    <2>1. outcome # "failed"
        BY <1>1, Steady
    <2>2. /\ defects' = defects /\ (troubles' = 0 => troubles = 0)
          /\ Sound' => Sound
          /\ troubles' = 0 /\ Sound => Sound'
        BY <1>1, QuietSteps
    <2> QED BY <2>1, <2>2 DEF WrongInv, Excused, NotShown
<1>2. CASE ChildWorks
    <2>1. outcome # "failed"
        BY <1>2 DEF ChildWorks
    <2> QED BY <1>2, <2>1, WorkCounts
<1>3. CASE Sticks
    BY <1>3 DEF Sticks, Fail
<1>4. CASE Judge
    <2>1. Passes /\ outcome = "open" /\ UNCHANGED <<defects, troubles>>
        BY <1>4 DEF Judge, Fail, tree
    <2>2. Sound' <=> Sound
        BY <1>4, <2>1, JudgeCounts
    <2> QED BY <2>1, <2>2 DEF WrongInv, Excused, NotShown
<1>5. CASE CopyStore \/ WriteFile
    <2>1. /\ phase = "next" /\ phase' = "next" /\ outcome = "open" /\ at \notin Runs /\ at \in Int
          /\ UNCHANGED <<kept, defects, troubles>> /\ at' \in {at, at + 1}
          /\ at \in {1, 4, 7, 10, 13, 14 + 2 * Rounds} \cup (17 + 2 * Rounds .. Last)
        BY <1>5, BetweenRuns, StepsAreNumbers
    <2>2. ~Ran /\ ~Ran'
        BY <2>1 DEF Ran
    <2>3. Found
        BY <2>1 DEF Found
    <2>4. Found'
        <3>1. CASE at' = at
            BY <2>1, <3>1 DEF Found, Runs
        <3>2. CASE at' = at + 1
            <4>1. ASSUME at + 1 \in Runs, Plan[at + 1].mode = "recover" PROVE FALSE
                <5>1. CASE at \in {1, 4, 7, 10, 13}
                    <6>1. at + 1 \in {2, 5, 8, 11, 14}
                        BY <5>1
                    <6>2. Plan[12 + 2 * 1].mode = "advance"
                        <7>1. 1 \in 1 .. Rounds
                            BY RoundsAssumption
                        <7>2. Plan[12 + 2 * 1] = Run("advance", "store", "previous", 1)
                            BY <7>1, RoundSteps
                        <7> QED BY <7>2 DEF Run
                    <6>3. Plan[14].mode = "advance"
                        BY <6>2
                    <6> QED BY <4>1, <6>1, <6>3, FirstSteps DEF Run
                <5>2. CASE at = 14 + 2 * Rounds
                    <6>1. at + 1 = 15 + 2 * Rounds
                        BY <5>2, RoundsAssumption
                    <6> QED BY <4>1, <6>1, LastSteps DEF Run
                <5>3. CASE at \in 17 + 2 * Rounds .. Last
                    BY <4>1, <5>3, LastRun, StepsAreNumbers, RoundsAssumption
                <5> QED BY <2>1, <5>1, <5>2, <5>3
            <4>2. Step' = Plan[at + 1]
                BY <3>2 DEF Step
            <4> QED BY <3>2, <4>1, <4>2 DEF Found, Runs
        <3> QED BY <2>1, <3>1, <3>2
    <2>6. Sound' <=> Sound
        BY <2>2, <2>3, <2>4 DEF Sound
    <2> QED BY <2>1, <2>6 DEF WrongInv, Excused, NotShown
<1>6. CASE Tamper
    <2>1. UNCHANGED <<at, phase, kept, outcome, defects>> /\ outcome = "passed"
        BY <1>6 DEF Tamper
    <2>2. at = 20 + 2 * Rounds /\ ~Ran /\ at \notin Runs
        BY <2>1, RunsArePlanned DEF TypeInv, Last, Ran
    <2>4. Sound /\ Sound'
        BY <2>1, <2>2 DEF Sound, Found, Ran, Runs
    <2> QED BY <2>1, <2>4 DEF WrongInv, Excused, NotShown
<1> QED BY <1>1, <1>2, <1>3, <1>4, <1>5, <1>6 DEF Next, Driver, Process

-----------------------------------------------------------------------------
(* Failures and their causes.                                              *)

CauseInv ==
    /\ Ran /\ troubles = 0 =>
         /\ child.said # "hung" /\ child.code # 1
         /\ phase = "recorded" => child.said # "timed_out" \/ defects # {} \/ outcome = "failed"
         /\ ~child.did => phase = "running" /\ child.alive
    /\ outcome = "failed" => defects # {} \/ drifted # {} \/ troubles > 0

\* A process that does right in a hold mode shows the marker the driver waits for.
LEMMA MarkerComes ==
    ASSUME TypeInv, ChildInv, KeptInv, BasesInv, PairInv, Sound, defects = {}, phase = "running",
           outcome = "open", child.alive, child.said = "marker"
    PROVE  MarkerSeen
<1>1. Ran /\ child.did /\ Holding
    BY DEF Ran, ChildInv, Spoken
<1>2. child.wellformed /\ child.authority = Authority(Held) /\ Asked(Held, before)
    BY <1>1 DEF Sound, Innocent
<1>3. at \in Runs
    BY DEF TypeInv
<1>4. at = 8 \/ at = 11
    BY <1>1, <1>3, Position DEF AtFirst, AtTurn, AtLast, Is, Holding
<1>5. CASE at = 8
    <2>1. Step.like = "seeded"
        BY <1>5, FirstSteps DEF Step, Run
    <2>2. child.authority = Shown(0, 0) /\ kept["seeded"].authority = Shown(0, 0)
        <3>1. Step.mode = "hold-before-step"
            BY <1>5, FirstSteps DEF Step, Run
        <3> QED BY <1>1, <1>2, <1>5, <3>1, Expected DEF KeptInv, KeptFirst, Asked
    <2>3. [Shown(0, 0) EXCEPT !.other = 0] = Shown(0, 0)
        BY DEF Shown
    <2> QED BY <1>2, <2>1, <2>2, <2>3 DEF MarkerSeen
<1>6. CASE at = 11
    <2>1. Step.like = "golden"
        BY <1>6, FirstSteps DEF Step, Run
    <2>2. child.authority = Shown(0, 1) /\ kept["golden"].authority = Shown(0, kept["golden"].authority.mark)
        <3>1. Step.mode = "hold-after-step"
            BY <1>6, FirstSteps DEF Step, Run
        <3>2. child.authority \in {Shown(0, 1), Shown(0, 2)}
            BY <1>1, <1>2, <1>6, <3>1, Expected DEF Asked
        <3>3. child.authority.mark = 1
            BY <1>1, <1>6 DEF PairInv
        <3> QED BY <1>6, <3>2, <3>3 DEF KeptInv, KeptFirst, Shown
    <2>3. kept["golden"].authority.mark = 1
        BY <1>6 DEF PairInv
    <2>4. [Shown(0, 1) EXCEPT !.other = 0] = Shown(0, 1)
        BY DEF Shown
    <2> QED BY <1>2, <2>1, <2>2, <2>3, <2>4 DEF MarkerSeen
<1> QED BY <1>4, <1>5, <1>6

\* The report of a process that does right is the one the driver asks for.
LEMMA RightReport ==
    ASSUME TypeInv, ChildInv, KeptInv, BasesInv, Sound, Ran, child.did, ~Holding
    PROVE  /\ child.authority.round = Step.round
           /\ Step.mode = "recover" => child.authority = kept[Step.like].authority
           /\ Step.mode = "step" =>
                /\ child.authority.mark > kept["seeded"].authority.mark
                /\ child.authority = [kept["seeded"].authority EXCEPT !.mark = child.authority.mark]
           /\ Step.mode = "advance" => [child.authority EXCEPT !.mark = 0]
                                         = [kept["previous"].authority EXCEPT !.round = @ + 1, !.mark = 0]
<1>1. child.authority = Authority(Held) /\ Asked(Held, before)
      /\ (Step.mode = "recover" => Held = before)
    BY DEF Sound, Innocent
<1>2. at \in Runs /\ Step.dataset \in Dataset /\ before = Bases[Step.dataset]
    BY AtRun DEF Ran, Bases
<1>3. Step.mode = "recover" => child.authority = kept[Step.like].authority
    BY <1>1, <1>2 DEF Sound, Found
<1>4. \A n, m : Shown(n, m).round = n /\ Shown(n, m).mark = m
    BY DEF Shown
<1>5. CASE Step.mode = "recover"
    <2>1. child.authority.round = Step.round
        <3>1. CASE AtFirst
            <4>1. /\ Step.round = 0 /\ at > 2 /\ at < 13
                  /\ Step.like = "seeded" \/ (Step.like = "golden" /\ at \in 6 .. 12)
                BY <1>5, <3>1 DEF AtFirst, Is
            <4> QED BY <1>3, <1>4, <1>5, <4>1 DEF KeptInv, KeptFirst
        <3>2. CASE \E n \in 1 .. Rounds : AtTurn(n)
            <4> PICK n \in 1 .. Rounds : AtTurn(n)
                BY <3>2
            <4>1. at = 13 + 2 * n /\ Step.like = "previous" /\ Step.round = n
                BY <1>5 DEF AtTurn, Is
            <4>2. kept["previous"].authority = Shown(n, kept["previous"].authority.mark)
                BY <4>1 DEF KeptInv, KeptTurns
            <4> QED BY <1>3, <1>4, <1>5, <4>1, <4>2
        <3>3. CASE AtLast
            <4>1. at = 16 + 2 * Rounds /\ Step.like = "observed" /\ Step.round = 0
                BY <1>5, <3>3 DEF AtLast, Is
            <4>2. kept["observed"].authority = Shown(0, 0)
                BY <4>1 DEF KeptInv, KeptLast
            <4> QED BY <1>3, <1>4, <1>5, <4>1, <4>2
        <3> QED BY <1>2, <3>1, <3>2, <3>3, Position
    <2> QED BY <1>3, <1>5, <2>1
<1>6. CASE Step.mode = "seed"
    <2>1. (at = 2 \/ at = 15 + 2 * Rounds) /\ Step.round = 0
        BY <1>2, <1>6, Position DEF AtFirst, AtTurn, AtLast, Is
    <2>2. child.authority = Shown(0, 0)
        BY <1>1, <1>6, <2>1, Expected DEF Asked
    <2> QED BY <1>4, <1>6, <2>1, <2>2
<1>7. CASE Step.mode = "step"
    <2>1. at = 5 /\ Step.round = 0
        BY <1>2, <1>7, Position DEF AtFirst, AtTurn, AtLast, Is
    <2>2. child.authority \in {Shown(0, 1), Shown(0, 2)} /\ kept["seeded"].authority = Shown(0, 0)
        BY <1>1, <1>7, <2>1, Expected DEF KeptInv, KeptFirst, Asked
    <2>3. [Shown(0, 0) EXCEPT !.mark = 1] = Shown(0, 1) /\ [Shown(0, 0) EXCEPT !.mark = 2] = Shown(0, 2)
        BY DEF Shown
    <2> QED BY <1>4, <1>7, <2>1, <2>2, <2>3
<1>8. CASE Step.mode = "advance"
    <2>1. \E n \in 1 .. Rounds : at = 12 + 2 * n /\ Step.round = n
        BY <1>2, <1>8, Position DEF AtFirst, AtTurn, AtLast, Is
    <2> PICK n \in 1 .. Rounds : at = 12 + 2 * n /\ Step.round = n
        BY <2>1
    <2> DEFINE m == kept["previous"].authority.mark
    <2>2. /\ kept["previous"].authority = Shown(n - 1, m) /\ Authority(Worked(before)) = Shown(n, m)
          /\ [child.authority EXCEPT !.mark = 0] = [Authority(Worked(before)) EXCEPT !.mark = 0]
        BY <1>1, <1>8, Expected DEF KeptInv, KeptTurns, Asked
    <2>6. m \in Nat /\ n \in Nat
        BY DEF TypeInv, Child, Report, Names
    <2> HIDE DEF m
    <2>3. Onward(Shown(n - 1, m)) = Shown(n, 0) /\ Markless(Shown(n, m)) = Shown(n, 0)
        BY <2>6, NextRound
    <2>4. [child.authority EXCEPT !.mark = 0] = Shown(n, 0) /\ child.authority \in Report
        BY <2>2, <2>3 DEF TypeInv, Child, Markless
    <2>5. child.authority.round = n
        BY <1>4, <2>4, OnlyMark
    <2>7. [kept["previous"].authority EXCEPT !.round = @ + 1, !.mark = 0] = Shown(n, 0)
        BY <2>2, <2>3 DEF Onward
    <2> QED BY <1>8, <2>4, <2>5, <2>7
<1>9. Step.mode \in {"recover", "seed", "step", "advance"}
    BY <1>2, AtRun DEF Ran, Modes, Holding
<1> QED BY <1>5, <1>6, <1>7, <1>8, <1>9

\* A process that does right passes, when the tree is as it was.
LEMMA RightPasses ==
    ASSUME TypeInv, ChildInv, SeenInv, WrongInv, CauseInv, outcome = "open", phase = "recorded",
           defects = {}, drifted = {}, troubles = 0
    PROVE  Passes
<1>1. Ran /\ ~child.alive /\ Sound /\ KeptInv /\ BasesInv
    BY DEF Ran, TypeInv, WrongInv, SeenInv
<1>2. child.said \notin {"hung", "timed_out"} /\ child.code # 1 /\ child.did
    BY <1>1 DEF CauseInv
<1>3. child.code \in {0, 137}
    BY <1>1, <1>2 DEF ChildInv
<1>4. CASE child.code = 137
    <2>1. Holding
        BY <1>1, <1>4 DEF ChildInv, Spoken
    <2> QED BY <1>2, <1>4, <2>1 DEF Passes
<1>5. CASE child.code = 0
    <2>1. child.said = "report" /\ ~Holding /\ Spoken
        BY <1>1, <1>5 DEF ChildInv
    <2>2. Innocent
        BY <1>1, <1>2 DEF Sound
    <2>3. /\ child.authority.round = Step.round
          /\ Step.mode = "recover" => child.authority = kept[Step.like].authority
          /\ Step.mode = "step" =>
               /\ child.authority.mark > kept["seeded"].authority.mark
               /\ child.authority = [kept["seeded"].authority EXCEPT !.mark = child.authority.mark]
          /\ Step.mode = "advance" => [child.authority EXCEPT !.mark = 0]
                                        = [kept["previous"].authority EXCEPT !.round = @ + 1, !.mark = 0]
        BY <1>1, <1>2, <2>1, RightReport
    <2>4. /\ child.sends = (CASE Step.mode = "seed" -> 12 [] Step.mode = "advance" -> 6 [] OTHER -> 0)
          /\ child.wellformed /\ child.resent = 0 /\ (Step.mode = "recover" => Held = before)
        BY <2>1, <2>2 DEF Spoken, Sends, Innocent
    <2>5. Step.mode \in {"recover", "seed", "step", "advance"}
        BY <1>1, <2>1, AtRun DEF Ran, Modes, Holding
    <2>6. Valid
        BY <2>3, <2>4 DEF Valid
    <2>7. Satisfied
        BY <2>3, <2>4, <2>5, <2>6 DEF Satisfied, SameAuthority, SteppedOnce, AdvancedOnce
    <2> QED BY <1>2, <1>5, <2>1, <2>4, <2>7 DEF Passes
<1> QED BY <1>3, <1>4, <1>5

LEMMA FirstCause == Init => CauseInv
BY DEF Init, CauseInv, Ran

LEMMA CauseStep ==
    TypeInv /\ ChildInv /\ SeenInv /\ PairInv /\ WrongInv /\ CauseInv /\ [Next]_vars => CauseInv'
<1> SUFFICES ASSUME TypeInv, ChildInv, SeenInv, PairInv, WrongInv, CauseInv, [Next]_vars PROVE CauseInv'
    OBVIOUS
<1> USE DEF evidence, tree
<1>1. CASE Check
    <2>1. ~Ran' /\ UNCHANGED <<defects, drifted, troubles>> /\ outcome = "open"
          /\ (outcome' = "failed" => drifted # {})
        BY <1>1 DEF Check, Fail, Ran
    <2> QED BY <2>1 DEF CauseInv
<1>2. CASE Spawn
    <2>1. /\ child' = Fresh /\ phase' = "running" /\ outcome' = "open"
        BY <1>2 DEF Spawn
    <2> QED BY <2>1 DEF CauseInv, Fresh
<1>3. CASE SeesExit \/ SeesMarker \/ TimesOut
    <2>1. /\ phase = "running" /\ outcome = "open" /\ UNCHANGED <<outcome, defects, drifted, troubles>> /\ Ran
          /\ child \in Child
        BY <1>3, Ended DEF Ran, TypeInv
    <2> SUFFICES ASSUME troubles = 0
                 PROVE  /\ child'.said # "hung" /\ child'.code # 1
                        /\ child'.said # "timed_out" \/ defects # {}
                        /\ child'.did
        BY <2>1 DEF CauseInv
    <2>2. child.said # "hung" /\ child.code # 1 /\ (~child.did => child.alive)
        BY <2>1 DEF CauseInv
    <2>3. CASE SeesExit
        <3>1. child' = child /\ ~child.alive
            BY <2>3 DEF SeesExit, Recorded
        <3>2. child.code = 0
            BY <2>1, <2>2 DEF ChildInv
        <3> QED BY <2>1, <2>2, <3>1, <3>2 DEF ChildInv
    <2>4. CASE SeesMarker
        <3>1. child' = [child EXCEPT !.alive = FALSE, !.code = 137] /\ child.said = "marker"
            BY <2>4 DEF SeesMarker, MarkerSeen, Recorded, Interrupted
        <3>2. child.did
            BY <2>1, <3>1 DEF ChildInv
        <3> QED BY <2>1, <3>1, <3>2 DEF Child
    <2>5. CASE TimesOut
        <3>1. /\ child' = [child EXCEPT !.alive = FALSE, !.code = 143, !.said = "timed_out"]
              /\ child.alive /\ child.said = "marker" /\ ~MarkerSeen
            BY <2>2, <2>5 DEF TimesOut, Overdue, Recorded, TimedOut
        <3>2. child.did
            BY <2>1, <3>1 DEF ChildInv
        <3>3. defects # {}
            <4>1. SUFFICES ASSUME defects = {} PROVE MarkerSeen
                BY <3>1
            <4>2. Sound /\ KeptInv /\ BasesInv
                BY <2>1, <4>1 DEF WrongInv, SeenInv
            <4> QED BY <2>1, <3>1, <4>1, <4>2, MarkerComes
        <3> QED BY <2>1, <3>1, <3>2, <3>3 DEF Child
    <2> QED BY <1>3, <2>3, <2>4, <2>5
<1>4. CASE Sticks
    <2>1. troubles' > 0
        BY <1>4 DEF Sticks, TypeInv
    <2> QED BY <2>1 DEF CauseInv
<1>5. CASE Judge
    <2>1. UNCHANGED <<defects, drifted, troubles, child>> /\ outcome = "open" /\ phase = "recorded"
        BY <1>5 DEF Judge
    <2>2. CASE Passes
        BY <1>5, <2>1, <2>2 DEF Judge, CauseInv, Ran
    <2>3. CASE ~Passes
        <3>1. defects # {} \/ drifted # {} \/ troubles > 0
            BY <2>1, <2>3, RightPasses DEF TypeInv
        <3>2. phase' = phase /\ outcome' = "failed"
            BY <1>5, <2>3 DEF Judge, Fail
        <3> QED BY <2>1, <3>1, <3>2 DEF CauseInv, Ran
    <2> QED BY <2>2, <2>3
<1>6. CASE CopyStore \/ WriteFile
    BY <1>6, BetweenRuns DEF CauseInv, Ran
<1>7. CASE ChildWorks
    <2>1. phase = "running" /\ child.alive /\ UNCHANGED <<phase, outcome, drifted, troubles>>
        BY <1>7 DEF ChildWorks
    <2> PICK h : Reports(h) /\ Wrongs(h)
        BY <1>7, RightAndWrong
    <2>2. child'.did = TRUE /\ child'.said # "hung" /\ child'.code = child.code
        BY DEF Reports
    <2>3. defects # {} => defects' # {}
        BY DEF Wrongs, Wronged
    <2> QED BY <2>1, <2>2, <2>3 DEF CauseInv, Ran
<1>8. CASE ChildExits
    <2>1. /\ phase = "running" /\ child.alive /\ child.said = "report" /\ child' = [child EXCEPT !.alive = FALSE]
          /\ UNCHANGED <<phase, outcome, defects, drifted, troubles>> /\ child \in Child
        BY <1>8 DEF ChildExits, TypeInv
    <2>2. child'.said = "report" /\ child'.code = child.code /\ child'.did = child.did
        BY <2>1 DEF Child
    <2>3. child.did
        BY <2>1 DEF ChildInv, Ran
    <2> QED BY <2>1, <2>2, <2>3 DEF CauseInv, Ran
<1>9. CASE ChildCrashes \/ ChildHangs
    <2>1. troubles' > 0
        BY <1>9 DEF ChildCrashes, ChildHangs, TypeInv
    <2> QED BY <2>1 DEF CauseInv
<1>10. CASE Edit \/ TakeBack
    BY <1>10 DEF CauseInv, Edit, TakeBack, Ran
<1>11. CASE Tamper
    <2>1. outcome' = "passed" /\ troubles' > 0
        BY <1>11 DEF Tamper, TypeInv
    <2> QED BY <2>1 DEF CauseInv
<1>12. CASE Audit
    BY <1>12 DEF CauseInv, Audit, Ran
<1>13. CASE UNCHANGED vars
    BY <1>13 DEF CauseInv, vars, Ran
<1> QED BY <1>1, <1>2, <1>3, <1>4, <1>5, <1>6, <1>7, <1>8, <1>9, <1>10, <1>11, <1>12, <1>13
        DEF Next, Driver, Process

DriverInv == TypeInv /\ ChildInv /\ SeenInv /\ PairInv /\ WrongInv /\ CauseInv

LEMMA DriverStep == DriverInv /\ [Next]_vars => DriverInv'
BY TypeStep, ChildStep, SeenStep, PairStep, WrongStep, CauseStep DEF DriverInv

LEMMA FirstDriver == Init => DriverInv
BY FirstTyped, FirstSeen, FirstPair, FirstWrong, FirstCause DEF DriverInv

\* A driver that fails does so because something went wrong: processes that do
\* right, in any number of rounds and in a tree nobody touches, always pass its
\* checks (run-10-file-processes.py `run' and `main').
THEOREM FailuresHaveCause == Spec => []FailureHasCause
<1>1. DriverInv => FailureHasCause
    BY DEF DriverInv, CauseInv, FailureHasCause
<1> QED BY <1>1, FirstDriver, DriverStep, PTL DEF Spec

-----------------------------------------------------------------------------
(* What an audit is worth.                                                 *)

ReportInv ==
    /\ \A r \in records : r.end.code = 0 => r.end.said = "report"
    /\ \A r \in records : Plan[r.step].mode = "recover" /\ r.end.said = "report" =>
         Authority(r.after) = r.end.authority

LEMMA FirstReports == Init => ReportInv
BY DEF Init, ReportInv

LEMMA ReportStep == TypeInv /\ ChildInv /\ ReportInv /\ [Next]_vars => ReportInv'
<1> SUFFICES ASSUME TypeInv, ChildInv, ReportInv, [Next]_vars PROVE ReportInv'
    OBVIOUS
<1>1. CASE SeesExit \/ SeesMarker \/ TimesOut
    <2>1. /\ records' = records \cup {Ending} /\ Ending.step = at /\ Ending.end = child' /\ Ending.after = Held
          /\ Ran /\ child \in Child /\ child' \in {child, Interrupted, TimedOut}
        BY <1>1, Ended, EndingIs DEF Ran, TypeInv
    <2>2. CASE SeesExit
        <3>1. child' = child /\ ~child.alive
            BY <2>2 DEF SeesExit, Recorded
        <3>2. child.code = 0 => child.said = "report"
            BY <2>1, <3>1 DEF ChildInv
        <3>3. Plan[at].mode = "recover" /\ child.said = "report" => child.authority = Authority(Held)
            BY <2>1 DEF ChildInv, Spoken, Step
        <3> QED BY <2>1, <3>1, <3>2, <3>3 DEF ReportInv
    <2>3. CASE SeesMarker \/ TimesOut
        <3>1. \/ child' = [child EXCEPT !.alive = FALSE, !.code = 137] /\ child.said = "marker"
              \/ child' = [child EXCEPT !.alive = FALSE, !.code = 143, !.said = "timed_out"]
            BY <2>3 DEF SeesMarker, TimesOut, MarkerSeen, Recorded, Interrupted, TimedOut
        <3>2. child'.code # 0 /\ child'.said # "report"
            <4>1. child \in Child
                BY <2>1
            <4>2. CASE child' = [child EXCEPT !.alive = FALSE, !.code = 137] /\ child.said = "marker"
                BY <4>1, <4>2 DEF Child
            <4>3. CASE child' = [child EXCEPT !.alive = FALSE, !.code = 143, !.said = "timed_out"]
                BY <4>1, <4>3 DEF Child
            <4> QED BY <3>1, <4>2, <4>3
        <3> QED BY <2>1, <3>2 DEF ReportInv
    <2> QED BY <1>1, <2>2, <2>3
<1>2. CASE Tamper
    <2>1. CASE UNCHANGED records
        BY <2>1 DEF ReportInv
    <2>2. CASE \E r \in records : LET q == [r EXCEPT !.spoiled = TRUE]
                                  IN  /\ records' = (records \ {r}) \cup {q} /\ q \in Result
                                      /\ q.step = r.step /\ q.end = r.end /\ q.after = r.after /\ q.artifact = r.artifact
        <3> PICK r \in records : LET q == [r EXCEPT !.spoiled = TRUE]
                                 IN  /\ records' = (records \ {r}) \cup {q} /\ q \in Result
                                     /\ q.step = r.step /\ q.end = r.end /\ q.after = r.after /\ q.artifact = r.artifact
            BY <2>2
        <3> DEFINE q == [r EXCEPT !.spoiled = TRUE]
        <3>1. /\ records' = (records \ {r}) \cup {q}
              /\ q.step = r.step /\ q.end = r.end /\ q.after = r.after /\ q.artifact = r.artifact
            OBVIOUS
        <3> HIDE DEF q
        <3> QED BY <3>1 DEF ReportInv
    <2> QED BY <1>2, <2>1, <2>2, Tampered
<1>3. CASE UNCHANGED records
    BY <1>3 DEF ReportInv
<1>4. SeesExit \/ SeesMarker \/ TimesOut \/ Tamper \/ UNCHANGED records
    BY DEF Next, Driver, Process, Check, Spawn, Sticks, Judge, CopyStore, WriteFile, ChildWorks, ChildExits,
           ChildCrashes, ChildHangs, Edit, TakeBack, Audit, vars, evidence
<1> QED BY <1>1, <1>2, <1>3, <1>4

\* The last step that works on a dataset.
LastStepOn ==
    [d \in Dataset |-> CASE d = "store" -> 13 + 2 * Rounds
                         [] d = "step-golden" -> 6
                         [] d = "hold-before-step" -> 9
                         [] d = "hold-after-step" -> 12
                         [] d = "observation" -> 16 + 2 * Rounds]

LEMMA LastOnDataset ==
    ASSUME NEW d \in Dataset
    PROVE  /\ LastStepOn[d] \in Runs /\ Plan[LastStepOn[d]].dataset = d
           /\ \A i \in Runs : Plan[i].dataset = d => i <= LastStepOn[d]
<1>1. Plan[13 + 2 * Rounds] = Run("recover", "store", "previous", Rounds)
    <2>1. Rounds \in 1 .. Rounds
        BY RoundsAssumption
    <2> QED BY <2>1, RoundSteps
<1>2. LastStepOn[d] \in 1 .. Last
    BY RoundsAssumption DEF LastStepOn, Last, Dataset
<1>3. Plan[LastStepOn[d]].op = "run" /\ Plan[LastStepOn[d]].dataset = d
    <2>1. CASE d = "store"
        BY <1>1, <2>1 DEF LastStepOn, Run
    <2>2. CASE d \in {"step-golden", "hold-before-step", "hold-after-step"}
        BY <2>2, FirstSteps DEF LastStepOn, Run
    <2>3. CASE d = "observation"
        BY <2>3, LastSteps DEF LastStepOn, Run
    <2> QED BY <2>1, <2>2, <2>3 DEF Dataset
<1>4. ASSUME NEW i \in Runs, Plan[i].dataset = d PROVE i <= LastStepOn[d]
    <2>1. i \in 1 .. Last /\ (i \in Early \/ Turn(i) \/ i \in Late)
        BY RunIs, WhichRuns
    <2>2. CASE i \in Early
        BY <1>4, <2>2, FirstSteps, RoundsAssumption DEF Early, Run, LastStepOn
    <2>3. CASE Turn(i)
        <3> PICK n \in 1 .. Rounds : i = 12 + 2 * n \/ i = 13 + 2 * n
            BY <2>3 DEF Turn
        <3>1. Plan[i] \in {Run("advance", "store", "previous", n), Run("recover", "store", "previous", n)}
            BY RoundSteps
        <3>2. d = "store"
            BY <1>4, <3>1 DEF Run
        <3>3. i <= 13 + 2 * Rounds
            BY RoundsAssumption
        <3> QED BY <3>2, <3>3 DEF LastStepOn
    <2>4. CASE i \in Late
        <3>1. Plan[15 + 2 * Rounds].dataset = "observation" /\ Plan[16 + 2 * Rounds].dataset = "observation"
            BY LastSteps DEF Run
        <3>2. i = 15 + 2 * Rounds \/ i = 16 + 2 * Rounds
            BY <2>4 DEF Late
        <3>3. d = "observation" /\ i <= 16 + 2 * Rounds
            BY <1>4, <3>1, <3>2, RoundsAssumption
        <3> QED BY <3>3 DEF LastStepOn
    <2> QED BY <2>1, <2>2, <2>3, <2>4
<1>5. DOMAIN Plan = 1 .. Last
    BY RunsArePlanned
<1> QED BY <1>2, <1>3, <1>4, <1>5 DEF Runs

\* When every run has its result, the last one on a dataset is a recovery.
LEMMA LastIsRecovery ==
    ASSUME TypeInv, ResultInv, outcome = "passed", NEW d \in Dataset
    PROVE  /\ LastOn(d) \in records /\ Plan[LastOn(d).step].mode = "recover"
<1>1. at = Last /\ Runs \subseteq Int
    BY StepsAreNumbers DEF TypeInv
<1>2. \A i \in Runs : i < at
    BY <1>1, LastRun, StepsAreNumbers, RoundsAssumption DEF Last
<1>3. \A i \in Runs : \E r \in records : r.step = i
    BY <1>2 DEF ResultInv
<1>4. LastStepOn[d] \in Runs /\ Plan[LastStepOn[d]].dataset = d
      /\ \A i \in Runs : Plan[i].dataset = d => i <= LastStepOn[d]
    BY LastOnDataset
<1>5. \A r \in records : r.step \in Runs
    BY StepsAreNumbers
<1> DEFINE P(r) == /\ Plan[r.step].dataset = d
                   /\ \A q \in records : Plan[q.step].dataset = d => q.step <= r.step
<1>6. \E r \in records : P(r)
    <2> PICK r \in records : r.step = LastStepOn[d]
        BY <1>3, <1>4
    <2>1. P(r)
        BY <1>4, <1>5
    <2> QED BY <2>1
<1>7. LastOn(d) \in records /\ P(LastOn(d))
    BY <1>6 DEF LastOn
<1>8. ASSUME Plan[LastOn(d).step].mode # "recover" PROVE FALSE
    <2> DEFINE i == LastOn(d).step
    <2>1. i \in Runs /\ Plan[i].dataset = d
        BY <1>5, <1>7
    <2>2. i + 1 \in Runs /\ Plan[i + 1].dataset = d
        BY <1>8, <2>1, ThenRecovered
    <2> PICK q \in records : q.step = i + 1
        BY <1>3, <2>2
    <2>3. i + 1 <= i
        BY <1>7, <2>2
    <2>4. i \in Int
        BY <1>1, <2>1
    <2> HIDE DEF i
    <2> QED BY <2>3, <2>4
<1> QED BY <1>7, <1>8

AuditInv ==
    "audit" \in files => outcome = "passed" /\ \A d \in Dataset : Authority(store[d]) = LastOn(d).end.authority

LEMMA AuditStep == TypeInv /\ ResultInv /\ ReportInv /\ AuditInv /\ [Next]_vars => AuditInv'
<1> SUFFICES ASSUME TypeInv, ResultInv, ReportInv, AuditInv, [Next]_vars, "audit" \in files'
             PROVE  outcome' = "passed" /\ \A d \in Dataset : Authority(store'[d]) = LastOn(d)'.end.authority
    BY DEF AuditInv
<1> USE DEF evidence, tree
<1>1. CASE Audit
    <2>1. outcome = "passed" /\ AuditHolds /\ UNCHANGED <<outcome, store, records>>
        BY <1>1 DEF Audit
    <2>2. ASSUME NEW d \in Dataset PROVE Authority(store'[d]) = LastOn(d)'.end.authority
        <3> DEFINE r == LastOn(d)
        <3>1. r \in records /\ Plan[r.step].mode = "recover" /\ LastOn(d)' = LastOn(d)
            BY <2>1, LastIsRecovery DEF LastOn
        <3>2. store[d] = r.after
            BY <2>1 DEF AuditHolds
        <3>3. r.end.code = 0
            BY <2>1, <3>1 DEF AuditHolds
        <3>4. Authority(r.after) = r.end.authority
            BY <3>1, <3>3 DEF ReportInv
        <3> QED BY <2>1, <3>1, <3>2, <3>4
    <2> QED BY <2>1, <2>2
<1>2. CASE ~Audit
    <2>1. "audit" \in files
        <3>1. CASE WriteFile
            <4>1. Step \in Item /\ Step.op = "write"
                BY <3>1, PlanIs DEF TypeInv, Step, WriteFile
            <4>2. Step.file # "audit"
                BY <4>1 DEF Item, Write, Copy, Run
            <4> QED BY <3>1, <4>2 DEF WriteFile
        <3>2. CASE SeesExit \/ SeesMarker \/ TimesOut
            BY <3>2, Ended
        <3>3. CASE ~(WriteFile \/ SeesExit \/ SeesMarker \/ TimesOut)
            BY <1>2, <3>3 DEF Next, Driver, Process, Check, Spawn, Sticks, Judge, CopyStore, ChildWorks, ChildExits,
                   ChildCrashes, ChildHangs, Edit, TakeBack, Tamper, vars
        <3> QED BY <3>1, <3>2, <3>3
    <2>2. outcome = "passed" /\ phase = "next" /\ \A d \in Dataset : Authority(store[d]) = LastOn(d).end.authority
        BY <2>1 DEF AuditInv, TypeInv
    <2>3. UNCHANGED <<outcome, store, records>>
        BY <1>2, <2>1, <2>2 DEF Next, Driver, Process, Check, Spawn, SeesExit, SeesMarker, MarkerSeen, TimesOut,
               Overdue, Sticks, Judge, CopyStore, WriteFile, ChildWorks, ChildExits, ChildCrashes, ChildHangs,
               Edit, TakeBack, Tamper, vars
    <2>4. \A d \in Dataset : LastOn(d)' = LastOn(d)
        BY <2>3 DEF LastOn
    <2> QED BY <2>2, <2>3, <2>4
<1> QED BY <1>1, <1>2

LEMMA FirstAudit == Init => AuditInv
BY DEF Init, AuditInv

\* A summary is written only if no process lost, repeated, resent or mixed up
\* anything, but for what no report can show and two things that `main' does not
\* ask (NotShown, Unasked: an advance that takes a step besides, and the kept step
\* and the killed one both taken twice); and after the audit every dataset holds
\* what was last reported of it: for any number of rounds and of wrongs, crashes,
\* hangs and changes of the tree (run-10-file-processes.py `main',
\* audit-11-processes.py).
THEOREM SummariesMeanRecovered == Spec => []SummaryMeansRecovered
<1>1. DriverInv /\ AuditInv => SummaryMeansRecovered
    <2> SUFFICES ASSUME DriverInv, AuditInv PROVE SummaryMeansRecovered
        OBVIOUS
    <2>1. ASSUME outcome = "passed" PROVE \A w \in defects : NotShown(w) \/ Unasked(w)
        <3>1. at = Last /\ phase = "next"
            BY <2>1 DEF DriverInv, TypeInv
        <3>2. at \notin Runs /\ at >= 12 /\ ~Ran
            <4>1. at \notin Runs /\ at >= 22 /\ at \in Nat
                BY <3>1, RunsArePlanned
            <4> QED BY <3>1, <4>1 DEF Ran
        <3>3. Sound
            BY <3>2 DEF Sound, Found
        <3>4. \A w \in defects : Excused(w)
            BY <2>1, <3>3 DEF DriverInv, WrongInv
        <3>5. StepTwice \in defects <=> HoldTwice \in defects
            BY <2>1, <3>2 DEF DriverInv, PairInv
        <3> QED BY <3>4, <3>5 DEF Excused, Unasked, StepTwice, HoldTwice
    <2>2. "audit" \in files => \A d \in Dataset : Authority(store[d]) = LastOn(d).end.authority
        BY DEF AuditInv
    <2> QED BY <2>1, <2>2 DEF SummaryMeansRecovered
<1>2. TypeInv /\ ChildInv /\ ResultInv /\ ReportInv /\ AuditInv /\ [Next]_vars => ReportInv' /\ AuditInv'
    BY ReportStep, AuditStep
<1>3. DriverInv => TypeInv /\ ChildInv
    BY DEF DriverInv
<1> QED BY <1>1, <1>2, <1>3, FirstDriver, DriverStep, FirstResults, ResultStep, FirstReports, FirstAudit, PTL DEF Spec
=============================================================================

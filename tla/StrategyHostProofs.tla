------------------------- MODULE StrategyHostProofs -------------------------
(***************************************************************************)
(* Theorems about StrategyHost, for journals, batches, checkpoints and     *)
(* generations of every number.                                            *)
(*                                                                         *)
(* Types first.  TypeOK is not inductive as it stands: a host that answers *)
(* one batch too many has no batches left to count down, and an owner can  *)
(* only name a checkpoint of a state the host has reported.  On it rests   *)
(* that StrategyHost implements the authority contract.                    *)
(*                                                                         *)
(* Then what a recovered host continues with.  The invariant follows an    *)
(* intent number from the checkpoint frame through the replayed batches to *)
(* the report and to the intents: wherever a state of the strategy stands, *)
(* its next number is the count of what the facts up to its cursor want.   *)
(* Another one follows the control sequences of the two ends through the   *)
(* pipes.                                                                  *)
(***************************************************************************)
EXTENDS StrategyHost, FiniteSetTheorems, WellFoundedInduction, TLAPS

\* A queue that is read or written keeps the type of its elements.
LEMMA QueueTyped ==
    ASSUME NEW S, NEW s \in Seq(S)
    PROVE  /\ s # <<>> => Head(s) \in S /\ Tail(s) \in Seq(S)
           /\ \A x \in S : Append(s, x) \in Seq(S)
OBVIOUS

\* What a frame of the owner carries is decided by its type.
LEMMA ZigFrameRead ==
    ASSUME NEW f \in ZigFrame
    PROVE  /\ f.gen \in Nat /\ f.seq \in Nat
           /\ f.type = "begin_recovery" => f.body \in RecoveryBody
           /\ f.type = "activate" => f.body \in ActivationBody
           /\ f.type = "input" => f.body \in InputBody
           /\ f.type = "request_checkpoint" => f.body \in RequestBody
BY DEF ZigFrame, FrameOf

\* What a frame of the host carries is decided by its type.
LEMMA HostFrameRead ==
    ASSUME NEW f \in HostFrame
    PROVE  /\ f.gen \in Nat /\ f.seq \in Nat
           /\ f.type = "recovered" => f.body \in StateReport
           /\ f.type \in {"output", "benchmark"} => f.body \in IntentBody
           /\ f.type = "checkpoint" => f.body \in CheckpointBody
BY DEF HostFrame, FrameOf

\* Every frame the owner builds from a body of the right kind is one of its frames.
LEMMA ZigFrameWritten ==
    ASSUME NEW gen \in Nat, NEW seq \in Nat
    PROVE  /\ \A type \in {"session_plan", "shutdown"} :
                [type |-> type, gen |-> gen, seq |-> seq, body |-> None] \in ZigFrame
           /\ \A body \in RecoveryBody :
                [type |-> "begin_recovery", gen |-> gen, seq |-> seq, body |-> body] \in ZigFrame
           /\ \A body \in ActivationBody :
                [type |-> "activate", gen |-> gen, seq |-> seq, body |-> body] \in ZigFrame
           /\ \A body \in InputBody :
                [type |-> "input", gen |-> gen, seq |-> seq, body |-> body] \in ZigFrame
           /\ \A body \in RequestBody :
                [type |-> "request_checkpoint", gen |-> gen, seq |-> seq, body |-> body] \in ZigFrame
BY DEF ZigFrame, FrameOf

\* Every frame the host builds from a body of the right kind is one of its frames.
LEMMA HostFrameWritten ==
    ASSUME NEW gen \in Nat, NEW seq \in Nat
    PROVE  /\ \A type \in {"hello", "heartbeat", "faulted", "recovery_required", "shutdown_ack"} :
                [type |-> type, gen |-> gen, seq |-> seq, body |-> None] \in HostFrame
           /\ \A body \in StateReport :
                [type |-> "recovered", gen |-> gen, seq |-> seq, body |-> body] \in HostFrame
           /\ \A type \in {"output", "benchmark"}, body \in IntentBody :
                [type |-> type, gen |-> gen, seq |-> seq, body |-> body] \in HostFrame
           /\ \A body \in CheckpointBody :
                [type |-> "checkpoint", gen |-> gen, seq |-> seq, body |-> body] \in HostFrame
BY DEF HostFrame, FrameOf

-----------------------------------------------------------------------------
(* The intents an interval of the journal wants.                           *)

\* An interval of the journal holds finitely many facts that want an intent.
LEMMA EmitsFinite ==
    ASSUME NEW first \in Int, NEW last \in Int
    PROVE  IsFiniteSet(Emits(first, last)) /\ Cardinality(Emits(first, last)) \in Nat
<1>1. IsFiniteSet(first .. last)
    BY FS_Interval
<1>2. Emits(first, last) \subseteq first .. last
    BY DEF Emits
<1> QED BY <1>1, <1>2, FS_Subset, FS_CardinalityType

\* Intent numbers start at one.
LEMMA NumberTyped ==
    ASSUME NEW cursor \in Int
    PROVE  NumberAfter(cursor) \in Nat \ {0}
<1>1. 1 \in Int
    OBVIOUS
<1>2. Cardinality(Emits(1, cursor)) \in Nat
    BY <1>1, EmitsFinite, Zenon
<1> QED BY <1>2 DEF NumberAfter

\* A set of numbers that is not empty has a least one.
LEMMA LeastNumber ==
    ASSUME NEW T, T \subseteq Nat, T # {}
    PROVE  \E n \in T : \A m \in T : n <= m
<1>1. IsWellFoundedOn(OpToRel(<, Nat), Nat)
    BY NatLessThanWellFounded
<1>2. PICK n \in T : \A m \in T : <<m, n>> \notin OpToRel(<, Nat)
    BY <1>1, WFMin
<1>3. \A m \in T : ~(m < n)
    BY <1>2 DEF OpToRel
<1> QED BY <1>3

\* A set of facts that is not empty has an earliest one (publish_intent takes it).
LEMMA EarliestTyped ==
    ASSUME NEW S, S \subseteq Nat, S # {}
    PROVE  Earliest(S) \in S /\ \A m \in S : Earliest(S) <= m
BY LeastNumber DEF Earliest

\* Counting the facts up to `last` is counting those up to the cursor and the rest
\* (apply_replay_batch counts what it suppresses).
LEMMA NumbersAdd ==
    ASSUME facts \in Seq(BOOLEAN), NEW cursor \in Nat, NEW last \in Nat, cursor <= last
    PROVE  NumberAfter(last) = NumberAfter(cursor) + Cardinality(Emits(cursor + 1, last))
<1>1. Emits(1, last) = Emits(1, cursor) \cup Emits(cursor + 1, last)
    BY DEF Emits
<1>2. Emits(1, cursor) \cap Emits(cursor + 1, last) = {}
    BY DEF Emits
<1>3. /\ IsFiniteSet(Emits(1, cursor)) /\ IsFiniteSet(Emits(cursor + 1, last))
      /\ Cardinality(Emits(1, cursor)) \in Nat /\ Cardinality(Emits(cursor + 1, last)) \in Nat
    <2>1. 1 \in Int /\ cursor + 1 \in Int /\ cursor \in Int /\ last \in Int
        OBVIOUS
    <2> QED BY <2>1, EmitsFinite, Zenon
<1>4. Cardinality(Emits(1, cursor) \cup Emits(cursor + 1, last))
        = Cardinality(Emits(1, cursor)) + Cardinality(Emits(cursor + 1, last))
    <2>1. Cardinality(Emits(1, cursor) \cap Emits(cursor + 1, last)) = 0
        BY <1>2, FS_EmptySet
    <2> DEFINE A == Emits(1, cursor)
               B == Emits(cursor + 1, last)
    <2>2. Cardinality(A \cup B) = Cardinality(A) + Cardinality(B) - Cardinality(A \cap B)
        BY <1>3, FS_Union, Zenon
    <2> QED BY <1>3, <2>1, <2>2
<1>5. Cardinality(Emits(1, last)) = Cardinality(Emits(1, cursor)) + Cardinality(Emits(cursor + 1, last))
    BY <1>1, <1>4, Zenon
<1>6. ASSUME NEW a \in Nat, NEW b \in Nat
      PROVE  1 + (a + b) = (1 + a) + b
    OBVIOUS
<1>7. /\ NumberAfter(last) = 1 + Cardinality(Emits(1, last))
      /\ NumberAfter(cursor) = 1 + Cardinality(Emits(1, cursor))
    BY DEF NumberAfter
<1> QED BY <1>3, <1>5, <1>6, <1>7, Zenon

Unspent == host.pc \notin {"closing", "dead"} => host.left > 0
Reported ==
    /\ sup.state = "recovered" => sup.recovered \in StateReport
    /\ sup.state = "active" => sup.recovered \in StateReport \/ host.mode = "trade"
Typed == TypeOK /\ Unspent /\ Reported

-----------------------------------------------------------------------------
(* The parts the steps of the Python process are made of.                  *)

\* The frame read_frame returns is one of the owner's.
LEMMA ConsumedTyped ==
    ASSUME TypeOK, toHost # <<>>, Consume
    PROVE  toHost' \in Seq(ZigFrame) /\ Head1 \in ZigFrame
BY QueueTyped DEF TypeOK, Consume, Head1

\* An exception in the host changes only where the process is.
LEMMA DiesTyped ==
    ASSUME TypeOK, Dies
    PROVE  /\ toZig' \in Seq(HostFrame) /\ host' \in HostRecord /\ host'.mode = host.mode
           /\ outputs' \subseteq Outputs /\ Unspent'
BY DEF TypeOK, Dies, HostRecord, Place, Unspent, Outputs

\* write_frame keeps the pipe to the owner well formed.
LEMMA WriteTyped ==
    ASSUME TypeOK, NEW type, NEW body, Write(type, body),
           \/ type \in {"hello", "heartbeat", "faulted", "recovery_required", "shutdown_ack"} /\ body = None
           \/ type = "recovered" /\ body \in StateReport
           \/ type \in {"output", "benchmark"} /\ body \in IntentBody
           \/ type = "checkpoint" /\ body \in CheckpointBody
    PROVE  toZig' \in Seq(HostFrame)
<1>1. host.gen \in Nat /\ host.hseq \in Nat
    BY DEF TypeOK, HostRecord
<1>2. [type |-> type, gen |-> host.gen, seq |-> host.hseq, body |-> body] \in HostFrame
    BY <1>1, HostFrameWritten
<1> QED BY <1>2, QueueTyped DEF TypeOK, Write

\* The last frame of a host that asks for recovery is well formed.
LEMMA RequireRecoveryTyped ==
    ASSUME TypeOK, RequireRecovery
    PROVE  /\ toZig' \in Seq(HostFrame) /\ host' \in HostRecord /\ host'.mode = host.mode
           /\ outputs' \subseteq Outputs /\ Unspent'
<1>1. toZig' \in Seq(HostFrame)
    BY WriteTyped DEF RequireRecovery
<1> QED BY <1>1 DEF TypeOK, RequireRecovery, HostRecord, Place, Unspent, Outputs

\* The sequence numbers of the host can be advanced.
LEMMA CountersTyped ==
    ASSUME NEW h \in HostRecord
    PROVE  h.zseq + 1 \in Nat /\ h.hseq + 1 \in Nat /\ h.next + 1 \in Nat \ {0}
BY DEF HostRecord

\* A host that reports its state stays well formed, with batches still to answer.
LEMMA ReportRecoveredTyped ==
    ASSUME TypeOK, NEW h, NEW pc \in Place \ {"dead", "closing"}, ReportRecovered(h, pc), Unspent,
           h \in HostRecord,
           h.left > 0, h.mode = host.mode
    PROVE  /\ toZig' \in Seq(HostFrame) /\ host' \in HostRecord /\ host'.mode = host.mode
           /\ outputs' \subseteq Outputs /\ Unspent'
<1>1. Recovered(h) \in StateReport
    BY DEF Recovered, StateReport, HostRecord
<1>2. toZig' \in Seq(HostFrame)
    BY <1>1, WriteTyped DEF ReportRecovered
<1>3. h.hseq + 1 \in Nat
    BY CountersTyped
<1>4. host' \in HostRecord /\ host'.left = h.left /\ host'.mode = h.mode
    BY <1>3 DEF ReportRecovered, HostRecord
<1> QED BY <1>2, <1>4 DEF TypeOK, ReportRecovered, Unspent

\* A checkpoint becomes a well-formed state of the host.
LEMMA LoadedTyped ==
    ASSUME TypeOK, NEW b \in RecoveryBody
    PROVE  /\ Loaded(b) \in HostRecord
           /\ Loaded(b).left = host.left /\ Loaded(b).mode = host.mode /\ Loaded(b).pc = host.pc
<1>1. host \in HostRecord /\ host.zseq + 1 \in Nat
    BY CountersTyped DEF TypeOK
<1>2. b.barrier \in Nat /\ b.cursor \in Nat /\ b.next \in Nat \ {0}
    BY DEF RecoveryBody
<1> QED BY <1>1, <1>2 DEF HostRecord, Loaded

\* A batch applied to a well-formed state gives one.
LEMMA ApplyReplayTyped ==
    ASSUME TypeOK, NEW b \in InputBody
    PROVE  /\ ApplyReplay(host, b) \in HostRecord
           /\ ApplyReplay(host, b).left = host.left /\ ApplyReplay(host, b).mode = host.mode
           /\ ApplyReplay(host, b).pc = host.pc
<1>1. b.first \in Int /\ b.last \in Int /\ b.last \in Nat
    BY DEF InputBody
<1>2. Cardinality(Emits(b.first, b.last)) \in Nat
    BY <1>1, EmitsFinite, Zenon
<1> DEFINE c == Cardinality(Emits(b.first, b.last))
<1>3. c \in Nat
    BY <1>2
<1>4. ApplyReplay(host, b) = [host EXCEPT !.zseq = @ + 1, !.cursor = b.last, !.next = @ + c]
    BY DEF ApplyReplay
<1> HIDE DEF c
<1>5. host \in HostRecord /\ host.zseq + 1 \in Nat
    BY CountersTyped DEF TypeOK
<1>6. host.next + c \in Nat \ {0}
    BY <1>3, <1>5 DEF HostRecord
<1> QED BY <1>1, <1>4, <1>5, <1>6 DEF HostRecord

\* The recovery loop and the catch-up loop keep the host well formed.
LEMMA ReplayTyped ==
    ASSUME TypeOK, Unspent, host.pc \notin {"closing", "dead"}, Head1 \in ZigFrame,
           NEW barrier \in Nat, NEW done \in Place \ {"closing", "dead"}, ReplaySilently(barrier, done)
    PROVE  /\ toZig' \in Seq(HostFrame) /\ host' \in HostRecord /\ host'.mode = host.mode
           /\ outputs' \subseteq Outputs /\ Unspent'
<1>1. CASE ~Readable
    BY <1>1, RequireRecoveryTyped DEF ReplaySilently
<1>2. CASE Readable /\ ~Applies
    BY <1>2, DiesTyped DEF ReplaySilently
<1>3. CASE Readable /\ Applies
    <2> DEFINE moved == ApplyReplay(host, Head1.body)
    <2>1. Head1.body \in InputBody
        BY <1>3, ZigFrameRead DEF Readable, InOrder
    <2>2. /\ moved \in HostRecord
          /\ moved.left = host.left /\ moved.mode = host.mode /\ moved.pc = host.pc
        BY <2>1, ApplyReplayTyped
    <2>3. /\ host' = [moved EXCEPT !.pc = IF moved.cursor >= barrier THEN done ELSE @]
          /\ UNCHANGED <<toZig, outputs>>
        BY <1>3 DEF ReplaySilently
    <2> HIDE DEF moved
    <2>4. host' \in HostRecord /\ Unspent' /\ host'.mode = host.mode
        BY <2>2, <2>3 DEF HostRecord, Unspent
    <2> QED BY <2>3, <2>4 DEF TypeOK, Outputs
<1> QED BY <1>1, <1>2, <1>3

HostSide == toHost \in Seq(ZigFrame) /\ toZig \in Seq(HostFrame) /\ host \in HostRecord
            /\ outputs \subseteq Outputs /\ Unspent
HostSideKept == HostSide' /\ host'.mode = host.mode

-----------------------------------------------------------------------------
(* One lemma per step of the Python process.                               *)

\* ReadPlan keeps the host and its pipes well formed.
LEMMA ReadPlanTyped == ASSUME TypeOK, Unspent, ReadPlan PROVE HostSideKept
<1>1. toHost' \in Seq(ZigFrame) /\ Head1 \in ZigFrame
    BY ConsumedTyped DEF ReadPlan
<1>2. Head1.gen \in Nat
    BY <1>1, ZigFrameRead
<1>3. [type |-> "hello", gen |-> Head1.gen, seq |-> 1, body |-> None] \in HostFrame
    BY <1>2, HostFrameWritten
<1>4. toZig' \in Seq(HostFrame)
    BY <1>3, QueueTyped DEF TypeOK, ReadPlan, Hello, Head1
<1>5. /\ host' \in HostRecord /\ host'.mode = host.mode /\ host'.left = host.left
    BY <1>2 DEF ReadPlan, TypeOK, HostRecord, Place
<1> QED BY <1>1, <1>4, <1>5 DEF HostSideKept, HostSide, TypeOK, ReadPlan, Unspent

\* SendHeartbeat keeps the host and its pipes well formed.
LEMMA SendHeartbeatTyped == ASSUME TypeOK, Unspent, SendHeartbeat PROVE HostSideKept
<1>1. host \in HostRecord /\ host.gen \in Nat /\ host.mode \in Mode
    BY DEF TypeOK, HostRecord
<1>2. [type |-> "heartbeat", gen |-> host.gen, seq |-> 2, body |-> None] \in HostFrame
    BY <1>1, HostFrameWritten
<1>3. toZig' \in Seq(HostFrame)
    BY <1>2, QueueTyped DEF TypeOK, SendHeartbeat
<1>4. AfterHello(host.mode) \in Place
    BY <1>1 DEF AfterHello, Place, Mode
<1>5. host' \in HostRecord /\ host'.mode = host.mode /\ host'.left = host.left
    BY <1>1, <1>4 DEF SendHeartbeat, HostRecord
<1> QED BY <1>3, <1>5 DEF HostSideKept, HostSide, TypeOK, SendHeartbeat, Unspent

\* ReadBeginRecovery keeps the host and its pipes well formed.
LEMMA ReadBeginRecoveryTyped == ASSUME TypeOK, Unspent, ReadBeginRecovery PROVE HostSideKept
<1>1. toHost' \in Seq(ZigFrame) /\ Head1 \in ZigFrame
    BY ConsumedTyped DEF ReadBeginRecovery
<1>2. CASE InOrder("begin_recovery")
    <2>1. Head1.body \in RecoveryBody
        BY <1>1, <1>2, ZigFrameRead DEF InOrder
    <2> DEFINE loaded == Loaded(Head1.body)
    <2>2. loaded \in HostRecord /\ loaded.left = host.left /\ loaded.mode = host.mode
        BY <2>1, LoadedTyped
    <2>3. host' = [loaded EXCEPT !.pc = "replay"] /\ UNCHANGED <<toZig, outputs>>
        BY <1>2 DEF ReadBeginRecovery
    <2> HIDE DEF loaded
    <2>4. host' \in HostRecord /\ host'.mode = host.mode /\ host'.left = host.left
        BY <2>2, <2>3 DEF HostRecord, Place
    <2> QED BY <1>1, <2>3, <2>4 DEF HostSideKept, HostSide, TypeOK, Unspent, ReadBeginRecovery
<1>3. CASE ~InOrder("begin_recovery")
    BY <1>1, <1>3, DiesTyped DEF ReadBeginRecovery, HostSideKept, HostSide
<1> QED BY <1>2, <1>3

\* ReadPortableRecovery keeps the host and its pipes well formed.
LEMMA ReadPortableRecoveryTyped == ASSUME TypeOK, Unspent, ReadPortableRecovery PROVE HostSideKept
<1>1. toHost' \in Seq(ZigFrame) /\ Head1 \in ZigFrame
    BY ConsumedTyped DEF ReadPortableRecovery
<1> DEFINE accepted == InOrder("begin_recovery") /\ Head1.body.barrier = Head1.body.cursor
<1>2. CASE accepted
    <2>1. Head1.body \in RecoveryBody
        BY <1>1, <1>2, ZigFrameRead DEF InOrder
    <2> DEFINE loaded == Loaded(Head1.body)
    <2>2. loaded \in HostRecord /\ loaded.left = host.left /\ loaded.mode = host.mode
        BY <2>1, LoadedTyped
    <2>3. ReportRecovered(loaded, "serving")
        BY <1>2 DEF ReadPortableRecovery
    <2> HIDE DEF loaded
    <2>4. host.left > 0 /\ "serving" \in Place \ {"dead", "closing"}
        BY DEF ReadPortableRecovery, Unspent, Place
    <2> QED BY <1>1, <2>2, <2>3, <2>4, ReportRecoveredTyped DEF HostSideKept, HostSide
<1>3. CASE ~accepted
    BY <1>1, <1>3, DiesTyped DEF ReadPortableRecovery, HostSideKept, HostSide
<1> QED BY <1>2, <1>3

\* FinishReplay keeps the host and its pipes well formed.
LEMMA FinishReplayTyped == ASSUME TypeOK, Unspent, FinishReplay PROVE HostSideKept
<1>1. toHost' \in Seq(ZigFrame)
    BY DEF TypeOK, FinishReplay
<1>2. CASE host.cursor # host.barrier
    BY <1>1, <1>2, DiesTyped DEF FinishReplay, HostSideKept, HostSide
<1>3. CASE host.cursor = host.barrier
    <2>1. host \in HostRecord /\ host.left > 0 /\ "activation" \in Place \ {"dead", "closing"}
        BY DEF TypeOK, FinishReplay, ReplayDone, Unspent, Place
    <2>2. ReportRecovered(host, "activation")
        BY <1>3 DEF FinishReplay
    <2> QED BY <1>1, <2>1, <2>2, ReportRecoveredTyped DEF HostSideKept, HostSide
<1> QED BY <1>2, <1>3

\* Replay and CatchUp keep the host and its pipes well formed.
LEMMA ReplayStepTyped == ASSUME TypeOK, Unspent, Replay \/ CatchUp PROVE HostSideKept
<1>1. toHost' \in Seq(ZigFrame) /\ Head1 \in ZigFrame
    BY ConsumedTyped DEF Replay, CatchUp
<1>2. PICK done \in {"replay", "live"} : ReplaySilently(host.barrier, done)
    BY DEF Replay, CatchUp
<1>3. host.barrier \in Nat /\ done \in Place \ {"closing", "dead"} /\ host.pc \notin {"closing", "dead"}
    BY <1>2 DEF TypeOK, HostRecord, Place, Replay, CatchUp
<1> QED BY <1>1, <1>2, <1>3, ReplayTyped DEF HostSideKept, HostSide

\* Both ways of reading an activation keep the host and its pipes well formed.
LEMMA ReadActivationTyped ==
    ASSUME TypeOK, Unspent, ReadActivation \/ ReadDirectActivation PROVE HostSideKept
<1>1. toHost' \in Seq(ZigFrame) /\ Head1 \in ZigFrame
    BY ConsumedTyped DEF ReadActivation, ReadDirectActivation
<1>2. CASE Dies
    BY <1>1, <1>2, DiesTyped DEF HostSideKept, HostSide
<1>3. CASE ReadActivation /\ ~Dies
    <2>1. InOrder("activate")
        BY <1>3 DEF ReadActivation
    <2>2. Head1.body.barrier \in Nat
        BY <1>1, <2>1, ZigFrameRead DEF InOrder, ActivationBody
    <2>3. host \in HostRecord /\ host.zseq + 1 \in Nat /\ host.left > 0
        BY <1>3, CountersTyped DEF TypeOK, ReadActivation, Unspent
    <2>4. PICK pc \in {"live", "catchup"} :
            host' = [host EXCEPT !.zseq = @ + 1, !.barrier = Head1.body.barrier, !.pc = pc]
        BY <1>3 DEF ReadActivation
    <2>5. host' \in HostRecord /\ host'.mode = host.mode /\ host'.left = host.left
        BY <2>2, <2>3, <2>4 DEF HostRecord, Place
    <2>6. UNCHANGED <<toZig, outputs>>
        BY <1>3 DEF ReadActivation
    <2> QED BY <1>1, <2>3, <2>5, <2>6 DEF HostSideKept, HostSide, TypeOK, Unspent
<1>4. CASE ReadDirectActivation /\ ~Dies
    <2>3. host \in HostRecord /\ host.zseq + 1 \in Nat /\ host.left > 0
        BY <1>4, CountersTyped DEF TypeOK, ReadDirectActivation, Unspent
    <2>4. host' = [host EXCEPT !.zseq = @ + 1, !.pc = "inputs"] /\ UNCHANGED <<toZig, outputs>>
        BY <1>4 DEF ReadDirectActivation
    <2>5. host' \in HostRecord /\ host'.mode = host.mode /\ host'.left = host.left
        BY <2>3, <2>4 DEF HostRecord, Place
    <2> QED BY <1>1, <2>3, <2>4, <2>5 DEF HostSideKept, HostSide, TypeOK, Unspent
<1> QED BY <1>2, <1>3, <1>4

\* The frames the live loop may write about one batch: the report of a faulty
\* strategy, which takes the next number, and what follows it.
LEMMA LiveFrames ==
    ASSUME TypeOK
    PROVE  /\ Faulted \in Seq(HostFrame) /\ Len(Faulted) \in Nat
           /\ \A k \in DOMAIN Faulted : Faulted[k].type = "faulted" /\ Faulted[k].seq = host.hseq + k - 1
           /\ Counted \in Nat /\ Counted = host.hseq + Len(Faulted)
<1> DEFINE fault == [type |-> "faulted", gen |-> host.gen, seq |-> host.hseq, body |-> None]
<1>1. host.gen \in Nat /\ host.hseq \in Nat
    BY DEF TypeOK, HostRecord
<1>2. fault \in HostFrame /\ fault.type = "faulted" /\ fault.seq = host.hseq
    BY <1>1, HostFrameWritten
<1>3. Faulted = IF host.mode = "strategy-fault" THEN <<fault>> ELSE <<>>
    BY DEF Faulted
<1> HIDE DEF fault
<1>4. /\ Faulted \in Seq(HostFrame) /\ Len(Faulted) \in Nat
      /\ \A k \in DOMAIN Faulted : Faulted[k].type = "faulted" /\ Faulted[k].seq = host.hseq + k - 1
    BY <1>1, <1>2, <1>3
<1>5. host.hseq + Len(Faulted) \in Nat
    BY <1>1, <1>4
<1> QED BY <1>4, <1>5 DEF Counted

\* Frames written after one another stand in the pipe in that order.
LEMMA Written ==
    ASSUME NEW S, NEW s \in Seq(S), NEW t \in Seq(S), NEW f \in S
    PROVE  /\ s \o t \in Seq(S) /\ Len(s \o t) = Len(s) + Len(t)
           /\ s \o t \o <<f>> \in Seq(S) /\ Len(s \o t \o <<f>>) = Len(s) + Len(t) + 1
           /\ \A k \in DOMAIN (s \o t) :
                (s \o t)[k] = IF k <= Len(s) THEN s[k] ELSE t[k - Len(s)]
           /\ \A k \in DOMAIN (s \o t \o <<f>>) :
                (s \o t \o <<f>>)[k] = IF k <= Len(s) THEN s[k]
                                       ELSE IF k <= Len(s) + Len(t) THEN t[k - Len(s)] ELSE f
<1> DEFINE u == s \o t
<1>1. /\ u \in Seq(S) /\ Len(u) = Len(s) + Len(t)
      /\ \A k \in DOMAIN u : u[k] = IF k <= Len(s) THEN s[k] ELSE t[k - Len(s)]
    OBVIOUS
<1> HIDE DEF u
<1>2. /\ u \o <<f>> \in Seq(S) /\ Len(u \o <<f>>) = Len(u) + 1
      /\ \A k \in DOMAIN (u \o <<f>>) : (u \o <<f>>)[k] = IF k <= Len(u) THEN u[k] ELSE f
    <2>1. u \in Seq(S) /\ f \in S
        BY <1>1
    <2> QED BY <2>1
<1>3. \A k \in DOMAIN (u \o <<f>>) :
        k \in Nat /\ k >= 1 /\ (k <= Len(u) => k \in DOMAIN u)
    BY <1>1, <1>2
<1>4. Len(s) \in Nat /\ Len(t) \in Nat
    OBVIOUS
<1>5. \A k \in DOMAIN (u \o <<f>>) :
        (u \o <<f>>)[k] = IF k <= Len(s) THEN s[k]
                          ELSE IF k <= Len(s) + Len(t) THEN t[k - Len(s)] ELSE f
    BY <1>1, <1>2, <1>3, <1>4
<1> QED BY <1>1, <1>2, <1>5 DEF u

\* What the live loop writes after the report is one frame with the number it is given.
LEMMA LastFrame ==
    ASSUME TypeOK, NEW seq \in Nat
    PROVE  /\ \E f \in HostFrame : f.type = "recovery_required" /\ f.seq = seq
                                   /\ Frame("recovery_required", seq, None) = <<f>>
           /\ \A o \in IntentBody : \E f \in HostFrame :
                f.type = "output" /\ f.seq = seq /\ Frame("output", seq, o) = <<f>>
<1>1. host.gen \in Nat
    BY DEF TypeOK, HostRecord
<1>2. [type |-> "recovery_required", gen |-> host.gen, seq |-> seq, body |-> None] \in HostFrame
    BY <1>1, HostFrameWritten
<1>3. \A o \in IntentBody : [type |-> "output", gen |-> host.gen, seq |-> seq, body |-> o] \in HostFrame
    BY <1>1, HostFrameWritten
<1> QED BY <1>2, <1>3 DEF Frame

\* A batch the live loop cannot take leaves a well-formed pipe behind.
LEMMA RefuseLiveTyped ==
    ASSUME TypeOK, NEW seq \in Nat, RefuseLive(seq)
    PROVE  /\ toZig' \in Seq(HostFrame) /\ host' \in HostRecord /\ host'.mode = host.mode
           /\ outputs' \subseteq Outputs /\ Unspent'
<1>1. Faulted \in Seq(HostFrame) /\ toZig \in Seq(HostFrame)
    BY LiveFrames DEF TypeOK
<1>2. PICK f \in HostFrame : Frame("recovery_required", seq, None) = <<f>>
    BY LastFrame
<1>3. toZig' = toZig \o Faulted \/ toZig' = toZig \o Faulted \o <<f>>
    BY <1>2 DEF RefuseLive
<1>4. toZig' \in Seq(HostFrame)
    <2>1. toZig \o Faulted \in Seq(HostFrame) /\ toZig \o Faulted \o <<f>> \in Seq(HostFrame)
        BY <1>1, Written
    <2> QED BY <1>3, <2>1
<1>6. PICK code \in Nat : host' = [host EXCEPT !.pc = "dead", !.code = code]
    BY DEF RefuseLive
<1>5. host' \in HostRecord /\ host'.mode = host.mode /\ host'.pc = "dead"
    BY <1>6 DEF TypeOK, HostRecord, Place
<1> QED BY <1>4, <1>5 DEF TypeOK, RefuseLive, Unspent

\* Live keeps the host, its pipes and the history of its intents well formed.
LEMMA LiveTyped == ASSUME TypeOK, Unspent, Live PROVE HostSideKept
<1>1. toHost' \in Seq(ZigFrame) /\ Head1 \in ZigFrame
    BY ConsumedTyped DEF Live
<1>2. CASE ~InOrder("input")
    BY <1>1, <1>2, RequireRecoveryTyped DEF Live, HostSideKept, HostSide
<1>3. CASE RefuseLive(Counted)
    BY <1>1, <1>3, LiveFrames, RefuseLiveTyped DEF HostSideKept, HostSide
<1>4. CASE InOrder("input") /\ AnswerLive(Counted)
    <2> DEFINE b == Head1.body
               wanted == Emits(b.first, b.last)
               moved == ApplyReplay(host, b)
               o == Intent(host.next, b)
    <2>1. b \in InputBody
        BY <1>1, <1>4, ZigFrameRead DEF InOrder
    <2>2. moved \in HostRecord /\ moved.left = host.left /\ moved.mode = host.mode /\ moved.pc = host.pc
        BY <2>1, ApplyReplayTyped
    <2>3. /\ host.gen \in Nat /\ host.act \in Nat /\ host.next \in Nat
          /\ host.barrier \in Nat /\ b.batch \in Nat /\ b.last \in Nat /\ b.first \in Nat
        BY <2>1 DEF TypeOK, HostRecord, InputBody
    <2>4. o \in IntentBody
        BY <2>3 DEF Intent, IntentBody
    <2>5. Faulted \in Seq(HostFrame) /\ toZig \in Seq(HostFrame) /\ Counted \in Nat /\ Counted + 1 \in Nat
        BY LiveFrames DEF TypeOK
    <2>6. PICK f \in HostFrame : Frame("output", Counted, o) = <<f>>
        BY <2>4, <2>5, LastFrame
    <2> HIDE DEF moved
    <2>7. CASE wanted = {}
        <3>1. toZig' = toZig \o Faulted /\ host' = [moved EXCEPT !.hseq = Counted] /\ UNCHANGED outputs
            BY <1>4, <2>7 DEF AnswerLive, moved
        <3>2. host' \in HostRecord /\ host'.mode = host.mode /\ host'.left = host.left /\ host'.pc = host.pc
            BY <2>2, <2>5, <3>1 DEF HostRecord
        <3>3. toZig' \in Seq(HostFrame)
            BY <2>5, <3>1
        <3> QED BY <1>1, <3>1, <3>2, <3>3 DEF HostSideKept, HostSide, TypeOK, Unspent
    <2>8. CASE wanted # {}
        <3>1. /\ toZig' = toZig \o Faulted \o <<f>>
              /\ host' = [moved EXCEPT !.hseq = Counted + 1, !.pc = "closing"]
              /\ outputs' = outputs \cup {Published(o, Earliest(wanted))}
            BY <1>4, <2>6, <2>8 DEF AnswerLive, moved
        <3>2. host' \in HostRecord /\ host'.mode = host.mode /\ host'.pc = "closing"
            BY <2>2, <2>5, <3>1 DEF HostRecord, Place
        <3>3. toZig' \in Seq(HostFrame)
            BY <2>5, <2>6, <3>1
        <3>4. Earliest(wanted) \in Nat
            <4>1. wanted \subseteq Nat
                BY <2>3 DEF Emits
            <4> QED BY <4>1, <2>8, EarliestTyped
        <3>5. Published(o, Earliest(wanted)) \in Outputs
            BY <2>3, <2>4, <3>4 DEF Published, Outputs, IntentBody
        <3> QED BY <1>1, <3>1, <3>2, <3>3, <3>5 DEF HostSideKept, HostSide, TypeOK, Unspent
    <2> QED BY <2>7, <2>8
<1> QED BY <1>2, <1>3, <1>4 DEF Live, LiveInput

\* AnswerTrade and AnswerBenchmark never answer more batches than they were started for.
LEMMA AnswerTyped == ASSUME TypeOK, Unspent, AnswerTrade \/ AnswerBenchmark PROVE HostSideKept
<1>1. toHost' \in Seq(ZigFrame) /\ Head1 \in ZigFrame
    BY ConsumedTyped DEF AnswerTrade, AnswerBenchmark
<1>2. CASE ~Readable
    BY <1>1, <1>2, RequireRecoveryTyped DEF AnswerTrade, AnswerBenchmark, HostSideKept, HostSide
<1>3. CASE Readable
    <2>1. PICK type \in {"output", "benchmark"} : AnswerWith(type)
        BY <1>3 DEF AnswerTrade, AnswerBenchmark
    <2>2. Head1.body \in InputBody
        BY <1>1, <1>3, ZigFrameRead DEF Readable, InOrder
    <2>3. Intent(host.next, Head1.body) \in IntentBody
        BY <2>2 DEF Intent, IntentBody, InputBody, TypeOK, HostRecord
    <2>4. toZig' \in Seq(HostFrame)
        BY <2>1, <2>3, WriteTyped DEF AnswerWith
    <2>5. /\ host \in HostRecord /\ host.zseq + 1 \in Nat /\ host.hseq + 1 \in Nat
          /\ host.next + 1 \in Nat \ {0}
        BY CountersTyped DEF TypeOK
    <2>6. host.pc = "inputs" /\ host.left \in Nat /\ host.left > 0 /\ host.left - 1 \in Nat
        <3>1. host.pc = "inputs"
            BY DEF AnswerTrade, AnswerBenchmark
        <3>2. host.left \in Nat
            BY <2>5 DEF HostRecord
        <3> QED BY <3>1, <3>2 DEF Unspent
    <2>7. /\ host' = [host EXCEPT !.zseq = @ + 1, !.hseq = @ + 1, !.next = @ + 1, !.left = @ - 1,
                                  !.pc = IF host.left = 1 THEN "closing" ELSE @]
          /\ UNCHANGED outputs
        BY <2>1 DEF AnswerWith
    <2>8. /\ host' \in HostRecord /\ host'.mode = host.mode /\ host'.left = host.left - 1
          /\ host.left = 1 => host'.pc = "closing"
        BY <2>5, <2>6, <2>7 DEF HostRecord, Place
    <2>9. Unspent'
        BY <2>6, <2>8 DEF Unspent
    <2> QED BY <1>1, <2>4, <2>7, <2>8, <2>9 DEF HostSideKept, HostSide, TypeOK
<1> QED BY <1>2, <1>3

\* The acknowledgement of a shutdown is well formed.
LEMMA FarewellTyped ==
    ASSUME TypeOK, Write("shutdown_ack", None), host' = [host EXCEPT !.pc = "dead"], UNCHANGED outputs
    PROVE  toZig' \in Seq(HostFrame) /\ host' \in HostRecord /\ host'.mode = host.mode
           /\ outputs' \subseteq Outputs /\ Unspent'
<1>1. toZig' \in Seq(HostFrame)
    BY WriteTyped
<1>2. host' \in HostRecord /\ host'.mode = host.mode /\ host'.pc = "dead"
    BY DEF TypeOK, HostRecord, Place
<1> QED BY <1>1, <1>2 DEF TypeOK, Unspent

\* Serve keeps the host and its pipes well formed.
LEMMA ServeTyped == ASSUME TypeOK, Unspent, Serve PROVE HostSideKept
<1>1. toHost' \in Seq(ZigFrame) /\ Head1 \in ZigFrame
    BY ConsumedTyped DEF Serve
<1> DEFINE asked == InOrder("request_checkpoint") /\ Head1.body.id > host.request
                      /\ Head1.body.cursor = host.cursor
<1>2. CASE asked
    <2>1. Head1.body.id \in Nat
        BY <1>1, <1>2, ZigFrameRead DEF InOrder, RequestBody
    <2>2. Checkpoint(Head1.body.id) \in CheckpointBody
        BY <2>1 DEF Checkpoint, CheckpointBody, Recovered, StateReport, TypeOK, HostRecord
    <2>3. toZig' \in Seq(HostFrame)
        BY <1>2, <2>2, WriteTyped DEF Serve
    <2>4. host \in HostRecord /\ host.zseq + 1 \in Nat /\ host.hseq + 1 \in Nat
        BY CountersTyped DEF TypeOK
    <2>5. /\ host' = [host EXCEPT !.zseq = @ + 1, !.hseq = @ + 1, !.request = Head1.body.id]
          /\ UNCHANGED outputs
        BY <1>2 DEF Serve
    <2>6. host' \in HostRecord /\ host'.mode = host.mode /\ host'.left = host.left /\ host'.pc = host.pc
        BY <2>1, <2>4, <2>5 DEF HostRecord
    <2> QED BY <1>1, <2>3, <2>5, <2>6 DEF HostSideKept, HostSide, TypeOK, Unspent
<1>3. CASE ~asked /\ InOrder("shutdown")
    BY <1>1, <1>3, FarewellTyped DEF Serve, HostSideKept, HostSide
<1>4. CASE ~asked /\ ~InOrder("shutdown")
    BY <1>1, <1>4, DiesTyped DEF Serve, HostSideKept, HostSide
<1> QED BY <1>2, <1>3, <1>4

\* ReadShutdown keeps the host and its pipes well formed.
LEMMA ReadShutdownTyped == ASSUME TypeOK, Unspent, ReadShutdown PROVE HostSideKept
<1>1. toHost' \in Seq(ZigFrame) /\ Head1 \in ZigFrame
    BY ConsumedTyped DEF ReadShutdown
<1>2. CASE InOrder("shutdown")
    BY <1>1, <1>2, FarewellTyped DEF ReadShutdown, HostSideKept, HostSide
<1>3. CASE ~InOrder("shutdown")
    BY <1>1, <1>3, DiesTyped DEF ReadShutdown, HostSideKept, HostSide
<1> QED BY <1>2, <1>3

\* No step of the Python process breaks the type of the system.
LEMMA HostStepTyped == ASSUME Typed, HostStep PROVE Typed'
<1>1. HostSideKept
    BY ReadPlanTyped, SendHeartbeatTyped, ReadBeginRecoveryTyped, ReadPortableRecoveryTyped,
       FinishReplayTyped, ReplayStepTyped, ReadActivationTyped, LiveTyped, AnswerTyped,
       ServeTyped, ReadShutdownTyped
    DEF HostStep, Typed
<1>2. UNCHANGED zigVars
    BY DEF HostStep
<1> QED BY <1>1, <1>2 DEF Typed, TypeOK, HostSideKept, HostSide, Reported, zigVars

-----------------------------------------------------------------------------
(* One lemma per step of the owner.                                        *)

\* The journal only grows, and at its end.
LEMMA GrowTyped == ASSUME facts \in Seq(BOOLEAN), NEW wanted \in BOOLEAN, Grow(wanted)
                   PROVE  /\ facts' \in Seq(BOOLEAN) /\ Len(facts) + 1 \in Nat /\ Len(facts') = Len(facts) + 1
                          /\ \A n \in 1 .. Len(facts) : facts'[n] = facts[n]
BY DEF Grow

\* Gateway.beginRecovery keeps what was published and whose session it is.
LEMMA ClosedTyped == ASSUME gateway \in GatewayRecord
                     PROVE  /\ Closed(gateway) \in GatewayRecord
                            /\ Closed(gateway).published = gateway.published
                            /\ Closed(gateway).act = gateway.act
                            /\ Closed(gateway).gen = gateway.gen
                            /\ Closed(gateway).barrier = gateway.barrier
BY DEF Closed, GatewayRecord

\* Revoking authority leaves the last identity in the shard.
LEMMA RevokedTyped == ASSUME shard \in ShardRecord
                      PROVE  /\ Revoked(shard) \in ShardRecord
                             /\ Revoked(shard).seen = shard.seen /\ Revoked(shard).epoch = shard.epoch
                             /\ Revoked(shard).act = 0 /\ Revoked(shard).fact = 0
BY DEF Revoked, ShardRecord

\* The identity a new session is started under is a positive number.
LEMMA IdentityTyped == ASSUME shard \in ShardRecord PROVE NextIdentity \in Nat \ {0}
BY DEF NextIdentity, ShardRecord

\* StartSession keeps the type of the system.
LEMMA StartSessionTyped ==
    ASSUME Typed, NEW mode \in Modes, NEW barrier \in Nat, StartSession(mode, barrier)
    PROVE  Typed'
<1>1. facts \in Seq(BOOLEAN) /\ sup \in SupRecord /\ gateway \in GatewayRecord /\ shard \in ShardRecord
    BY DEF Typed, TypeOK
<1>2. facts' \in Seq(BOOLEAN) /\ shard' \in ShardRecord
    BY <1>1, GrowTyped, RevokedTyped DEF StartSession
<1> DEFINE gen == sup.gen + 1
           floor == IF shard.act # 0 THEN shard.act ELSE 0
           closed == Closed(gateway)
           above == IF floor > closed.floor THEN floor ELSE closed.floor
<1>3. gen \in Nat /\ floor \in Nat /\ closed \in GatewayRecord
    BY <1>1, ClosedTyped DEF SupRecord, ShardRecord
<1>4. above \in Nat
    BY <1>3 DEF GatewayRecord
<1>5. NextIdentity \in Nat
    BY <1>1, IdentityTyped
<1>6. gateway' = [closed EXCEPT !.gen = gen, !.act = NextIdentity, !.barrier = barrier,
                                !.floor = above, !.published = <<>>]
    BY DEF StartSession
<1>7. sup' = [state |-> "starting", gen |-> gen, next_host |-> 1, next_zig |-> 2,
              recovered |-> None, fault |-> FALSE, base |-> 0, barrier |-> 0,
              request |-> 0, last_request |-> 0, expected |-> None]
    BY DEF StartSession
<1>8. toHost' = <<[type |-> "session_plan", gen |-> gen, seq |-> 1, body |-> None]>>
    BY DEF StartSession
<1>9. /\ host' = Process(mode, NextIdentity, "plan") /\ toZig' = <<>>
      /\ UNCHANGED <<proposed, faults, outputs, admitted>>
    BY DEF StartSession
<1> HIDE DEF gen, floor, closed, above
<1>10. gateway' \in GatewayRecord
    <2>1. <<>> \in Seq(Nat)
        OBVIOUS
    <2>2. closed \in GatewayRecord
        BY <1>3
    <2> QED BY <1>3, <1>4, <1>5, <1>6, <2>1, <2>2 DEF GatewayRecord
<1>11. sup' \in SupRecord
    BY <1>3, <1>7 DEF SupRecord, State
<1>12. toHost' \in Seq(ZigFrame) /\ toZig' \in Seq(HostFrame)
    <2>1. [type |-> "session_plan", gen |-> gen, seq |-> 1, body |-> None] \in ZigFrame
        BY <1>3, ZigFrameWritten
    <2> QED BY <1>8, <1>9, <2>1
<1>13. host' \in HostRecord /\ host'.left > 0
    BY <1>5, <1>9, HostAssumption DEF Process, HostRecord, Place
<1> QED BY <1>2, <1>7, <1>9, <1>10, <1>11, <1>12, <1>13 DEF Typed, TypeOK, Unspent, Reported

\* Every frame the owner sends is well formed.
LEMMA SendTyped ==
    ASSUME Typed, NEW type, NEW body, Send(type, body),
           \/ type = "shutdown" /\ body = None
           \/ type = "begin_recovery" /\ body \in RecoveryBody
           \/ type = "activate" /\ body \in ActivationBody
           \/ type = "input" /\ body \in InputBody
           \/ type = "request_checkpoint" /\ body \in RequestBody
    PROVE  toHost' \in Seq(ZigFrame) /\ sup.next_zig + 1 \in Nat
<1>1. sup.gen \in Nat /\ sup.next_zig \in Nat
    BY DEF Typed, TypeOK, SupRecord
<1>2. [type |-> type, gen |-> sup.gen, seq |-> sup.next_zig, body |-> body] \in ZigFrame
    BY <1>1, ZigFrameWritten
<1> QED BY <1>1, <1>2, QueueTyped DEF Typed, TypeOK, Send

\* BeginRecovery keeps the type of the system.
LEMMA BeginRecoveryTyped ==
    ASSUME Typed, NEW cursor \in Nat, NEW barrier \in Nat, BeginRecovery(cursor, barrier)
    PROVE  Typed'
<1>1. [barrier |-> barrier, cursor |-> cursor, next |-> NumberAfter(cursor)] \in RecoveryBody
    BY NumberTyped DEF RecoveryBody
<1>2. toHost' \in Seq(ZigFrame) /\ sup.next_zig + 1 \in Nat
    BY <1>1, SendTyped DEF BeginRecovery
<1>3. sup' \in SupRecord /\ sup'.state = "recovering"
    BY <1>2 DEF Typed, TypeOK, BeginRecovery, SupRecord, State
<1> QED BY <1>2, <1>3 DEF Typed, TypeOK, BeginRecovery, Unspent, Reported

\* A batch starts at a fact of the journal.
LEMMA NextFirstTyped ==
    ASSUME gateway \in GatewayRecord, sup \in SupRecord
    PROVE  NextFirst \in Nat \ {0}
<1>1. gateway.published \in Seq(Nat) /\ sup.base \in Nat
    BY DEF GatewayRecord, SupRecord
<1>2. CASE gateway.published = <<>>
    BY <1>1, <1>2 DEF NextFirst
<1>3. CASE gateway.published # <<>>
    <2>1. Len(gateway.published) \in 1 .. Len(gateway.published)
        BY <1>1, <1>3
    <2>2. Last(gateway.published) \in Nat
        BY <1>1, <2>1 DEF Last
    <2> QED BY <1>3, <2>2 DEF NextFirst
<1> QED BY <1>2, <1>3

\* SendInput keeps the type of the system.
LEMMA SendInputTyped ==
    ASSUME Typed, NEW last \in Nat, NEW holds \in Content, SendInput(last, holds)
    PROVE  Typed'
<1> DEFINE batch == Len(gateway.published) + 1
<1>1. gateway \in GatewayRecord /\ gateway.published \in Seq(Nat) /\ batch \in Nat /\ sup \in SupRecord
    BY DEF Typed, TypeOK, GatewayRecord
<1>2. NextFirst \in Nat
    BY <1>1, NextFirstTyped DEF Typed, TypeOK
<1>3. [batch |-> batch, first |-> NextFirst, last |-> last, holds |-> holds] \in InputBody
    BY <1>1, <1>2 DEF InputBody
<1>4. toHost' \in Seq(ZigFrame) /\ sup.next_zig + 1 \in Nat
    BY <1>3, SendTyped DEF SendInput
<1>5. sup' \in SupRecord /\ sup'.state = sup.state /\ sup'.recovered = sup.recovered
    BY <1>1, <1>4 DEF SendInput, SupRecord
<1>6. gateway' \in GatewayRecord
    <2>1. gateway' = [gateway EXCEPT !.published = Append(@, last)]
        BY DEF SendInput
    <2>2. Append(gateway.published, last) \in Seq(Nat)
        BY <1>1
    <2> QED BY <1>1, <2>1, <2>2 DEF GatewayRecord
<1>7. faults' \in Nat
    BY DEF Typed, TypeOK, SendInput
<1> QED BY <1>4, <1>5, <1>6, <1>7 DEF Typed, TypeOK, SendInput, Unspent, Reported

\* CommitActivation keeps the type of the system.
LEMMA CommitActivationTyped == ASSUME Typed, CommitActivation PROVE Typed'
<1>1. facts' \in Seq(BOOLEAN) /\ Len(facts) + 1 \in Nat
    <2>1. facts \in Seq(BOOLEAN) /\ Grow(FALSE)
        BY DEF Typed, TypeOK, CommitActivation
    <2> QED BY <2>1, GrowTyped
<1>2. shard' \in ShardRecord
    BY <1>1 DEF Typed, TypeOK, CommitActivation, ShardRecord, GatewayRecord
<1> QED BY <1>1, <1>2 DEF Typed, TypeOK, CommitActivation, Unspent, Reported

\* OpenGateway keeps the type of the system.
LEMMA OpenGatewayTyped == ASSUME Typed, OpenGateway PROVE Typed'
<1>1. gateway' \in GatewayRecord
    BY DEF Typed, TypeOK, OpenGateway, GatewayRecord, ShardRecord
<1> QED BY <1>1 DEF Typed, TypeOK, OpenGateway, Unspent, Reported

\* SendActivation keeps the type of the system: an activated host has reported its state,
\* except a trading host, which has none.
LEMMA SendActivationTyped == ASSUME Typed, SendActivation PROVE Typed'
<1> DEFINE report == IF sup.recovered = None THEN [cursor |-> 0, next |-> 1] ELSE sup.recovered
<1>1. sup \in SupRecord /\ gateway \in GatewayRecord
    BY DEF Typed, TypeOK
<1>2. report \in StateReport
    BY <1>1 DEF SupRecord, StateReport
<1>3. [id |-> gateway.act, barrier |-> gateway.barrier, state |-> report] \in ActivationBody
    BY <1>1, <1>2 DEF ActivationBody, GatewayRecord
<1>4. Send("activate", [id |-> gateway.act, barrier |-> gateway.barrier, state |-> report])
    BY DEF SendActivation
<1>5. toHost' \in Seq(ZigFrame) /\ sup.next_zig + 1 \in Nat
    BY <1>3, <1>4, SendTyped
<1>6. sup' \in SupRecord /\ sup'.state = "active" /\ sup'.recovered = sup.recovered
    BY <1>1, <1>5 DEF SendActivation, SupRecord, State, GatewayRecord
<1>7. sup.recovered \in StateReport \/ host.mode = "trade"
    BY DEF Typed, Reported, SendActivation
<1> QED BY <1>5, <1>6, <1>7 DEF Typed, TypeOK, SendActivation, Unspent, Reported

\* RequestCheckpoint keeps the type of the system: there is a reported state to name.
LEMMA RequestCheckpointTyped == ASSUME Typed, RequestCheckpoint PROVE Typed'
<1>1. sup \in SupRecord /\ sup.recovered \in StateReport
    BY DEF Typed, TypeOK, Reported, RequestCheckpoint
<1>2. sup.last_request + 1 \in Nat /\ sup.recovered.cursor \in Nat
    BY <1>1 DEF SupRecord, StateReport
<1>3. [id |-> sup.last_request + 1, cursor |-> sup.recovered.cursor] \in RequestBody
    BY <1>2 DEF RequestBody
<1>4. toHost' \in Seq(ZigFrame) /\ sup.next_zig + 1 \in Nat
    BY <1>3, SendTyped DEF RequestCheckpoint
<1>5. sup' \in SupRecord /\ sup'.state = sup.state /\ sup'.recovered = sup.recovered
    BY <1>1, <1>2, <1>4 DEF RequestCheckpoint, SupRecord
<1> QED BY <1>4, <1>5 DEF Typed, TypeOK, RequestCheckpoint, Unspent, Reported

\* Shutdown keeps the type of the system.
LEMMA ShutdownTyped == ASSUME Typed, Shutdown PROVE Typed'
<1>1. toHost' \in Seq(ZigFrame) /\ sup.next_zig + 1 \in Nat
    BY SendTyped DEF Shutdown
<1>2. sup' \in SupRecord /\ sup'.state = "stopping"
    BY <1>1 DEF Typed, TypeOK, Shutdown, SupRecord, State
<1> QED BY <1>1, <1>2 DEF Typed, TypeOK, Shutdown, Unspent, Reported

\* The frame the supervisor reads is one of the host's.
LEMMA HeardTyped ==
    ASSUME Typed, Heard, toZig' = Tail(toZig)
    PROVE  Head2 \in HostFrame /\ toZig' \in Seq(HostFrame) /\ sup.next_host + 1 \in Nat
BY QueueTyped DEF Typed, TypeOK, Heard, Head2, SupRecord

\* A supervisor that gives up keeps its type.
LEMMA FailedTyped == ASSUME Typed, sup' = Failed PROVE sup' \in SupRecord /\ sup'.state = "failed"
BY DEF Typed, TypeOK, Failed, SupRecord, State

\* ReceiveControl keeps the type of the system.
LEMMA ReceiveControlTyped == ASSUME Typed, ReceiveControl PROVE Typed'
<1>1. Head2 \in HostFrame /\ toZig' \in Seq(HostFrame) /\ sup.next_host + 1 \in Nat
    BY HeardTyped DEF ReceiveControl
<1>2. UNCHANGED <<facts, host, toHost, gateway, shard, proposed, faults, outputs, admitted>>
    BY DEF ReceiveControl
<1>3. CASE Expected /\ sup.state \in AcceptedIn(Head2.type)
    <2> DEFINE state == Next2State(Head2.type)
               report == IF Head2.type = "recovered" THEN Head2.body ELSE sup.recovered
    <2>1. sup \in SupRecord /\ Head2.type \in Control
        BY DEF Typed, TypeOK, ReceiveControl
    <2>2. PICK mine \in BOOLEAN :
            sup' = [sup EXCEPT !.state = state, !.next_host = @ + 1, !.fault = mine, !.recovered = report]
        BY <1>3, <2>1 DEF ReceiveControl, SupRecord
    <2>3. state \in State
        BY <2>1 DEF Next2State, State, SupRecord
    <2>4. report \in StateReport \cup {None} /\ (Head2.type = "recovered" => report \in StateReport)
        BY <1>1, <2>1, HostFrameRead DEF SupRecord
    <2>5. /\ state = "recovered" =>
                Head2.type = "recovered" \/ (sup.state = "recovered" /\ report = sup.recovered)
          /\ state = "active" =>
                sup.state = "active" /\ (report = sup.recovered \/ report \in StateReport)
        BY <2>1, <2>4 DEF Next2State
    <2> HIDE DEF state, report
    <2>6. sup' \in SupRecord /\ sup'.state = state /\ sup'.recovered = report
        BY <1>1, <2>1, <2>2, <2>3, <2>4 DEF SupRecord
    <2>7. Reported'
        BY <1>2, <2>4, <2>5, <2>6 DEF Typed, Reported
    <2> QED BY <1>1, <1>2, <2>6, <2>7 DEF Typed, TypeOK, Unspent
<1>4. CASE ~(Expected /\ sup.state \in AcceptedIn(Head2.type))
    <2>1. sup' \in SupRecord /\ sup'.state = "failed"
        BY <1>4, FailedTyped DEF ReceiveControl
    <2> QED BY <1>1, <1>2, <2>1 DEF Typed, TypeOK, Unspent, Reported
<1> QED BY <1>3, <1>4

\* ReceiveOutput keeps the type of the system.
LEMMA ReceiveOutputTyped == ASSUME Typed, NEW fresh \in BOOLEAN, ReceiveOutput(fresh) PROVE Typed'
<1> DEFINE o == Head2.body
           g == IF AuthorityLost(gateway) THEN Closed(gateway) ELSE gateway
           accepted == fresh /\ Parses(g, o) /\ o.number \notin g.seen
<1>1. Head2 \in HostFrame /\ toZig' \in Seq(HostFrame) /\ sup.next_host + 1 \in Nat
    BY HeardTyped DEF ReceiveOutput
<1>2. o \in IntentBody
    BY <1>1, HostFrameRead DEF ReceiveOutput
<1>3. gateway \in GatewayRecord /\ g \in GatewayRecord /\ proposed \in Seq(IntentBody) /\ sup \in SupRecord
    BY ClosedTyped DEF Typed, TypeOK
<1>4. faults' \in Nat
    BY DEF Typed, TypeOK, ReceiveOutput
<1>5. UNCHANGED <<facts, host, toHost, shard, outputs, admitted>>
    BY DEF ReceiveOutput
<1>6. CASE Expected /\ o.batch <= Len(gateway.published)
    <2>1. /\ sup' = [sup EXCEPT !.next_host = @ + 1]
          /\ gateway' = [g EXCEPT !.seen = IF accepted THEN @ \cup {o.number} ELSE @]
          /\ proposed' = IF accepted THEN Append(proposed, o) ELSE proposed
        BY <1>6 DEF ReceiveOutput
    <2>2. sup' \in SupRecord /\ sup'.state = sup.state /\ sup'.recovered = sup.recovered
        BY <1>1, <1>3, <2>1 DEF SupRecord
    <2>3. o.number \in Nat
        BY <1>2 DEF IntentBody
    <2> HIDE DEF g, o, accepted
    <2>4. gateway' \in GatewayRecord
        BY <1>3, <2>1, <2>3 DEF GatewayRecord
    <2>5. proposed' \in Seq(IntentBody)
        BY <1>2, <1>3, <2>1, QueueTyped
    <2> QED BY <1>1, <1>4, <1>5, <2>2, <2>4, <2>5 DEF Typed, TypeOK, Unspent, Reported
<1>7. CASE ~(Expected /\ o.batch <= Len(gateway.published))
    <2>1. sup' \in SupRecord /\ sup'.state = "failed"
        BY <1>7, FailedTyped DEF ReceiveOutput
    <2>2. UNCHANGED <<gateway, proposed>>
        BY <1>7 DEF ReceiveOutput
    <2> QED BY <1>1, <1>4, <1>5, <2>1, <2>2 DEF Typed, TypeOK, Unspent, Reported
<1> QED BY <1>6, <1>7

\* ReceiveCheckpoint keeps the type of the system.
LEMMA ReceiveCheckpointTyped == ASSUME Typed, ReceiveCheckpoint PROVE Typed'
<1>1. Head2 \in HostFrame /\ toZig' \in Seq(HostFrame) /\ sup.next_host + 1 \in Nat
    BY HeardTyped DEF ReceiveCheckpoint
<1>2. CASE sup' = Failed
    <2>1. sup' \in SupRecord /\ sup'.state = "failed"
        BY <1>2, FailedTyped
    <2> QED BY <1>1, <2>1 DEF Typed, TypeOK, Unspent, Reported, ReceiveCheckpoint
<1>3. CASE sup' = [sup EXCEPT !.next_host = @ + 1, !.request = 0]
    <2>1. sup' \in SupRecord /\ sup'.state = sup.state /\ sup'.recovered = sup.recovered
        BY <1>1, <1>3 DEF Typed, TypeOK, SupRecord
    <2> QED BY <1>1, <2>1 DEF Typed, TypeOK, Unspent, Reported, ReceiveCheckpoint
<1> QED BY <1>2, <1>3 DEF ReceiveCheckpoint

\* Admit keeps the type of the system.
LEMMA AdmitTyped == ASSUME Typed, Admit PROVE Typed'
<1> DEFINE o == Head(proposed)
<1>1. o \in IntentBody /\ proposed' \in Seq(IntentBody)
    BY QueueTyped DEF Typed, TypeOK, Admit
<1>2. CASE o.number \in shard.known
    BY <1>1, <1>2 DEF Typed, TypeOK, Admit, Unspent, Reported
<1>3. CASE o.number \notin shard.known
    <2>1. facts' \in Seq(BOOLEAN) /\ Len(facts) + 1 \in Nat
        <3>1. facts \in Seq(BOOLEAN) /\ Grow(FALSE)
            BY <1>3 DEF Typed, TypeOK, Admit
        <3> QED BY <3>1, GrowTyped
    <2>2. o.number \in Nat /\ o.act \in Nat /\ o.cursor \in Nat
        BY <1>1 DEF IntentBody
    <2>3. shard' = [shard EXCEPT !.known = @ \cup {o.number}]
        BY <1>3 DEF Admit
    <2>4. admitted' = IF AuthorityCovers(o)
                      THEN Append(admitted, [epoch |-> o.act, cursor |-> o.cursor, fact |-> Len(facts) + 1])
                      ELSE admitted
        BY <1>3 DEF Admit
    <2> HIDE DEF o
    <2>5. shard' \in ShardRecord
        BY <2>2, <2>3 DEF Typed, TypeOK, ShardRecord
    <2>6. admitted' \in Seq([epoch : Nat, cursor : Nat, fact : Nat])
        <3>1. admitted \in Seq([epoch : Nat, cursor : Nat, fact : Nat])
            BY DEF Typed, TypeOK
        <3>2. [epoch |-> o.act, cursor |-> o.cursor, fact |-> Len(facts) + 1]
                \in [epoch : Nat, cursor : Nat, fact : Nat]
            BY <2>1, <2>2
        <3>3. Append(admitted, [epoch |-> o.act, cursor |-> o.cursor, fact |-> Len(facts) + 1])
                \in Seq([epoch : Nat, cursor : Nat, fact : Nat])
            BY <3>1, <3>2, QueueTyped
        <3> QED BY <2>4, <3>1, <3>3
    <2> QED BY <1>1, <2>1, <2>5, <2>6 DEF Typed, TypeOK, Admit, Unspent, Reported
<1> QED BY <1>2, <1>3

\* Revoke keeps the type of the system.
LEMMA RevokeTyped == ASSUME Typed, Revoke PROVE Typed'
<1>1. facts' \in Seq(BOOLEAN)
    BY GrowTyped DEF Typed, TypeOK, Revoke
<1>2. gateway' \in GatewayRecord /\ shard' \in ShardRecord
    BY ClosedTyped, RevokedTyped DEF Typed, TypeOK, Revoke
<1> QED BY <1>1, <1>2 DEF Typed, TypeOK, Revoke, Unspent, Reported

\* A missed deadline and a noticed exit keep the type of the system.
LEMMA GivenUpTyped == ASSUME Typed, MissDeadline \/ NoticeExit PROVE Typed'
<1>1. sup' \in SupRecord /\ sup'.state = "failed"
    BY FailedTyped DEF MissDeadline, NoticeExit
<1> QED BY <1>1 DEF Typed, TypeOK, MissDeadline, NoticeExit, Unspent, Reported

\* Kill keeps the type of the system.
LEMMA KillTyped == ASSUME Typed, Kill PROVE Typed'
<1>1. host' \in HostRecord /\ host'.pc = "dead" /\ host'.mode = host.mode
    BY DEF Typed, TypeOK, Kill, HostRecord, Place
<1> QED BY <1>1 DEF Typed, TypeOK, Kill, Unspent, Reported

\* Commit keeps the type of the system.
LEMMA CommitTyped == ASSUME Typed, Commit PROVE Typed'
<1>1. facts' \in Seq(BOOLEAN)
    BY GrowTyped DEF Typed, TypeOK, Commit
<1> QED BY <1>1 DEF Typed, TypeOK, Commit, Unspent, Reported

\* Every state of the composition is well typed: frames, the records of both ends
\* and of the shard, and the history of intents.
THEOREM TypeCorrect == Spec => []TypeOK
<1>1. Init => Typed
    <2> SUFFICES ASSUME Init PROVE Typed
        OBVIOUS
    <2>1. host \in HostRecord /\ host.left > 0
        BY HostAssumption DEF Init, Process, HostRecord, Place, Mode
    <2>2. sup \in SupRecord /\ sup.state = "stopped"
        BY DEF Init, SupRecord, State
    <2>3. gateway \in GatewayRecord /\ shard \in ShardRecord
        BY DEF Init, GatewayRecord, ShardRecord
    <2> QED BY <2>1, <2>2, <2>3 DEF Init, Typed, TypeOK, Unspent, Reported
<1>2. Typed /\ [Next]_vars => Typed'
    <2> SUFFICES ASSUME Typed, [Next]_vars PROVE Typed'
        OBVIOUS
    <2>1. CASE HostStep
        BY <2>1, HostStepTyped
    <2>2. CASE \E mode \in Modes, barrier \in 0 .. Len(facts) + 1 : StartSession(mode, barrier)
        <3>1. PICK mode \in Modes, barrier \in 0 .. Len(facts) + 1 : StartSession(mode, barrier)
            BY <2>2
        <3>2. barrier \in Nat
            OBVIOUS
        <3> QED BY <3>1, <3>2, StartSessionTyped
    <2>3. CASE \E cursor, barrier \in 0 .. Len(facts) : BeginRecovery(cursor, barrier)
        <3>1. PICK cursor, barrier \in 0 .. Len(facts) : BeginRecovery(cursor, barrier)
            BY <2>3
        <3>2. cursor \in Nat /\ barrier \in Nat
            OBVIOUS
        <3> QED BY <3>1, <3>2, BeginRecoveryTyped
    <2>4. CASE \E last \in 1 .. Len(facts), holds \in Content : SendInput(last, holds)
        <3>1. PICK last \in 1 .. Len(facts), holds \in Content : SendInput(last, holds)
            BY <2>4
        <3>2. last \in Nat
            OBVIOUS
        <3> QED BY <3>1, <3>2, SendInputTyped
    <2>5. CASE Receive
        BY <2>5, ReceiveControlTyped, ReceiveOutputTyped, ReceiveCheckpointTyped DEF Receive
    <2>6. CASE Commit \/ CommitActivation \/ OpenGateway \/ SendActivation \/ RequestCheckpoint
               \/ Shutdown \/ Admit \/ Revoke \/ MissDeadline \/ NoticeExit \/ Kill
        BY <2>6, CommitTyped, CommitActivationTyped, OpenGatewayTyped, SendActivationTyped,
           RequestCheckpointTyped, ShutdownTyped, AdmitTyped, RevokeTyped, GivenUpTyped, KillTyped
    <2>7. CASE UNCHANGED vars
        BY <2>7 DEF vars, Typed, TypeOK, Unspent, Reported
    <2> QED BY <2>1, <2>2, <2>3, <2>4, <2>5, <2>6, <2>7 DEF Next, ZigStep
<1>3. Typed => TypeOK
    BY DEF Typed
<1> QED BY <1>1, <1>2, <1>3, PTL DEF Spec

-----------------------------------------------------------------------------
(***************************************************************************)
(* StrategyHost implements HostAuthority.  The refinement mapping reads the *)
(* authority of the shard and the length of the journal; the invariant says *)
(* that nothing sent, proposed or opened lies beyond the journal and that   *)
(* an open authority is the last one of the shard.                          *)
(***************************************************************************)

AuthorityInv ==
    /\ shard.fact <= Len(facts)
    /\ (shard.act = 0) <=> (shard.fact = 0)
    /\ shard.act # 0 => shard.seen /\ shard.act = shard.epoch
    /\ \A k \in DOMAIN gateway.published : gateway.published[k] <= Len(facts)
    /\ \A k \in DOMAIN proposed : proposed[k].cursor <= Len(facts)
    /\ admitted \in Seq(Authority!Admission)

\* A fact makes the journal one longer.
LEMMA Longer ==
    ASSUME facts \in Seq(BOOLEAN), NEW wanted, Grow(wanted)
    PROVE  Len(facts) \in Nat /\ Len(facts') = Len(facts) + 1
BY DEF Grow

\* What a session was sent up to are facts.
LEMMA PublishedTyped ==
    ASSUME TypeOK PROVE \A k \in DOMAIN gateway.published : gateway.published[k] \in Nat
BY DEF TypeOK, GatewayRecord

\* What an intent answers is a fact.
LEMMA ProposedTyped ==
    ASSUME TypeOK PROVE \A k \in DOMAIN proposed : proposed[k].cursor \in Nat
<1>1. \A k \in DOMAIN proposed : proposed[k] \in IntentBody
    BY DEF TypeOK
<1> QED BY <1>1 DEF IntentBody

\* A step that leaves the journal and the authority alone is none of the contract.
LEMMA AuthorityStutters ==
    ASSUME TypeOK, AuthorityInv, UNCHANGED <<facts, shard, admitted, proposed>>,
           gateway'.published = gateway.published
    PROVE  AuthorityInv' /\ UNCHANGED Authority!vars
BY DEF AuthorityInv, Authority!vars

\* A fact that is not about authority and admits nothing is a Record of the contract.
LEMMA AuthorityRecords ==
    ASSUME TypeOK, AuthorityInv, NEW wanted \in BOOLEAN, Grow(wanted),
           UNCHANGED <<admitted, gateway>>, shard' = [shard EXCEPT !.known = shard'.known],
           \A k \in DOMAIN proposed' : \E l \in DOMAIN proposed : proposed'[k] = proposed[l]
    PROVE  AuthorityInv' /\ Authority!Record
<1>1. Len(facts) \in Nat /\ Len(facts') = Len(facts) + 1
    BY Longer DEF TypeOK
<1>2. /\ shard'.seen = shard.seen /\ shard'.epoch = shard.epoch /\ shard'.act = shard.act
      /\ shard'.fact = shard.fact /\ shard.fact \in Nat
    BY DEF TypeOK, ShardRecord
<1>3. Authority!Record
    BY <1>1, <1>2 DEF Authority!Record
<1>4. \A k \in DOMAIN gateway.published : gateway.published[k] \in Nat
    BY PublishedTyped
<1>5. \A k \in DOMAIN proposed : proposed[k].cursor \in Nat
    BY ProposedTyped
<1>6. AuthorityInv'
    BY <1>1, <1>2, <1>4, <1>5 DEF AuthorityInv
<1> QED BY <1>3, <1>6

\* Revoking is a Close of the contract.
LEMMA AuthorityCloses ==
    ASSUME TypeOK, AuthorityInv, shard.act # 0, Grow(FALSE), shard' = Revoked(shard),
           UNCHANGED <<admitted, proposed>>,
           gateway'.published = gateway.published \/ gateway'.published = <<>>
    PROVE  AuthorityInv' /\ Authority!Close
<1>1. Len(facts) \in Nat /\ Len(facts') = Len(facts) + 1
    BY Longer DEF TypeOK
<1>2. /\ shard'.seen = shard.seen /\ shard'.epoch = shard.epoch /\ shard'.act = 0 /\ shard'.fact = 0
      /\ shard.fact \in Nat
    BY RevokedTyped DEF TypeOK, ShardRecord
<1>3. Authority!Close
    BY <1>1, <1>2 DEF AuthorityInv, Authority!Close
<1>4. \A k \in DOMAIN gateway.published : gateway.published[k] \in Nat
    BY PublishedTyped
<1>5. \A k \in DOMAIN proposed : proposed[k].cursor \in Nat
    BY ProposedTyped
<1>6. \A k \in DOMAIN gateway'.published : gateway'.published[k] <= Len(facts) + 1
    BY <1>1, <1>4 DEF AuthorityInv
<1>7. AuthorityInv'
    BY <1>1, <1>2, <1>5, <1>6 DEF AuthorityInv
<1> QED BY <1>3, <1>7

\* host_activated is an Open of the contract, under an identity never used before.
LEMMA AuthorityOpens ==
    ASSUME TypeOK, AuthorityInv, CommitActivation
    PROVE  AuthorityInv' /\ Authority!Open
<1>1. Len(facts) \in Nat /\ Len(facts') = Len(facts) + 1
    <2>1. facts \in Seq(BOOLEAN) /\ Grow(FALSE)
        BY DEF TypeOK, CommitActivation
    <2> QED BY <2>1, Longer
<1>2. /\ shard \in ShardRecord /\ gateway \in GatewayRecord
      /\ shard.act = 0 /\ gateway.act = NextIdentity /\ gateway.act # 0
      /\ shard' = [shard EXCEPT !.seen = TRUE, !.epoch = gateway.act, !.act = gateway.act,
                                !.barrier = gateway.barrier, !.gen = gateway.gen,
                                !.fact = Len(facts) + 1]
      /\ UNCHANGED <<gateway, proposed, admitted>>
    BY DEF TypeOK, CommitActivation
<1>3. /\ shard'.seen = TRUE /\ shard'.epoch = gateway.act /\ shard'.act = gateway.act
      /\ shard'.fact = Len(facts) + 1
    BY <1>2 DEF ShardRecord
<1>4. gateway.act \in Nat /\ gateway.act > (IF shard.seen THEN shard.epoch ELSE 0)
    BY <1>2 DEF NextIdentity, ShardRecord, GatewayRecord
<1>5. Authority!Open
    BY <1>1, <1>2, <1>3, <1>4 DEF AuthorityInv, Authority!Open
<1>6. \A k \in DOMAIN gateway.published : gateway.published[k] \in Nat
    BY PublishedTyped
<1>7. \A k \in DOMAIN proposed : proposed[k].cursor \in Nat
    BY ProposedTyped
<1>8. AuthorityInv'
    BY <1>1, <1>2, <1>3, <1>6, <1>7 DEF AuthorityInv
<1> QED BY <1>5, <1>8

\* submitOrderIntent is an Admit of the contract, a Record (an intent without
\* authority is rejected by a fact) or nothing (a duplicate).
LEMMA AuthorityAdmits ==
    ASSUME TypeOK, AuthorityInv, Admit
    PROVE  AuthorityInv' /\ (Authority!Next \/ UNCHANGED Authority!vars)
<1> DEFINE o == Head(proposed)
<1>1. /\ proposed \in Seq(IntentBody) /\ proposed # <<>> /\ proposed' = Tail(proposed)
      /\ UNCHANGED gateway
    BY DEF TypeOK, Admit
<1>2. /\ o \in IntentBody /\ o.cursor <= Len(facts)
      /\ \A k \in DOMAIN proposed' : \E l \in DOMAIN proposed : proposed'[k] = proposed[l]
    BY <1>1 DEF AuthorityInv
<1>3. CASE o.number \in shard.known
    <2>1. UNCHANGED <<facts, shard, admitted>>
        BY <1>3 DEF Admit
    <2> QED BY <1>1, <1>2, <2>1 DEF AuthorityInv, Authority!vars
<1>4. CASE o.number \notin shard.known
    <2>1. facts \in Seq(BOOLEAN) /\ shard \in ShardRecord /\ Grow(FALSE)
          /\ shard' = [shard EXCEPT !.known = @ \cup {o.number}]
        BY <1>4 DEF TypeOK, Admit
    <2>2. /\ shard'.seen = shard.seen /\ shard'.epoch = shard.epoch /\ shard'.act = shard.act
          /\ shard'.fact = shard.fact /\ shard.fact \in Nat /\ shard.epoch \in Nat \ {0}
        BY <2>1 DEF ShardRecord
    <2>3. CASE ~AuthorityCovers(o)
        <3>1. UNCHANGED admitted /\ shard' = [shard EXCEPT !.known = shard'.known]
            BY <1>4, <2>1, <2>3 DEF Admit, ShardRecord
        <3> QED BY <1>1, <1>2, <2>1, <3>1, AuthorityRecords DEF Authority!Next
    <2>4. CASE AuthorityCovers(o)
        <3> DEFINE new == [epoch |-> o.act, cursor |-> o.cursor, fact |-> Len(facts) + 1]
        <3>1. admitted' = Append(admitted, new)
            BY <1>4, <2>4 DEF Admit
        <3>2. /\ shard.act # 0 /\ o.cursor > shard.fact /\ o.act = shard.act
              /\ shard.seen /\ o.act = shard.epoch /\ shard.fact # 0
            BY <2>4 DEF AuthorityCovers, AuthorityInv
        <3>3. Len(facts) \in Nat /\ Len(facts') = Len(facts) + 1
            BY <2>1, Longer
        <3>4. o.cursor \in Nat
            BY <1>2 DEF IntentBody
        <3>5. new \in Authority!Admission /\ new.cursor = o.cursor
            BY <2>2, <3>2, <3>3, <3>4 DEF Authority!Admission
        <3>6. admitted \in Seq(Authority!Admission)
            BY DEF AuthorityInv
        <3> HIDE DEF new, o
        <3>7. /\ admitted' \in Seq(Authority!Admission) /\ Len(admitted') = Len(admitted) + 1
              /\ admitted'[Len(admitted')] = new
            BY <3>1, <3>5, <3>6
        <3>8. new = [epoch |-> shard.epoch, cursor |-> new.cursor, fact |-> Len(facts) + 1]
            BY <3>2 DEF new
        <3>9. Authority!Admit
            BY <1>2, <2>2, <3>1, <3>2, <3>3, <3>5, <3>7, <3>8 DEF Authority!Admit
        <3>10. \A k \in DOMAIN gateway.published : gateway.published[k] \in Nat
            BY PublishedTyped
        <3>11. \A k \in DOMAIN proposed : proposed[k].cursor \in Nat
            BY ProposedTyped
        <3>12. AuthorityInv'
            BY <1>1, <1>2, <2>2, <3>3, <3>7, <3>10, <3>11 DEF AuthorityInv
        <3> QED BY <3>9, <3>12 DEF Authority!Next
    <2> QED BY <2>3, <2>4
<1> QED BY <1>3, <1>4

\* An intent the gateway accepts answers a fact of the journal.
LEMMA AuthorityReceives ==
    ASSUME TypeOK, AuthorityInv, NEW fresh \in BOOLEAN, ReceiveOutput(fresh)
    PROVE  AuthorityInv' /\ UNCHANGED Authority!vars
<1> DEFINE o == Head2.body
           g == IF AuthorityLost(gateway) THEN Closed(gateway) ELSE gateway
           accepted == fresh /\ Parses(g, o) /\ o.number \notin g.seen
<1>1. UNCHANGED <<facts, shard, admitted>>
    BY DEF ReceiveOutput
<1>2. CASE UNCHANGED <<gateway, proposed>>
    BY <1>1, <1>2, AuthorityStutters
<1>3. CASE /\ gateway' = [g EXCEPT !.seen = IF accepted THEN @ \cup {o.number} ELSE @]
           /\ proposed' = IF accepted THEN Append(proposed, o) ELSE proposed
    <2>1. g \in GatewayRecord /\ g.published = gateway.published
        BY ClosedTyped DEF TypeOK
    <2>2. accepted => o.batch \in DOMAIN g.published /\ o.cursor = g.published[o.batch]
        BY DEF Parses
    <2> HIDE DEF g, o, accepted
    <2>3. gateway'.published = gateway.published
        BY <1>3, <2>1 DEF GatewayRecord
    <2>4. accepted => o.cursor <= Len(facts)
        BY <2>1, <2>2 DEF AuthorityInv
    <2>5. \A k \in DOMAIN proposed' : proposed'[k].cursor <= Len(facts)
        <3>1. proposed \in Seq(IntentBody)
            BY DEF TypeOK
        <3> QED BY <1>3, <2>4, <3>1 DEF AuthorityInv
    <2> QED BY <1>1, <2>3, <2>5 DEF AuthorityInv, Authority!vars
<1> QED BY <1>2, <1>3 DEF ReceiveOutput

\* A batch ends at a fact of the journal.
LEMMA AuthorityFeeds ==
    ASSUME TypeOK, AuthorityInv, NEW last \in Nat, NEW holds \in Content, SendInput(last, holds)
    PROVE  AuthorityInv' /\ UNCHANGED Authority!vars
<1>1. /\ UNCHANGED <<facts, shard, admitted, proposed>> /\ last <= Len(facts)
      /\ gateway' = [gateway EXCEPT !.published = Append(@, last)]
    BY NextFirstTyped DEF SendInput, TypeOK
<1>2. gateway \in GatewayRecord /\ gateway.published \in Seq(Nat)
    BY DEF TypeOK, GatewayRecord
<1>3. gateway'.published = Append(gateway.published, last)
    BY <1>1, <1>2 DEF GatewayRecord
<1>4. \A k \in DOMAIN gateway'.published : gateway'.published[k] <= Len(facts)
    BY <1>1, <1>2, <1>3 DEF AuthorityInv
<1> QED BY <1>1, <1>4 DEF AuthorityInv, Authority!vars

\* A new session closes the authority left open, or changes nothing of it.
LEMMA AuthorityStarts ==
    ASSUME TypeOK, AuthorityInv, NEW mode \in Modes, NEW barrier \in Nat, StartSession(mode, barrier)
    PROVE  AuthorityInv' /\ (Authority!Next \/ UNCHANGED Authority!vars)
<1>1. gateway'.published = <<>> /\ UNCHANGED <<proposed, admitted>>
    <2>1. Closed(gateway) \in GatewayRecord
        BY ClosedTyped DEF TypeOK
    <2> QED BY <2>1 DEF StartSession, GatewayRecord
<1>2. CASE shard.act # 0
    <2>1. Grow(FALSE) /\ shard' = Revoked(shard)
        BY <1>2 DEF StartSession
    <2> QED BY <1>1, <1>2, <2>1, AuthorityCloses DEF Authority!Next
<1>3. CASE shard.act = 0
    <2>1. UNCHANGED <<facts, shard>>
        BY <1>3 DEF StartSession
    <2> QED BY <1>1, <2>1 DEF AuthorityInv, Authority!vars
<1> QED BY <1>2, <1>3

\* The host, the supervisor, the gateway and the shard together keep the authority
\* contract (submitOrderIntent, host_activated, beginSession): every step of theirs
\* is a step of HostAuthority or changes nothing of it.
THEOREM AuthorityImplemented == Spec => ImplementsAuthority
<1>1. Init => AuthorityInv /\ Authority!Init
    BY DEF Init, AuthorityInv, Authority!Init
<1>2. TypeOK /\ AuthorityInv /\ [Next]_vars => AuthorityInv' /\ [Authority!Next]_(Authority!vars)
    <2> SUFFICES ASSUME TypeOK, AuthorityInv, [Next]_vars
                 PROVE  AuthorityInv' /\ (Authority!Next \/ UNCHANGED Authority!vars)
        OBVIOUS
    <2>1. CASE HostStep
        <3>1. UNCHANGED <<facts, shard, admitted, proposed, gateway>>
            BY <2>1 DEF HostStep, zigVars
        <3> QED BY <3>1, AuthorityStutters
    <2>2. CASE \E mode \in Modes, barrier \in 0 .. Len(facts) + 1 : StartSession(mode, barrier)
        <3>1. PICK mode \in Modes, barrier \in 0 .. Len(facts) + 1 : StartSession(mode, barrier)
            BY <2>2
        <3>2. barrier \in Nat
            OBVIOUS
        <3> QED BY <3>1, <3>2, AuthorityStarts
    <2>3. CASE \E last \in 1 .. Len(facts), holds \in Content : SendInput(last, holds)
        <3>1. PICK last \in 1 .. Len(facts), holds \in Content : SendInput(last, holds)
            BY <2>3
        <3>2. last \in Nat
            OBVIOUS
        <3> QED BY <3>1, <3>2, AuthorityFeeds
    <2>4. CASE Commit
        <3>1. PICK wanted \in BOOLEAN : Grow(wanted)
            BY <2>4 DEF Commit
        <3>2. UNCHANGED <<admitted, gateway, shard, proposed>>
            BY <2>4 DEF Commit
        <3>3. shard' = [shard EXCEPT !.known = shard'.known]
            BY <3>2 DEF TypeOK, ShardRecord
        <3> QED BY <3>1, <3>2, <3>3, AuthorityRecords DEF Authority!Next
    <2>5. CASE CommitActivation
        BY <2>5, AuthorityOpens DEF Authority!Next
    <2>6. CASE Admit
        BY <2>6, AuthorityAdmits
    <2>7. CASE Revoke
        <3>1. gateway'.published = gateway.published
            BY <2>7, ClosedTyped DEF Revoke, TypeOK
        <3> QED BY <2>7, <3>1, AuthorityCloses DEF Revoke, Authority!Next
    <2>8. CASE \E fresh \in BOOLEAN : ReceiveOutput(fresh)
        BY <2>8, AuthorityReceives
    <2>9. CASE OpenGateway
        <3>1. gateway'.published = gateway.published
            BY <2>9 DEF OpenGateway, TypeOK, GatewayRecord
        <3> QED BY <2>9, <3>1, AuthorityStutters DEF OpenGateway
    <2>10. CASE (\E cursor, barrier \in 0 .. Len(facts) : BeginRecovery(cursor, barrier))
                \/ SendActivation \/ RequestCheckpoint \/ Shutdown \/ ReceiveControl \/ ReceiveCheckpoint
                \/ MissDeadline \/ NoticeExit \/ Kill \/ UNCHANGED vars
        <3>1. UNCHANGED <<facts, shard, admitted, proposed, gateway>>
            BY <2>10 DEF BeginRecovery, SendActivation, RequestCheckpoint, Shutdown, ReceiveControl,
                         ReceiveCheckpoint, MissDeadline, NoticeExit, Kill, vars
        <3> QED BY <3>1, AuthorityStutters
    <2> QED BY <2>1, <2>2, <2>3, <2>4, <2>5, <2>6, <2>7, <2>8, <2>9, <2>10 DEF Next, ZigStep, Receive
<1> QED BY <1>1, <1>2, TypeCorrect, PTL DEF Spec, ImplementsAuthority, Authority!Spec

-----------------------------------------------------------------------------
(* What a recovered host continues with.                                   *)

\* NumberAfter over a journal that is named: facts or facts'.
Count(j, cursor) == 1 + Cardinality({n \in 1 .. cursor : n \in DOMAIN j /\ j[n]})
AtBarrier(report, j, barrier) == report.cursor = barrier /\ report.next = Count(j, barrier)

\* A frame that carries a state or facts.
Numbered(f, j, barrier) ==
    /\ f.type = "begin_recovery" =>
        f.body.barrier = barrier /\ f.body.cursor <= Len(j) /\ f.body.next = Count(j, f.body.cursor)
    /\ f.type = "input" => f.body.first <= f.body.last /\ f.body.last <= Len(j)

Replaying == {"replay", "activation", "catchup", "live"}
Unasked == {"starting", "ready_for_recovery"}

FramesIn == \A k \in DOMAIN toHost : Numbered(toHost[k], facts, sup.barrier)
FramesOut == \A k \in DOMAIN toZig :
    toZig[k].type = "recovered" => AtBarrier(toZig[k].body, facts, sup.barrier)
HostNumbers ==
    /\ host.pc \in Replaying => host.next = Count(facts, host.cursor) /\ host.cursor <= Len(facts)
    /\ host.pc = "replay" => host.barrier = sup.barrier
    /\ host.pc = "live" => host.barrier <= host.cursor
OutputsNumbered == \A o \in outputs :
    o.event <= Len(facts) /\ o.event > o.barrier /\ o.number = Count(facts, o.event - 1)
Told ==
    /\ sup.barrier <= Len(facts)
    /\ sup.recovered # None => AtBarrier(sup.recovered, facts, sup.barrier)
\* Before recovery is asked for, nothing of it is on its way.
Untold ==
    sup.state \in Unasked =>
        /\ sup.recovered = None /\ host.pc # "replay"
        /\ \A k \in DOMAIN toHost : toHost[k].type # "begin_recovery"
        /\ \A k \in DOMAIN toZig : toZig[k].type # "recovered"

NumberingInv == FramesIn /\ FramesOut /\ HostNumbers /\ OutputsNumbered /\ Told /\ Untold

Prefix(i, j) == Len(i) <= Len(j) /\ \A n \in 1 .. Len(i) : j[n] = i[n]

-----------------------------------------------------------------------------
(* Numbers of a journal that grows.                                        *)

\* The number a strategy continues with is the count over the present journal.
LEMMA CountIs == ASSUME NEW cursor PROVE NumberAfter(cursor) = Count(facts, cursor)
BY DEF NumberAfter, Count, Emits

\* Facts that are appended change no number of an earlier cursor.
LEMMA CountKept ==
    ASSUME NEW i \in Seq(BOOLEAN), NEW j \in Seq(BOOLEAN), Prefix(i, j),
           NEW cursor \in Nat, cursor <= Len(i)
    PROVE  Count(j, cursor) = Count(i, cursor)
<1>1. {n \in 1 .. cursor : n \in DOMAIN j /\ j[n]} = {n \in 1 .. cursor : n \in DOMAIN i /\ i[n]}
    BY DEF Prefix
<1> QED BY <1>1 DEF Count

\* A batch that starts after the cursor moves the number by what it wants.
LEMMA CountAdds ==
    ASSUME facts \in Seq(BOOLEAN), NEW cursor \in Nat, NEW last \in Nat, cursor <= last
    PROVE  Count(facts, last) = Count(facts, cursor) + Cardinality(Emits(cursor + 1, last))
BY NumbersAdd, CountIs, Zenon

\* Between the cursor and the earliest fact that wants an intent there is none.
LEMMA CountToEarliest ==
    ASSUME facts \in Seq(BOOLEAN), NEW cursor \in Nat, NEW last \in Nat,
           Emits(cursor + 1, last) # {}
    PROVE  LET event == Earliest(Emits(cursor + 1, last)) IN
           /\ event \in Nat /\ event > cursor /\ event <= last /\ event <= Len(facts)
           /\ Count(facts, event - 1) = Count(facts, cursor)
<1> DEFINE wanted == Emits(cursor + 1, last)
           event == Earliest(wanted)
<1>1. wanted \subseteq Nat
    BY DEF Emits
<1>2. event \in wanted /\ \A m \in wanted : event <= m
    BY <1>1, EarliestTyped
<1>3. event \in cursor + 1 .. last /\ event \in DOMAIN facts
    BY <1>2 DEF Emits
<1> HIDE DEF event
<1>4. event \in Nat /\ event > cursor /\ event <= last /\ event <= Len(facts)
    BY <1>3
<1>5. Emits(cursor + 1, event - 1) = {}
    <2>1. ASSUME NEW n \in Emits(cursor + 1, event - 1) PROVE FALSE
        <3>1. n \in wanted /\ n \in Nat /\ n < event
            BY <1>4 DEF Emits
        <3>2. event <= n
            BY <1>2, <3>1, Zenon
        <3> QED BY <1>4, <3>1, <3>2
    <2> QED BY <2>1, Zenon
<1>6. Cardinality(Emits(cursor + 1, event - 1)) = 0
    BY <1>5, FS_EmptySet
<1>7. event - 1 \in Nat /\ cursor <= event - 1
    BY <1>4
<1>8. Count(facts, event - 1) = Count(facts, cursor) + 0
    BY <1>6, <1>7, CountAdds, Zenon
<1>9. Count(facts, cursor) \in Nat
    <2>1. cursor \in Int
        OBVIOUS
    <2>2. NumberAfter(cursor) \in Nat \ {0}
        BY <2>1, NumberTyped, Zenon
    <2> QED BY <2>2, CountIs
<1> QED BY <1>4, <1>8, <1>9 DEF event

-----------------------------------------------------------------------------
(* Steps of the Python process.                                            *)

Others == UNCHANGED <<facts, sup>>
\* What the host wrote is no report of a recovered state, or the right one.
Honest(f) ==
    f.type = "recovered" =>
        AtBarrier(f.body, facts, sup.barrier) /\ sup.state \notin Unasked

\* A step that consumes frames and writes honest ones keeps the invariant if the
\* host and its intents are numbered after it.
LEMMA HostStepNumbered ==
    ASSUME NumberingInv, Others,
           \A k \in DOMAIN toHost' : \E l \in DOMAIN toHost : toHost'[k] = toHost[l],
           \A k \in DOMAIN toZig' :
                (\E l \in DOMAIN toZig : toZig'[k] = toZig[l]) \/ Honest(toZig'[k]),
           HostNumbers', OutputsNumbered', host'.pc = "replay" => sup.state \notin Unasked
    PROVE  NumberingInv'
<1>1. FramesIn'
    BY DEF NumberingInv, Others, FramesIn
<1>2. FramesOut'
    BY DEF NumberingInv, Others, FramesOut, Honest
<1>3. Told' /\ Untold'
    BY DEF NumberingInv, Others, Told, Untold, Honest
<1> QED BY <1>1, <1>2, <1>3 DEF NumberingInv

\* What is left of the pipe after a frame is read was there before.
LEMMA ConsumedFrames ==
    ASSUME TypeOK, toHost # <<>>, Consume
    PROVE  /\ \A k \in DOMAIN toHost' : \E l \in DOMAIN toHost : toHost'[k] = toHost[l]
           /\ Head1 \in ZigFrame /\ \E l \in DOMAIN toHost : Head1 = toHost[l]
<1>1. toHost \in Seq(ZigFrame)
    BY DEF TypeOK
<1>2. \A k \in DOMAIN Tail(toHost) : k + 1 \in DOMAIN toHost /\ Tail(toHost)[k] = toHost[k + 1]
    BY <1>1
<1>3. 1 \in DOMAIN toHost /\ Head1 = toHost[1]
    BY <1>1 DEF Head1
<1> QED BY <1>2, <1>3, ConsumedTyped DEF Consume

\* A frame that is written is the last of the pipe.
LEMMA WrittenFrames ==
    ASSUME TypeOK, NEW f, toZig' = Append(toZig, f)
    PROVE  \A k \in DOMAIN toZig' : (\E l \in DOMAIN toZig : toZig'[k] = toZig[l]) \/ toZig'[k] = f
<1>1. toZig \in Seq(HostFrame)
    BY DEF TypeOK
<1> QED BY <1>1

\* Steps after which the host is not replaying and that report nothing.
Aside ==
    /\ host'.pc \notin Replaying /\ UNCHANGED outputs
    /\ UNCHANGED toZig \/ \E f : f.type # "recovered" /\ toZig' = Append(toZig, f)
LEMMA AsideNumbered ==
    ASSUME TypeOK, NumberingInv, Others, Aside,
           \A k \in DOMAIN toHost' : \E l \in DOMAIN toHost : toHost'[k] = toHost[l]
    PROVE  NumberingInv'
<1>1. \A k \in DOMAIN toZig' : (\E l \in DOMAIN toZig : toZig'[k] = toZig[l]) \/ Honest(toZig'[k])
    BY WrittenFrames DEF Aside, Honest
<1>2. HostNumbers' /\ OutputsNumbered' /\ host'.pc # "replay"
    BY DEF Aside, HostNumbers, OutputsNumbered, Replaying, Others, NumberingInv
<1> QED BY <1>1, <1>2, HostStepNumbered

\* A host that dies, with or without a last frame, replays no more.
LEMMA DeathAside ==
    ASSUME TypeOK, Dies \/ RequireRecovery \/
           (Write("shutdown_ack", None) /\ host' = [host EXCEPT !.pc = "dead"] /\ UNCHANGED outputs)
    PROVE  Aside
<1>1. host'.pc \notin Replaying
    BY DEF TypeOK, HostRecord, Dies, RequireRecovery, Replaying
<1> QED BY <1>1 DEF Aside, Dies, RequireRecovery, Write

\* Greeting, answering batches, serving checkpoints and shutting down are aside.
LEMMA AsideSteps ==
    ASSUME TypeOK, ReadPlan \/ SendHeartbeat \/ ReadDirectActivation \/ AnswerTrade
                   \/ AnswerBenchmark \/ Serve \/ ReadShutdown
    PROVE  Aside
<1>1. host \in HostRecord /\ host.mode \in Mode
    BY DEF TypeOK, HostRecord
<1>2. CASE ReadPlan
    BY <1>1, <1>2 DEF ReadPlan, Aside, Hello, HostRecord, Replaying
<1>3. CASE SendHeartbeat
    <2>1. AfterHello(host.mode) \notin Replaying
        BY <1>1 DEF AfterHello, Mode, Replaying
    <2> QED BY <1>1, <1>3, <2>1 DEF SendHeartbeat, Aside, HostRecord
<1>4. CASE ReadDirectActivation
    BY <1>1, <1>4, DeathAside DEF ReadDirectActivation, Aside, HostRecord, Replaying
<1>5. CASE AnswerTrade \/ AnswerBenchmark
    <2>1. CASE RequireRecovery
        BY <2>1, DeathAside
    <2>2. CASE \E type \in {"output", "benchmark"} : AnswerWith(type)
        <3>1. host.pc = "inputs" /\ host'.pc \in {"closing", "inputs"}
            BY <1>1, <1>5, <2>2 DEF AnswerTrade, AnswerBenchmark, AnswerWith, HostRecord
        <3> QED BY <2>2, <3>1 DEF AnswerWith, Write, Aside, Replaying
    <2> QED BY <1>5, <2>1, <2>2 DEF AnswerTrade, AnswerBenchmark
<1>6. CASE Serve
    <2>1. CASE Dies \/ (Write("shutdown_ack", None) /\ host' = [host EXCEPT !.pc = "dead"]
                        /\ UNCHANGED outputs)
        BY <2>1, DeathAside
    <2>2. CASE /\ Write("checkpoint", Checkpoint(Head1.body.id)) /\ UNCHANGED outputs
               /\ host' = [host EXCEPT !.zseq = @ + 1, !.hseq = @ + 1, !.request = Head1.body.id]
        <3>1. host.pc = "serving" /\ host'.pc = "serving"
            BY <1>1, <1>6, <2>2 DEF Serve, HostRecord
        <3> QED BY <2>2, <3>1 DEF Write, Aside, Replaying
    <2> QED BY <1>6, <2>1, <2>2 DEF Serve
<1>7. CASE ReadShutdown
    BY <1>7, DeathAside DEF ReadShutdown
<1> QED BY <1>2, <1>3, <1>4, <1>5, <1>6, <1>7

\* A checkpoint of the owner is the state at its cursor.
LEMMA ReadBeginRecoveryNumbered ==
    ASSUME TypeOK, NumberingInv, Others, ReadBeginRecovery
    PROVE  NumberingInv'
<1>1. /\ \A k \in DOMAIN toHost' : \E l \in DOMAIN toHost : toHost'[k] = toHost[l]
      /\ Head1 \in ZigFrame /\ \E l \in DOMAIN toHost : Head1 = toHost[l]
    BY ConsumedFrames DEF ReadBeginRecovery
<1>2. CASE Dies
    BY <1>1, <1>2, DeathAside, AsideNumbered
<1>3. CASE InOrder("begin_recovery")
    <2>1. Numbered(Head1, facts, sup.barrier) /\ Head1.type = "begin_recovery"
        BY <1>1, <1>3 DEF NumberingInv, FramesIn, InOrder
    <2>2. sup.state \notin Unasked
        BY <1>1, <2>1 DEF NumberingInv, Untold
    <2>3. UNCHANGED <<toZig, outputs>> /\ host' = [Loaded(Head1.body) EXCEPT !.pc = "replay"]
        BY <1>3 DEF ReadBeginRecovery
    <2>4. /\ host'.pc = "replay" /\ host'.cursor = Head1.body.cursor
          /\ host'.next = Head1.body.next /\ host'.barrier = Head1.body.barrier
        BY <2>3 DEF Loaded, TypeOK, HostRecord
    <2>5. HostNumbers' /\ OutputsNumbered'
        BY <2>1, <2>3, <2>4 DEF HostNumbers, Numbered, NumberingInv, OutputsNumbered, Others
    <2> QED BY <1>1, <2>2, <2>3, <2>5, HostStepNumbered
<1> QED BY <1>2, <1>3 DEF ReadBeginRecovery

\* A report of the state of a host that is numbered is honest at the barrier.
LEMMA ReportHonest ==
    ASSUME TypeOK, NumberingInv, Others, NEW h \in HostRecord, NEW pc \in {"activation", "serving"},
           ReportRecovered(h, pc), sup.state \notin Unasked,
           h.cursor = sup.barrier, h.next = Count(facts, h.cursor), h.cursor <= Len(facts),
           \A k \in DOMAIN toHost' : \E l \in DOMAIN toHost : toHost'[k] = toHost[l]
    PROVE  NumberingInv'
<1> DEFINE frame == [type |-> "recovered", gen |-> host.gen, seq |-> host.hseq, body |-> Recovered(h)]
<1>1. toZig' = Append(toZig, frame)
    BY DEF ReportRecovered, Write
<1>2. Honest(frame)
    BY DEF Honest, AtBarrier, Recovered
<1> HIDE DEF frame
<1>3. \A k \in DOMAIN toZig' : (\E l \in DOMAIN toZig : toZig'[k] = toZig[l]) \/ Honest(toZig'[k])
    BY <1>1, <1>2, WrittenFrames
<1>4. host'.pc = pc /\ host'.cursor = h.cursor /\ host'.next = h.next /\ UNCHANGED outputs
    BY DEF ReportRecovered, HostRecord
<1>5. HostNumbers' /\ OutputsNumbered' /\ host'.pc # "replay"
    BY <1>4 DEF HostNumbers, NumberingInv, OutputsNumbered, Others
<1> QED BY <1>3, <1>5, HostStepNumbered

\* The portable host takes a checkpoint only at the barrier.
LEMMA ReadPortableRecoveryNumbered ==
    ASSUME TypeOK, NumberingInv, Others, ReadPortableRecovery
    PROVE  NumberingInv'
<1>1. /\ \A k \in DOMAIN toHost' : \E l \in DOMAIN toHost : toHost'[k] = toHost[l]
      /\ Head1 \in ZigFrame /\ \E l \in DOMAIN toHost : Head1 = toHost[l]
    BY ConsumedFrames DEF ReadPortableRecovery
<1>2. CASE Dies
    BY <1>1, <1>2, DeathAside, AsideNumbered
<1>3. CASE InOrder("begin_recovery") /\ Head1.body.barrier = Head1.body.cursor
    <2>1. Numbered(Head1, facts, sup.barrier) /\ Head1.type = "begin_recovery"
        BY <1>1, <1>3 DEF NumberingInv, FramesIn, InOrder
    <2>2. sup.state \notin Unasked
        BY <1>1, <2>1 DEF NumberingInv, Untold
    <2> DEFINE loaded == Loaded(Head1.body)
    <2>3. /\ loaded \in HostRecord
          /\ loaded.cursor = Head1.body.cursor /\ loaded.next = Head1.body.next
        <3>1. Head1.body \in RecoveryBody
            BY <1>1, <2>1, ZigFrameRead
        <3> QED BY <3>1, LoadedTyped DEF Loaded, TypeOK, HostRecord
    <2>4. ReportRecovered(loaded, "serving")
        BY <1>3 DEF ReadPortableRecovery
    <2> HIDE DEF loaded
    <2>5. /\ loaded.cursor = sup.barrier /\ loaded.next = Count(facts, loaded.cursor)
          /\ loaded.cursor <= Len(facts)
        BY <1>3, <2>1, <2>3 DEF Numbered
    <2> QED BY <1>1, <2>2, <2>3, <2>4, <2>5, ReportHonest
<1> QED BY <1>2, <1>3 DEF ReadPortableRecovery

\* Recovery is reported at exactly the barrier.
LEMMA FinishReplayNumbered ==
    ASSUME TypeOK, NumberingInv, Others, FinishReplay
    PROVE  NumberingInv'
<1>1. /\ \A k \in DOMAIN toHost' : \E l \in DOMAIN toHost : toHost'[k] = toHost[l]
      /\ host.pc = "replay" /\ host \in HostRecord
    BY DEF FinishReplay, ReplayDone, TypeOK
<1>2. CASE Dies
    BY <1>1, <1>2, DeathAside, AsideNumbered
<1>3. CASE host.cursor = host.barrier /\ ReportRecovered(host, "activation")
    <2>1. /\ host.cursor = sup.barrier /\ host.next = Count(facts, host.cursor)
          /\ host.cursor <= Len(facts) /\ sup.state \notin Unasked
        BY <1>1, <1>3 DEF NumberingInv, HostNumbers, Replaying, Untold
    <2> QED BY <1>1, <1>3, <2>1, ReportHonest
<1> QED BY <1>2, <1>3 DEF FinishReplay

\* A batch that continues at the cursor leaves a state that is numbered.
LEMMA BatchNumbered ==
    ASSUME TypeOK, NumberingInv, host.pc \in Replaying, NEW b \in InputBody,
           b.first = host.cursor + 1, b.first <= b.last, b.last <= Len(facts)
    PROVE  LET moved == ApplyReplay(host, b) IN
           /\ moved.cursor = b.last /\ moved.next = Count(facts, b.last)
           /\ moved.barrier = host.barrier /\ moved.pc = host.pc
           /\ moved \in HostRecord
<1>1. /\ host \in HostRecord /\ host.cursor \in Nat /\ b.last \in Nat /\ host.cursor <= b.last
      /\ facts \in Seq(BOOLEAN)
    BY DEF TypeOK, HostRecord, InputBody
<1> DEFINE c == Cardinality(Emits(host.cursor + 1, b.last))
<1>2. Count(facts, b.last) = Count(facts, host.cursor) + c
    BY <1>1, CountAdds
<1>3. host.next = Count(facts, host.cursor)
    BY DEF NumberingInv, HostNumbers
<1>4. ApplyReplay(host, b) = [host EXCEPT !.zseq = @ + 1, !.cursor = b.last, !.next = @ + c]
    BY DEF ApplyReplay
<1> HIDE DEF c
<1>5. ApplyReplay(host, b).next = host.next + c
    BY <1>1, <1>4 DEF HostRecord
<1> QED BY <1>1, <1>2, <1>3, <1>4, <1>5, ApplyReplayTyped DEF HostRecord

\* The recovery loop and the catch-up loop apply whole batches silently.
LEMMA ReplayNumbered ==
    ASSUME TypeOK, NumberingInv, Others, Replay \/ CatchUp
    PROVE  NumberingInv'
<1>1. /\ \A k \in DOMAIN toHost' : \E l \in DOMAIN toHost : toHost'[k] = toHost[l]
      /\ Head1 \in ZigFrame /\ \E l \in DOMAIN toHost : Head1 = toHost[l]
    BY ConsumedFrames DEF Replay, CatchUp
<1>2. host \in HostRecord /\ host.pc \in {"replay", "catchup"}
    BY DEF TypeOK, Replay, CatchUp
<1>3. PICK done \in {"replay", "live"} :
        ReplaySilently(host.barrier, done) /\ (host.pc = "replay" <=> done = "replay")
    BY DEF Replay, CatchUp
<1>4. CASE Dies \/ RequireRecovery
    BY <1>1, <1>4, DeathAside, AsideNumbered
<1>5. CASE Readable /\ Applies
    <2> DEFINE b == Head1.body
               moved == ApplyReplay(host, b)
    <2>1. b \in InputBody /\ b.first <= b.last /\ b.last <= Len(facts)
        <3>1. Head1.type = "input"
            BY <1>5 DEF Readable, InOrder
        <3> QED BY <1>1, <3>1, ZigFrameRead DEF NumberingInv, FramesIn, Numbered
    <2>2. /\ moved.cursor = b.last /\ moved.next = Count(facts, b.last) /\ moved \in HostRecord
          /\ moved.barrier = host.barrier /\ moved.pc = host.pc
        BY <1>2, <1>5, <2>1, BatchNumbered DEF Replaying, Applies
    <2>3. /\ host' = [moved EXCEPT !.pc = IF moved.cursor >= host.barrier THEN done ELSE @]
          /\ UNCHANGED <<toZig, outputs>>
        BY <1>3, <1>5 DEF ReplaySilently
    <2> HIDE DEF moved
    <2>4. /\ host'.cursor = b.last /\ host'.next = Count(facts, b.last) /\ host'.barrier = host.barrier
          /\ host'.pc = IF b.last >= host.barrier THEN done ELSE host.pc
        BY <2>2, <2>3 DEF HostRecord
    <2>5. host'.pc = "replay" => host.pc = "replay"
        BY <1>2, <1>3, <2>4
    <2>6. host'.pc = "live" => host'.barrier <= host'.cursor
        BY <1>2, <1>3, <2>1, <2>4 DEF HostRecord, InputBody
    <2>7. HostNumbers' /\ OutputsNumbered'
        BY <2>1, <2>3, <2>4, <2>5, <2>6 DEF NumberingInv, HostNumbers, OutputsNumbered, Others
    <2>8. host'.pc = "replay" => sup.state \notin Unasked
        BY <2>5 DEF NumberingInv, Untold
    <2> QED BY <1>1, <2>3, <2>7, <2>8, HostStepNumbered
<1> QED BY <1>3, <1>4, <1>5 DEF ReplaySilently

\* Activation moves the barrier: the host is live only once it is past it.
LEMMA ReadActivationNumbered ==
    ASSUME TypeOK, NumberingInv, Others, ReadActivation
    PROVE  NumberingInv'
<1>1. /\ \A k \in DOMAIN toHost' : \E l \in DOMAIN toHost : toHost'[k] = toHost[l]
      /\ Head1 \in ZigFrame
    BY ConsumedFrames DEF ReadActivation
<1>2. CASE Dies
    BY <1>1, <1>2, DeathAside, AsideNumbered
<1>3. CASE ~Dies
    <2> DEFINE a == Head1.body
    <2>1. /\ InOrder("activate") /\ a.barrier >= host.cursor /\ UNCHANGED <<toZig, outputs>>
          /\ host.pc = "activation" /\ host \in HostRecord
          /\ host' = [host EXCEPT !.zseq = @ + 1, !.barrier = a.barrier,
                                  !.pc = IF host.cursor >= a.barrier THEN "live" ELSE "catchup"]
        BY <1>3 DEF ReadActivation, TypeOK
    <2>2. a.barrier \in Nat
        BY <1>1, <2>1, ZigFrameRead DEF InOrder, ActivationBody
    <2>3. /\ host'.cursor = host.cursor /\ host'.next = host.next /\ host'.barrier = a.barrier
          /\ host'.pc = (IF host.cursor >= a.barrier THEN "live" ELSE "catchup")
        BY <2>1 DEF HostRecord
    <2>4. HostNumbers' /\ OutputsNumbered' /\ host'.pc # "replay"
        BY <2>1, <2>2, <2>3
        DEF NumberingInv, HostNumbers, OutputsNumbered, Others, Replaying, HostRecord
    <2> QED BY <1>1, <2>1, <2>4, HostStepNumbered
<1> QED BY <1>2, <1>3

\* The pipe after the live loop has written about a batch: what was there, the
\* report of a faulty strategy and at most one frame more.
LEMMA LiveWritten ==
    ASSUME TypeOK, NEW f \in HostFrame, f.type # "recovered",
           toZig' = toZig \o Faulted \/ toZig' = toZig \o Faulted \o <<f>>
    PROVE  \A k \in DOMAIN toZig' : (\E l \in DOMAIN toZig : toZig'[k] = toZig[l]) \/ Honest(toZig'[k])
<1>1. /\ toZig \in Seq(HostFrame) /\ Faulted \in Seq(HostFrame)
      /\ \A k \in DOMAIN Faulted : Faulted[k].type = "faulted"
    BY LiveFrames DEF TypeOK
<1> DEFINE short == toZig \o Faulted
           long == toZig \o Faulted \o <<f>>
<1>5. /\ short \in Seq(HostFrame) /\ long \in Seq(HostFrame)
      /\ \A k \in DOMAIN short : short[k] = IF k <= Len(toZig) THEN toZig[k] ELSE Faulted[k - Len(toZig)]
      /\ \A k \in DOMAIN long :
            long[k] = IF k <= Len(toZig) THEN toZig[k]
                      ELSE IF k <= Len(toZig) + Len(Faulted) THEN Faulted[k - Len(toZig)] ELSE f
      /\ Len(short) = Len(toZig) + Len(Faulted)
    BY <1>1, Written
<1>6. toZig' = short \/ toZig' = long
    OBVIOUS
<1> HIDE DEF short, long
<1>7. \A k \in DOMAIN toZig' : k \in DOMAIN toZig => toZig'[k] = toZig[k]
    <2> SUFFICES ASSUME NEW k \in DOMAIN toZig', k \in DOMAIN toZig PROVE toZig'[k] = toZig[k]
        OBVIOUS
    <2>1. k <= Len(toZig)
        BY <1>1
    <2> QED BY <1>5, <1>6, <2>1
<1> SUFFICES ASSUME NEW k \in DOMAIN toZig', k \notin DOMAIN toZig
             PROVE  toZig'[k].type # "recovered"
    BY <1>7 DEF Honest
<1>3. k \in Nat /\ k > Len(toZig) /\ (k <= Len(toZig) + Len(Faulted) => k - Len(toZig) \in DOMAIN Faulted)
    <2>1. toZig' \in Seq(HostFrame) /\ Len(toZig) \in Nat /\ Len(Faulted) \in Nat
        BY <1>1, <1>5, <1>6
    <2>2. k \in 1 .. Len(toZig') /\ k \notin 1 .. Len(toZig) /\ DOMAIN Faulted = 1 .. Len(Faulted)
        BY <1>1, <2>1
    <2> QED BY <2>1, <2>2
<1>4. Len(toZig) \in Nat /\ Len(Faulted) \in Nat
    BY <1>1
<1>2. toZig'[k] = f \/ \E l \in DOMAIN Faulted : toZig'[k] = Faulted[l]
    <2>1. CASE toZig' = short
        <3>1. toZig'[k] = Faulted[k - Len(toZig)]
            BY <1>3, <1>4, <1>5, <2>1
        <3>2. k <= Len(toZig) + Len(Faulted)
            BY <1>5, <2>1
        <3> QED BY <1>3, <3>1, <3>2
    <2>2. CASE toZig' = long
        <3>1. toZig'[k] = IF k <= Len(toZig) + Len(Faulted) THEN Faulted[k - Len(toZig)] ELSE f
            BY <1>3, <1>4, <1>5, <2>2
        <3> QED BY <1>3, <3>1
    <2> QED BY <1>6, <2>1, <2>2
<1> QED BY <1>1, <1>2

\* A host that refuses a batch in the live loop replays no more.
LEMMA RefuseLiveNumbered ==
    ASSUME TypeOK, NumberingInv, Others, RefuseLive(Counted),
           \A k \in DOMAIN toHost' : \E l \in DOMAIN toHost : toHost'[k] = toHost[l]
    PROVE  NumberingInv'
<1>1. PICK f \in HostFrame :
        f.type = "recovery_required" /\ Frame("recovery_required", Counted, None) = <<f>>
    BY LiveFrames, LastFrame
<1>2. toZig' = toZig \o Faulted \/ toZig' = toZig \o Faulted \o <<f>>
    BY <1>1 DEF RefuseLive
<1>3. \A k \in DOMAIN toZig' : (\E l \in DOMAIN toZig : toZig'[k] = toZig[l]) \/ Honest(toZig'[k])
    BY <1>1, <1>2, LiveWritten
<1>4. host'.pc = "dead" /\ UNCHANGED outputs
    BY DEF RefuseLive, TypeOK, HostRecord
<1>5. HostNumbers' /\ OutputsNumbered' /\ host'.pc # "replay"
    BY <1>4 DEF HostNumbers, OutputsNumbered, Replaying, Others, NumberingInv
<1> QED BY <1>3, <1>5, HostStepNumbered

\* The first intent of a live host carries the number of the fact it is for.
LEMMA LiveNumbered ==
    ASSUME TypeOK, NumberingInv, Others, Live
    PROVE  NumberingInv'
<1>1. /\ \A k \in DOMAIN toHost' : \E l \in DOMAIN toHost : toHost'[k] = toHost[l]
      /\ Head1 \in ZigFrame /\ \E l \in DOMAIN toHost : Head1 = toHost[l]
    BY ConsumedFrames DEF Live
<1>2. /\ host \in HostRecord /\ host.pc = "live" /\ facts \in Seq(BOOLEAN) /\ host.cursor \in Nat
      /\ host.barrier \in Nat
    BY DEF TypeOK, Live, HostRecord
<1>3. CASE ~InOrder("input")
    <2>1. RequireRecovery
        BY <1>3 DEF Live
    <2> QED BY <1>1, <2>1, DeathAside, AsideNumbered
<1>4. CASE RefuseLive(Counted)
    BY <1>1, <1>4, RefuseLiveNumbered
<1>5. CASE AnswerLive(Counted) /\ InOrder("input") /\ Applies
    <2> DEFINE b == Head1.body
               wanted == Emits(b.first, b.last)
               moved == ApplyReplay(host, b)
               o == Intent(host.next, b)
    <2>1. b \in InputBody /\ b.first <= b.last /\ b.last <= Len(facts)
        <3>1. Head1.type = "input"
            BY <1>5 DEF InOrder
        <3> QED BY <1>1, <3>1, ZigFrameRead DEF NumberingInv, FramesIn, Numbered
    <2>2. /\ moved.cursor = b.last /\ moved.next = Count(facts, b.last) /\ moved \in HostRecord
          /\ moved.barrier = host.barrier /\ moved.pc = "live"
        BY <1>2, <1>5, <2>1, BatchNumbered DEF Replaying, Applies
    <2>3. host.barrier <= host.cursor /\ host.next = Count(facts, host.cursor)
        BY <1>2 DEF NumberingInv, HostNumbers, Replaying
    <2>4. o \in IntentBody
        BY <2>1 DEF Intent, IntentBody, InputBody, TypeOK, HostRecord
    <2>5. PICK f \in HostFrame : f.type = "output" /\ Frame("output", Counted, o) = <<f>>
        BY <2>4, LiveFrames, LastFrame
    <2> HIDE DEF moved
    <2>6. CASE wanted = {}
        <3>1. toZig' = toZig \o Faulted /\ host' = [moved EXCEPT !.hseq = Counted] /\ UNCHANGED outputs
            BY <1>5, <2>6 DEF AnswerLive, moved
        <3>2. /\ host'.pc = "live" /\ host'.cursor = b.last /\ host'.next = Count(facts, b.last)
              /\ host'.barrier = host.barrier
            BY <2>2, <3>1 DEF HostRecord
        <3>3. \A k \in DOMAIN toZig' : (\E l \in DOMAIN toZig : toZig'[k] = toZig[l]) \/ Honest(toZig'[k])
            BY <2>5, <3>1, LiveWritten
        <3>4. HostNumbers' /\ OutputsNumbered' /\ host'.pc # "replay"
            BY <1>2, <1>5, <2>1, <2>3, <3>1, <3>2
            DEF NumberingInv, HostNumbers, OutputsNumbered, Others, InputBody, Applies
        <3> QED BY <1>1, <3>3, <3>4, HostStepNumbered
    <2>7. CASE wanted # {}
        <3> DEFINE event == Earliest(wanted)
        <3>1. /\ toZig' = toZig \o Faulted \o <<f>>
              /\ host' = [moved EXCEPT !.hseq = Counted + 1, !.pc = "closing"]
              /\ outputs' = outputs \cup {Published(o, event)}
            BY <1>5, <2>5, <2>7 DEF AnswerLive, moved
        <3>2. host'.pc = "closing"
            BY <2>2, <3>1 DEF HostRecord
        <3>3. \A k \in DOMAIN toZig' : (\E l \in DOMAIN toZig : toZig'[k] = toZig[l]) \/ Honest(toZig'[k])
            BY <2>5, <3>1, LiveWritten
        <3>4. /\ event \in Nat /\ event > host.cursor /\ event <= Len(facts)
              /\ Count(facts, event - 1) = Count(facts, host.cursor)
            <4>1. b.last \in Nat /\ b.first = host.cursor + 1
                BY <1>5, <2>1 DEF InputBody, Applies
            <4> QED BY <1>2, <2>7, <4>1, CountToEarliest
        <3> HIDE DEF event
        <3>5. OutputsNumbered'
            <4>1. /\ Published(o, event).event = event /\ Published(o, event).barrier = host.barrier
                  /\ Published(o, event).number = host.next
                BY DEF Published, Intent
            <4> QED BY <1>2, <2>3, <3>1, <3>4, <4>1 DEF NumberingInv, OutputsNumbered, Others
        <3>6. HostNumbers'
            BY <3>2 DEF HostNumbers, Replaying
        <3> QED BY <1>1, <3>2, <3>3, <3>5, <3>6, HostStepNumbered
    <2> QED BY <2>6, <2>7
<1> QED BY <1>3, <1>4, <1>5 DEF Live, LiveInput

\* No step of the Python process breaks the numbering.
LEMMA HostNumbered == ASSUME TypeOK, NumberingInv, HostStep PROVE NumberingInv'
<1>1. Others
    BY DEF HostStep, Others, zigVars
<1>2. CASE ReadPlan \/ SendHeartbeat \/ ReadDirectActivation \/ AnswerTrade \/ AnswerBenchmark
           \/ Serve \/ ReadShutdown
    <2>1. \A k \in DOMAIN toHost' : \E l \in DOMAIN toHost : toHost'[k] = toHost[l]
        BY <1>2, ConsumedFrames DEF ReadPlan, SendHeartbeat, ReadDirectActivation, AnswerTrade,
            AnswerBenchmark, Serve, ReadShutdown
    <2> QED BY <1>1, <1>2, <2>1, AsideSteps, AsideNumbered
<1> QED BY <1>1, <1>2, ReadBeginRecoveryNumbered, ReadPortableRecoveryNumbered,
           FinishReplayNumbered, ReplayNumbered, ReadActivationNumbered, LiveNumbered
        DEF HostStep

-----------------------------------------------------------------------------
(* Steps of the owner.                                                     *)

\* The journal is only appended to.
LEMMA JournalGrows ==
    ASSUME TypeOK, UNCHANGED facts \/ \E wanted \in BOOLEAN : Grow(wanted)
    PROVE  facts \in Seq(BOOLEAN) /\ facts' \in Seq(BOOLEAN) /\ Prefix(facts, facts')
<1>1. facts \in Seq(BOOLEAN)
    BY DEF TypeOK
<1>2. CASE UNCHANGED facts
    BY <1>1, <1>2 DEF Prefix
<1>3. CASE \E wanted \in BOOLEAN : Grow(wanted)
    BY <1>1, <1>3, GrowTyped DEF Prefix
<1> QED BY <1>2, <1>3

\* What was numbered stays numbered when the journal grows.
LEMMA NumbersStay ==
    ASSUME TypeOK, NumberingInv, facts' \in Seq(BOOLEAN), Prefix(facts, facts')
    PROVE  /\ Count(facts', sup.barrier) = Count(facts, sup.barrier) /\ sup.barrier <= Len(facts')
           /\ \A k \in DOMAIN toHost : Numbered(toHost[k], facts', sup.barrier)
           /\ \A k \in DOMAIN toZig : toZig[k].type = "recovered" =>
                AtBarrier(toZig[k].body, facts', sup.barrier)
           /\ host.pc \in Replaying =>
                host.next = Count(facts', host.cursor) /\ host.cursor <= Len(facts')
           /\ \A o \in outputs : o.event <= Len(facts') /\ o.number = Count(facts', o.event - 1)
<1>1. facts \in Seq(BOOLEAN) /\ Len(facts) <= Len(facts')
    BY DEF TypeOK, Prefix
<1>2. Count(facts', sup.barrier) = Count(facts, sup.barrier) /\ sup.barrier <= Len(facts')
    BY <1>1, CountKept DEF TypeOK, SupRecord, NumberingInv, Told
<1>3. ASSUME NEW k \in DOMAIN toHost PROVE Numbered(toHost[k], facts', sup.barrier)
    <2>1. toHost[k] \in ZigFrame /\ Numbered(toHost[k], facts, sup.barrier)
        BY DEF TypeOK, NumberingInv, FramesIn
    <2>2. CASE toHost[k].type = "begin_recovery"
        <3>1. toHost[k].body.cursor \in Nat
            BY <2>1, <2>2, ZigFrameRead DEF RecoveryBody
        <3>2. toHost[k].body.cursor <= Len(facts)
            BY <2>1, <2>2 DEF Numbered
        <3>3. Count(facts', toHost[k].body.cursor) = Count(facts, toHost[k].body.cursor)
            BY <1>1, <3>1, <3>2, CountKept
        <3> QED BY <1>1, <2>1, <2>2, <3>1, <3>3 DEF Numbered
    <2>3. CASE toHost[k].type = "input"
        <3>1. toHost[k].body.last \in Nat
            BY <2>1, <2>3, ZigFrameRead DEF InputBody
        <3> QED BY <1>1, <2>1, <2>3, <3>1 DEF Numbered
    <2> QED BY <2>2, <2>3 DEF Numbered
<1>4. \A k \in DOMAIN toZig : toZig[k].type = "recovered" =>
        AtBarrier(toZig[k].body, facts', sup.barrier)
    BY <1>2 DEF NumberingInv, FramesOut, AtBarrier
<1>5. host.pc \in Replaying =>
        host.next = Count(facts', host.cursor) /\ host.cursor <= Len(facts')
    BY <1>1, CountKept DEF TypeOK, HostRecord, NumberingInv, HostNumbers
<1>6. ASSUME NEW o \in outputs
      PROVE  o.event <= Len(facts') /\ o.number = Count(facts', o.event - 1)
    <2>1. o.event \in Nat /\ o.barrier \in Nat
        BY DEF TypeOK, Outputs
    <2>2. o.event <= Len(facts) /\ o.event > o.barrier /\ o.number = Count(facts, o.event - 1)
        BY DEF NumberingInv, OutputsNumbered
    <2>3. o.event - 1 \in Nat /\ o.event - 1 <= Len(facts)
        BY <1>1, <2>1, <2>2
    <2> QED BY <1>1, <2>1, <2>2, <2>3, CountKept
<1> QED BY <1>2, <1>3, <1>4, <1>5, <1>6

\* Frames the owner sends, other than a checkpoint.
Fresh(f) == f.type # "begin_recovery" /\ Numbered(f, facts', sup.barrier)

\* A step of the owner that starts no recovery keeps the invariant.
LEMMA OwnerNumbered ==
    ASSUME TypeOK, NumberingInv, UNCHANGED outputs,
           UNCHANGED facts \/ \E wanted \in BOOLEAN : Grow(wanted),
           UNCHANGED host \/ host'.pc = "dead",
           sup'.barrier = sup.barrier,
           \/ sup'.recovered = sup.recovered
           \/ AtBarrier(sup'.recovered, facts, sup.barrier) /\ sup'.state \notin Unasked,
           sup'.state \in Unasked => sup.state \in Unasked,
           \A k \in DOMAIN toHost' : (\E l \in DOMAIN toHost : toHost'[k] = toHost[l]) \/ Fresh(toHost'[k]),
           \A k \in DOMAIN toZig' : \E l \in DOMAIN toZig : toZig'[k] = toZig[l]
    PROVE  NumberingInv'
<1>1. facts' \in Seq(BOOLEAN) /\ Prefix(facts, facts')
    BY JournalGrows
<1>2. FramesIn' /\ FramesOut'
    BY <1>1, NumbersStay DEF FramesIn, FramesOut, Fresh
<1>3. HostNumbers'
    BY <1>1, NumbersStay DEF NumberingInv, HostNumbers, Replaying
<1>4. OutputsNumbered'
    BY <1>1, NumbersStay DEF NumberingInv, OutputsNumbered
<1>5. Told'
    BY <1>1, NumbersStay DEF NumberingInv, Told, AtBarrier
<1>6. Untold'
    BY DEF NumberingInv, Untold, Fresh
<1> QED BY <1>2, <1>3, <1>4, <1>5, <1>6 DEF NumberingInv

\* A frame that is sent is the last of the pipe.
LEMMA SentFrames ==
    ASSUME TypeOK, NEW type, NEW body, Send(type, body)
    PROVE  LET f == [type |-> type, gen |-> sup.gen, seq |-> sup.next_zig, body |-> body] IN
           \A k \in DOMAIN toHost' : (\E l \in DOMAIN toHost : toHost'[k] = toHost[l]) \/ toHost'[k] = f
<1> DEFINE f == [type |-> type, gen |-> sup.gen, seq |-> sup.next_zig, body |-> body]
<1>1. toHost \in Seq(ZigFrame) /\ toHost' = Append(toHost, f)
    BY DEF TypeOK, Send
<1> HIDE DEF f
<1>2. \A k \in DOMAIN toHost' : (\E l \in DOMAIN toHost : toHost'[k] = toHost[l]) \/ toHost'[k] = f
    BY <1>1
<1> QED BY <1>2 DEF f

\* Frames that carry neither a checkpoint nor facts number nothing.
LEMMA PlainSent ==
    ASSUME TypeOK, NEW body, NEW type \in {"activate", "request_checkpoint", "shutdown"},
           Send(type, body)
    PROVE  \A k \in DOMAIN toHost' :
                (\E l \in DOMAIN toHost : toHost'[k] = toHost[l]) \/ Fresh(toHost'[k])
BY SentFrames DEF Fresh, Numbered

\* Reading a frame leaves the frames behind it.
LEMMA HeardFrames ==
    ASSUME TypeOK, Heard, toZig' = Tail(toZig)
    PROVE  /\ \A k \in DOMAIN toZig' : \E l \in DOMAIN toZig : toZig'[k] = toZig[l]
           /\ Head2 \in HostFrame /\ \E l \in DOMAIN toZig : Head2 = toZig[l]
<1>1. toZig \in Seq(HostFrame) /\ toZig # <<>>
    BY DEF TypeOK, Heard
<1>2. \A k \in DOMAIN Tail(toZig) : k + 1 \in DOMAIN toZig /\ Tail(toZig)[k] = toZig[k + 1]
    BY <1>1
<1>3. 1 \in DOMAIN toZig /\ Head2 = toZig[1]
    BY <1>1 DEF Head2
<1> QED BY <1>1, <1>2, <1>3

\* A new session starts with empty pipes and nothing recovered.
LEMMA StartSessionNumbered ==
    ASSUME TypeOK, NumberingInv, NEW mode, NEW barrier, StartSession(mode, barrier)
    PROVE  NumberingInv'
<1>1. facts' \in Seq(BOOLEAN) /\ Prefix(facts, facts')
    BY JournalGrows DEF StartSession
<1>2. /\ toHost' = <<[type |-> "session_plan", gen |-> sup.gen + 1, seq |-> 1, body |-> None]>>
      /\ toZig' = <<>> /\ UNCHANGED outputs
    BY DEF StartSession
<1>3. sup'.state = "starting" /\ sup'.recovered = None /\ sup'.barrier = 0
    BY DEF StartSession
<1>4. host'.pc = "plan"
    BY DEF StartSession, Process
<1>5. \A k \in DOMAIN toHost' : toHost'[k].type = "session_plan"
    BY <1>2
<1>6. FramesIn' /\ FramesOut' /\ HostNumbers'
    BY <1>2, <1>4, <1>5 DEF FramesIn, FramesOut, HostNumbers, Numbered, Replaying
<1>7. OutputsNumbered'
    BY <1>1, <1>2, NumbersStay DEF NumberingInv, OutputsNumbered
<1>8. Told' /\ Untold'
    BY <1>1, <1>2, <1>3, <1>4, <1>5 DEF Told, Untold
<1> QED BY <1>6, <1>7, <1>8 DEF NumberingInv

\* The owner asks for one recovery in a session, from a state of the strategy.
LEMMA BeginRecoveryNumbered ==
    ASSUME TypeOK, NumberingInv, NEW cursor \in 0 .. Len(facts), NEW barrier \in 0 .. Len(facts),
           BeginRecovery(cursor, barrier)
    PROVE  NumberingInv'
<1> DEFINE body == [barrier |-> barrier, cursor |-> cursor, next |-> NumberAfter(cursor)]
           f == [type |-> "begin_recovery", gen |-> sup.gen, seq |-> sup.next_zig, body |-> body]
<1>1. /\ sup.state = "ready_for_recovery" /\ UNCHANGED <<facts, host, toZig, outputs>>
      /\ Send("begin_recovery", body)
    BY DEF BeginRecovery
<1>2. sup'.state = "recovering" /\ sup'.barrier = barrier /\ sup'.recovered = sup.recovered
    BY DEF BeginRecovery, TypeOK, SupRecord
<1>3. /\ sup.recovered = None /\ host.pc # "replay"
      /\ \A k \in DOMAIN toHost : toHost[k].type # "begin_recovery"
      /\ \A k \in DOMAIN toZig : toZig[k].type # "recovered"
    BY <1>1 DEF NumberingInv, Untold, Unasked
<1>4. Numbered(f, facts, barrier)
    BY CountIs DEF Numbered
<1>5. \A k \in DOMAIN toHost' : (\E l \in DOMAIN toHost : toHost'[k] = toHost[l]) \/ toHost'[k] = f
    BY <1>1, SentFrames
<1> HIDE DEF f
<1>6. FramesIn'
    BY <1>1, <1>2, <1>3, <1>4, <1>5 DEF NumberingInv, FramesIn, Numbered
<1>7. FramesOut' /\ HostNumbers' /\ OutputsNumbered'
    BY <1>1, <1>3 DEF NumberingInv, FramesOut, HostNumbers, OutputsNumbered
<1>8. Told' /\ Untold'
    BY <1>1, <1>2, <1>3 DEF Told, Untold, Unasked
<1> QED BY <1>6, <1>7, <1>8 DEF NumberingInv

\* A batch covers facts of the journal.
LEMMA SendInputNumbered ==
    ASSUME TypeOK, NumberingInv, NEW last \in Nat, NEW holds \in Content, SendInput(last, holds)
    PROVE  NumberingInv'
<1> DEFINE body == [batch |-> Len(gateway.published) + 1, first |-> NextFirst, last |-> last,
                    holds |-> holds]
           f == [type |-> "input", gen |-> sup.gen, seq |-> sup.next_zig, body |-> body]
<1>1. NextFirst \in Nat
    BY NextFirstTyped DEF TypeOK
<1>2. /\ NextFirst <= last /\ last <= Len(facts) /\ Send("input", body)
      /\ UNCHANGED <<facts, host, toZig, outputs>>
    BY <1>1 DEF SendInput
<1>3. Fresh(f)
    BY <1>2 DEF Fresh, Numbered
<1>4. \A k \in DOMAIN toHost' : (\E l \in DOMAIN toHost : toHost'[k] = toHost[l]) \/ toHost'[k] = f
    BY <1>2, SentFrames
<1> HIDE DEF f, body
<1>5. /\ sup'.barrier = sup.barrier /\ sup'.recovered = sup.recovered /\ sup'.state = sup.state
    BY DEF SendInput, TypeOK, SupRecord
<1>6. \A k \in DOMAIN toHost' : (\E l \in DOMAIN toHost : toHost'[k] = toHost[l]) \/ Fresh(toHost'[k])
    BY <1>3, <1>4
<1> QED BY <1>2, <1>5, <1>6, OwnerNumbered

\* The supervisor is told the state at exactly the barrier.
LEMMA ReceiveNumbered ==
    ASSUME TypeOK, NumberingInv, Receive
    PROVE  NumberingInv'
<1>1. /\ UNCHANGED <<facts, host, toHost, outputs>> /\ Heard /\ toZig' = Tail(toZig)
    BY DEF Receive, ReceiveControl, ReceiveOutput, ReceiveCheckpoint
<1>2. /\ \A k \in DOMAIN toZig' : \E l \in DOMAIN toZig : toZig'[k] = toZig[l]
      /\ Head2 \in HostFrame /\ \E l \in DOMAIN toZig : Head2 = toZig[l]
    BY <1>1, HeardFrames
<1>3. sup \in SupRecord
    BY DEF TypeOK
<1>4. sup'.barrier = sup.barrier
    BY <1>3 DEF SupRecord, Receive, ReceiveControl, ReceiveOutput, ReceiveCheckpoint, Failed
<1>5. \/ sup'.recovered = sup.recovered
      \/ AtBarrier(sup'.recovered, facts, sup.barrier) /\ sup'.state \notin Unasked
    <2>1. CASE sup' # Failed /\ ReceiveControl /\ Head2.type = "recovered"
        <3>1. sup'.recovered = Head2.body /\ sup'.state = "recovered"
            BY <1>3, <2>1 DEF ReceiveControl, Next2State, SupRecord
        <3> QED BY <1>2, <2>1, <3>1 DEF NumberingInv, FramesOut, Unasked
    <2>2. CASE ~(sup' # Failed /\ ReceiveControl /\ Head2.type = "recovered")
        BY <1>3, <2>2 DEF SupRecord, Receive, ReceiveControl, ReceiveOutput, ReceiveCheckpoint, Failed
    <2> QED BY <2>1, <2>2
<1>6. sup'.state \in Unasked => sup.state \in Unasked
    BY <1>3 DEF SupRecord, Receive, ReceiveControl, ReceiveOutput, ReceiveCheckpoint, Failed,
                Next2State, AcceptedIn, Unasked
<1>7. \A k \in DOMAIN toHost' : \E l \in DOMAIN toHost : toHost'[k] = toHost[l]
    BY <1>1
<1> QED BY <1>1, <1>2, <1>4, <1>5, <1>6, <1>7, OwnerNumbered

\* The other steps of the owner send no facts and ask for no recovery.
LEMMA OtherOwnerNumbered ==
    ASSUME TypeOK, NumberingInv,
           Commit \/ CommitActivation \/ OpenGateway \/ SendActivation \/ RequestCheckpoint
           \/ Shutdown \/ Admit \/ Revoke \/ MissDeadline \/ NoticeExit \/ Kill
    PROVE  NumberingInv'
<1>1. sup \in SupRecord /\ host \in HostRecord
    BY DEF TypeOK
<1>2. UNCHANGED facts \/ \E wanted \in BOOLEAN : Grow(wanted)
    BY DEF Commit, CommitActivation, OpenGateway, SendActivation, RequestCheckpoint, Shutdown,
           Admit, Revoke, MissDeadline, NoticeExit, Kill
<1>3. UNCHANGED outputs /\ (UNCHANGED host \/ host'.pc = "dead")
    BY <1>1 DEF Commit, CommitActivation, OpenGateway, SendActivation, RequestCheckpoint, Shutdown,
           Admit, Revoke, MissDeadline, NoticeExit, Kill, HostRecord
<1>4. /\ sup'.barrier = sup.barrier /\ sup'.recovered = sup.recovered
      /\ sup'.state \in Unasked => sup.state \in Unasked
    BY <1>1 DEF Commit, CommitActivation, OpenGateway, SendActivation, RequestCheckpoint, Shutdown,
           Admit, Revoke, MissDeadline, NoticeExit, Kill, SupRecord, Failed, Unasked
<1>5. \A k \in DOMAIN toHost' : (\E l \in DOMAIN toHost : toHost'[k] = toHost[l]) \/ Fresh(toHost'[k])
    <2>1. CASE SendActivation \/ RequestCheckpoint \/ Shutdown
        BY <2>1, PlainSent DEF SendActivation, RequestCheckpoint, Shutdown
    <2>2. CASE UNCHANGED toHost \/ toHost' = <<>>
        BY <2>2
    <2> QED BY <2>1, <2>2 DEF Commit, CommitActivation, OpenGateway, Admit, Revoke, MissDeadline,
                              NoticeExit, Kill
<1>6. \A k \in DOMAIN toZig' : \E l \in DOMAIN toZig : toZig'[k] = toZig[l]
    <2>1. UNCHANGED toZig \/ toZig' = <<>>
        BY DEF Commit, CommitActivation, OpenGateway, SendActivation, RequestCheckpoint, Shutdown,
               Admit, Revoke, MissDeadline, NoticeExit, Kill
    <2> QED BY <2>1
<1> QED BY <1>2, <1>3, <1>4, <1>5, <1>6, OwnerNumbered

-----------------------------------------------------------------------------
(* Control sequences.  A session begins with the numbers of the plan and of *)
(* the hello already spent on one side and not yet on the other; from then  *)
(* on what one end has counted and what is in the pipe add up to the other. *)

Said(h) == IF h.pc = "plan" THEN 1 ELSE IF h.pc = "greeted" THEN 2 ELSE h.hseq
Taken(h) == IF h.pc = "plan" THEN 1 ELSE IF h.pc = "greeted" THEN 2 ELSE h.zseq

SequenceInv ==
    sup.state # "failed" /\ Alive =>
        /\ Said(host) = sup.next_host + Len(toZig)
        /\ sup.next_zig = Taken(host) + Len(toHost)

\* The frames under way carry the numbers the supervisor takes next.
PipeInv ==
    sup.state # "failed" => \A i \in DOMAIN toZig : toZig[i].seq = sup.next_host + i - 1

\* What a step of the host may do to its counters while it lives.
KeepsCount ==
    host'.pc # "dead" =>
        /\ Alive
        /\ Said(host') + Len(toZig) = Said(host) + Len(toZig')
        /\ Taken(host') + Len(toHost') = Taken(host) + Len(toHost)

\* A frame read makes a pipe one shorter, a frame written one longer.
LEMMA PipeLengths ==
    ASSUME TypeOK
    PROVE  /\ Len(toHost) \in Nat /\ Len(toZig) \in Nat
           /\ toHost # <<>> /\ Consume => Len(toHost') = Len(toHost) - 1
           /\ \A type, body : Write(type, body) => Len(toZig') = Len(toZig) + 1
           /\ \A type, body : Send(type, body) => Len(toHost') = Len(toHost) + 1
BY DEF TypeOK, Consume, Write, Send

\* The plan takes the first number of the owner, hello and the heartbeat the first two of the host.
LEMMA StartKeepsCount == ASSUME TypeOK, ReadPlan \/ SendHeartbeat PROVE KeepsCount
<1>r. host \in HostRecord
    BY DEF TypeOK
<1>1. Len(toHost) \in Nat /\ Len(toZig) \in Nat
    BY PipeLengths DEF TypeOK
<1>2. CASE ReadPlan
    <2>1. Len(toHost') = Len(toHost) - 1 /\ Len(toZig') = Len(toZig) + 1
        BY <1>2, PipeLengths DEF ReadPlan, TypeOK
    <2>2. host.pc = "plan" /\ host'.pc \in {"dead", "greeted"}
        BY <1>r, <1>2 DEF ReadPlan, HostRecord
    <2>3. Said(host) = 1 /\ Taken(host) = 1 /\ Alive
        BY <2>2 DEF Said, Taken, Alive
    <2>4. host'.pc # "dead" => Said(host') = 2 /\ Taken(host') = 2
        BY <2>2 DEF Said, Taken
    <2> QED BY <1>1, <2>1, <2>3, <2>4 DEF KeepsCount
<1>3. CASE SendHeartbeat
    <2>1. UNCHANGED toHost /\ Len(toZig') = Len(toZig) + 1
        BY <1>3 DEF SendHeartbeat, TypeOK
    <2>2. host.pc = "greeted" /\ host'.pc \notin {"plan", "greeted"} /\ host'.hseq = 3 /\ host'.zseq = 2
        BY <1>r, <1>3 DEF SendHeartbeat, HostRecord, AfterHello
    <2>3. Said(host) = 2 /\ Taken(host) = 2 /\ Alive /\ Said(host') = 3 /\ Taken(host') = 2
        BY <2>2 DEF Said, Taken, Alive
    <2> QED BY <1>1, <2>1, <2>3 DEF KeepsCount
<1> QED BY <1>2, <1>3

\* After the greeting a frame read takes one number, frames written as many as they are.
LEMMA ServedKeepsCount ==
    ASSUME Alive, host.pc \notin {"plan", "greeted"}, host'.pc \notin {"plan", "greeted"},
           host'.zseq + Len(toHost') = host.zseq + Len(toHost),
           host'.hseq + Len(toZig) = host.hseq + Len(toZig')
    PROVE  KeepsCount
BY DEF KeepsCount, Said, Taken

\* recovery_once, portable_once and finish of the replay.
LEMMA RecoveryKeepsCount ==
    ASSUME TypeOK, ReadBeginRecovery \/ ReadPortableRecovery \/ FinishReplay
    PROVE  KeepsCount
<1>r. host \in HostRecord
    BY DEF TypeOK
<1>1. /\ host.zseq \in Nat /\ host.hseq \in Nat
      /\ Len(toHost) \in Nat /\ Len(toZig) \in Nat
    BY PipeLengths DEF TypeOK, HostRecord
<1>2. CASE Dies
    BY <1>2, <1>r DEF Dies, KeepsCount, HostRecord
<1>3. Alive /\ host.pc \notin {"plan", "greeted"}
    BY DEF Alive, ReadBeginRecovery, ReadPortableRecovery, FinishReplay, ReplayDone
<1>4. CASE ReadBeginRecovery /\ ~Dies
    <2>1. Len(toHost') = Len(toHost) - 1 /\ UNCHANGED toZig
        BY <1>4, PipeLengths DEF ReadBeginRecovery
    <2>2. host'.zseq = host.zseq + 1 /\ host'.hseq = host.hseq /\ host'.pc = "replay"
        BY <1>r, <1>4 DEF ReadBeginRecovery, Loaded, HostRecord
    <2>a. host'.zseq + Len(toHost') = host.zseq + Len(toHost)
        BY <1>1, <2>1, <2>2
    <2>b. host'.hseq + Len(toZig) = host.hseq + Len(toZig')
        BY <1>1, <2>1, <2>2
    <2> QED BY <1>1, <1>3, <2>1, <2>2, <2>a, <2>b, ServedKeepsCount
<1>5. CASE ReadPortableRecovery /\ ~Dies
    <2> DEFINE loaded == Loaded(Head1.body)
    <2>1. ReportRecovered(loaded, "serving") /\ Consume /\ toHost # <<>>
        BY <1>5 DEF ReadPortableRecovery
    <2>2. Len(toHost') = Len(toHost) - 1
        BY <2>1, PipeLengths
    <2>8. Len(toZig') = Len(toZig) + 1
        BY <2>1, PipeLengths DEF ReportRecovered
    <2>3. /\ DOMAIN loaded = DOMAIN host /\ loaded.zseq = host.zseq + 1 /\ loaded.hseq = host.hseq
          /\ {"pc", "hseq", "zseq"} \subseteq DOMAIN host
        BY <1>r DEF Loaded, HostRecord
    <2>4. host' = [loaded EXCEPT !.pc = "serving", !.hseq = @ + 1]
        BY <2>1 DEF ReportRecovered
    <2> HIDE DEF loaded
    <2>5. host'.zseq = host.zseq + 1
        BY <2>3, <2>4
    <2>6. host'.hseq = host.hseq + 1
        BY <2>3, <2>4
    <2>7. host'.pc = "serving"
        BY <2>3, <2>4
    <2>a. host'.zseq + Len(toHost') = host.zseq + Len(toHost)
        BY <1>1, <2>2, <2>5
    <2>b. host'.hseq + Len(toZig) = host.hseq + Len(toZig')
        BY <1>1, <2>6, <2>8, SMTT(30)
    <2> QED BY <1>3, <2>7, <2>a, <2>b, ServedKeepsCount
<1>6. CASE FinishReplay /\ ~Dies
    <2>1. ReportRecovered(host, "activation") /\ UNCHANGED toHost
        BY <1>6 DEF FinishReplay
    <2>2. Len(toZig') = Len(toZig) + 1 /\ Len(toHost') = Len(toHost)
        BY <2>1, PipeLengths DEF ReportRecovered
    <2>3. host'.zseq = host.zseq /\ host'.hseq = host.hseq + 1 /\ host'.pc = "activation"
        BY <1>r, <2>1 DEF ReportRecovered, HostRecord
    <2>a. host'.zseq + Len(toHost') = host.zseq + Len(toHost)
        BY <1>1, <2>2, <2>3
    <2>b. host'.hseq + Len(toZig) = host.hseq + Len(toZig')
        BY <1>1, <2>2, <2>3
    <2> QED BY <1>1, <1>3, <2>1, <2>2, <2>3, <2>a, <2>b, ServedKeepsCount
<1> QED BY <1>2, <1>4, <1>5, <1>6

\* Replay and CatchUp take a batch and say nothing.
LEMMA SilentKeepsCount ==
    ASSUME TypeOK, Replay \/ CatchUp
    PROVE  KeepsCount
<1>r. host \in HostRecord
    BY DEF TypeOK
<1>1. /\ host.zseq \in Nat /\ host.hseq \in Nat
      /\ Len(toHost) \in Nat /\ Len(toZig) \in Nat
    BY PipeLengths DEF TypeOK, HostRecord
<1>2. CASE Dies \/ RequireRecovery
    BY <1>2, <1>r DEF Dies, RequireRecovery, KeepsCount, HostRecord
<1>3. CASE ~(Dies \/ RequireRecovery)
    <2> DEFINE moved == ApplyReplay(host, Head1.body)
    <2>1. Alive /\ host.pc \in {"replay", "catchup"} /\ toHost # <<>> /\ Consume
        BY DEF Replay, CatchUp, Alive
    <2>2. PICK done \in {"replay", "live"} : ReplaySilently(host.barrier, done)
        BY DEF Replay, CatchUp
    <2>3. /\ host' = [moved EXCEPT !.pc = IF moved.cursor >= host.barrier THEN done ELSE @]
          /\ UNCHANGED toZig
        BY <1>3, <2>2 DEF ReplaySilently
    <2>4. /\ DOMAIN moved = DOMAIN host /\ moved.zseq = host.zseq + 1 /\ moved.hseq = host.hseq
          /\ moved.pc = host.pc /\ {"pc", "hseq", "zseq"} \subseteq DOMAIN host
        BY <1>r DEF ApplyReplay, HostRecord
    <2> HIDE DEF moved
    <2>5. host'.zseq = host.zseq + 1 /\ host'.hseq = host.hseq
          /\ host'.pc \in {"replay", "live", "catchup"}
        BY <2>1, <2>3, <2>4
    <2>6. Len(toHost') = Len(toHost) - 1 /\ Len(toZig') = Len(toZig)
        BY <2>1, <2>3, PipeLengths
    <2>a. host'.zseq + Len(toHost') = host.zseq + Len(toHost)
        BY <1>1, <2>5, <2>6
    <2>b. host'.hseq + Len(toZig) = host.hseq + Len(toZig')
        BY <1>1, <2>5, <2>6
    <2> QED BY <1>1, <2>1, <2>3, <2>5, <2>6, <2>a, <2>b, ServedKeepsCount
<1> QED BY <1>2, <1>3

\* ReadActivation and await_direct_activation.
LEMMA ActivationKeepsCount ==
    ASSUME TypeOK, ReadActivation \/ ReadDirectActivation
    PROVE  KeepsCount
<1>r. host \in HostRecord
    BY DEF TypeOK
<1>1. /\ host.zseq \in Nat /\ host.hseq \in Nat
      /\ Len(toHost) \in Nat /\ Len(toZig) \in Nat
    BY PipeLengths DEF TypeOK, HostRecord
<1>2. CASE Dies
    BY <1>2, <1>r DEF Dies, KeepsCount, HostRecord
<1>3. CASE ~Dies
    <2>1. /\ Alive /\ host.pc \notin {"plan", "greeted"} /\ Len(toHost') = Len(toHost) - 1
          /\ UNCHANGED toZig
        BY <1>3, PipeLengths DEF ReadActivation, ReadDirectActivation, Alive
    <2>2. host'.zseq = host.zseq + 1 /\ host'.hseq = host.hseq /\ host'.pc \in {"live", "catchup", "inputs"}
        BY <1>r, <1>3 DEF ReadActivation, ReadDirectActivation, HostRecord
    <2>a. host'.zseq + Len(toHost') = host.zseq + Len(toHost)
        BY <1>1, <2>1, <2>2
    <2>b. host'.hseq + Len(toZig) = host.hseq + Len(toZig')
        BY <1>1, <2>1, <2>2
    <2> QED BY <1>1, <2>1, <2>2, <2>a, <2>b, ServedKeepsCount
<1> QED BY <1>2, <1>3

\* The live loop may say two things about one batch.
LEMMA LiveKeepsCount ==
    ASSUME TypeOK, Live
    PROVE  KeepsCount
<1>r. host \in HostRecord
    BY DEF TypeOK
<1>1. /\ host.zseq \in Nat /\ host.hseq \in Nat
      /\ Len(toHost) \in Nat /\ Len(toZig) \in Nat /\ toZig \in Seq(HostFrame)
    BY PipeLengths DEF TypeOK, HostRecord
<1>2. CASE RequireRecovery \/ RefuseLive(Counted)
    BY <1>2, <1>r DEF RequireRecovery, RefuseLive, KeepsCount, HostRecord
<1>3. CASE InOrder("input") /\ AnswerLive(Counted)
    <2> DEFINE b == Head1.body
               moved == ApplyReplay(host, b)
               o == Intent(host.next, b)
    <2>1. Alive /\ host.pc = "live" /\ toHost # <<>> /\ Consume
        BY DEF Live, Alive
    <2>2. o \in IntentBody
        <3>1. b \in InputBody
            BY <1>3, <2>1, ConsumedTyped, ZigFrameRead DEF InOrder
        <3> QED BY <3>1 DEF Intent, IntentBody, InputBody, TypeOK, HostRecord
    <2>3. /\ DOMAIN moved = DOMAIN host /\ moved.zseq = host.zseq + 1 /\ moved.hseq = host.hseq
          /\ moved.pc = host.pc /\ {"pc", "hseq", "zseq"} \subseteq DOMAIN host
        BY <1>r DEF ApplyReplay, HostRecord
    <2>4. /\ Faulted \in Seq(HostFrame) /\ Len(Faulted) \in Nat
          /\ Counted \in Nat /\ Counted = host.hseq + Len(Faulted)
        BY LiveFrames
    <2>5. PICK f \in HostFrame : Frame("output", Counted, o) = <<f>>
        BY <2>2, <2>4, LastFrame
    <2>6. \/ toZig' = toZig \o Faulted /\ host' = [moved EXCEPT !.hseq = Counted]
          \/ /\ toZig' = toZig \o Faulted \o <<f>>
             /\ host' = [moved EXCEPT !.hseq = Counted + 1, !.pc = "closing"]
        BY <1>3, <2>5 DEF AnswerLive
    <2> HIDE DEF moved
    <2>7. Len(toHost') = Len(toHost) - 1
        BY <2>1, PipeLengths
    <2>8. CASE toZig' = toZig \o Faulted /\ host' = [moved EXCEPT !.hseq = Counted]
        <3>1. host'.zseq = host.zseq + 1 /\ host'.hseq = Counted /\ host'.pc = "live"
            BY <2>1, <2>3, <2>8
        <3>2. Len(toZig') = Len(toZig) + Len(Faulted)
            BY <1>1, <2>4, <2>8
        <3>a. host'.zseq + Len(toHost') = host.zseq + Len(toHost)
            BY <1>1, <2>7, <3>1
        <3>b. host'.hseq + Len(toZig) = host.hseq + Len(toZig')
            BY <1>1, <2>4, <3>1, <3>2
        <3> QED BY <2>1, <3>1, <3>a, <3>b, ServedKeepsCount
    <2>9. CASE /\ toZig' = toZig \o Faulted \o <<f>>
               /\ host' = [moved EXCEPT !.hseq = Counted + 1, !.pc = "closing"]
        <3>1. host'.zseq = host.zseq + 1 /\ host'.pc = "closing" /\ host'.hseq = Counted + 1
            BY <2>1, <2>3, <2>9
        <3>2. Len(toZig') = Len(toZig) + Len(Faulted) + 1
            BY <1>1, <2>4, <2>9
        <3>a. host'.zseq + Len(toHost') = host.zseq + Len(toHost)
            BY <1>1, <2>7, <3>1
        <3>b. host'.hseq + Len(toZig) = host.hseq + Len(toZig')
            BY <1>1, <2>4, <3>1, <3>2
        <3> QED BY <2>1, <3>1, <3>a, <3>b, ServedKeepsCount
    <2> QED BY <2>6, <2>8, <2>9
<1> QED BY <1>2, <1>3 DEF Live, LiveInput

\* trade_once, benchmark_once and the checkpoints of portable_once answer one frame with one.
LEMMA AnswerKeepsCount ==
    ASSUME TypeOK, AnswerTrade \/ AnswerBenchmark \/ Serve \/ ReadShutdown
    PROVE  KeepsCount
<1>r. host \in HostRecord
    BY DEF TypeOK
<1>1. /\ host.zseq \in Nat /\ host.hseq \in Nat
      /\ Len(toHost) \in Nat /\ Len(toZig) \in Nat
    BY PipeLengths DEF TypeOK, HostRecord
<1>2. CASE host'.pc = "dead"
    BY <1>2 DEF KeepsCount
<1>3. CASE host'.pc # "dead"
    <2>1. ~Dies /\ ~RequireRecovery
        BY <1>r, <1>3 DEF Dies, RequireRecovery, HostRecord
    <2>2. /\ Alive /\ host.pc \notin {"plan", "greeted"} /\ Len(toHost') = Len(toHost) - 1
        BY PipeLengths DEF AnswerTrade, AnswerBenchmark, Serve, ReadShutdown, Alive
    <2>3. CASE \E type : AnswerWith(type)
        <3>1. Len(toZig') = Len(toZig) + 1
            BY <2>3, PipeLengths DEF AnswerWith
        <3>2. host'.zseq = host.zseq + 1 /\ host'.pc \in {"closing", host.pc}
            BY <1>r, <2>3 DEF AnswerWith, HostRecord
        <3>3. host'.hseq = host.hseq + 1
            BY <1>r, <2>3 DEF AnswerWith, HostRecord
        <3>a. host'.zseq + Len(toHost') = host.zseq + Len(toHost)
            BY <1>1, <2>2, <3>1, <3>2
        <3>b. host'.hseq + Len(toZig) = host.hseq + Len(toZig')
            BY <1>1, <3>1, <3>3
        <3> QED BY <1>1, <2>2, <3>1, <3>2, <3>a, <3>b, ServedKeepsCount
    <2>4. CASE Serve
        <3>1. /\ Write("checkpoint", Checkpoint(Head1.body.id))
              /\ host' = [host EXCEPT !.zseq = @ + 1, !.hseq = @ + 1, !.request = Head1.body.id]
            BY <1>r, <1>3, <2>1, <2>4 DEF Serve, HostRecord
        <3>2. host'.zseq = host.zseq + 1 /\ host'.pc = host.pc
            BY <1>r, <3>1 DEF HostRecord
        <3>4. host'.hseq = host.hseq + 1
            BY <1>r, <3>1 DEF HostRecord
        <3>3. Len(toZig') = Len(toZig) + 1
            BY <3>1, PipeLengths
        <3>a. host'.zseq + Len(toHost') = host.zseq + Len(toHost)
            BY <1>1, <2>2, <3>2, <3>3
        <3>b. host'.hseq + Len(toZig) = host.hseq + Len(toZig')
            BY <1>1, <3>3, <3>4, SMTT(30)
        <3> QED BY <1>1, <2>2, <3>2, <3>3, <3>a, <3>b, ServedKeepsCount
    <2>5. CASE ReadShutdown
        <3>1. host'.pc = "dead"
            BY <1>r, <2>1, <2>5 DEF ReadShutdown, HostRecord
        <3> QED BY <1>3, <3>1
    <2> QED BY <2>1, <2>3, <2>4, <2>5 DEF AnswerTrade, AnswerBenchmark
<1> QED BY <1>2, <1>3

\* No step of the host makes the two ends disagree.
LEMMA HostInSequence ==
    ASSUME TypeOK, TypeOK', SequenceInv, HostStep
    PROVE  SequenceInv'
<1>1. KeepsCount
    BY StartKeepsCount, RecoveryKeepsCount, SilentKeepsCount, ActivationKeepsCount, LiveKeepsCount,
       AnswerKeepsCount DEF HostStep
<1>2. UNCHANGED sup
    BY DEF HostStep, zigVars
<1> SUFFICES ASSUME sup.state # "failed", Alive, host'.pc # "dead"
             PROVE  /\ Said(host') = sup.next_host + Len(toZig')
                    /\ sup.next_zig = Taken(host') + Len(toHost')
    BY <1>1, <1>2 DEF SequenceInv, KeepsCount, Alive
<1>3. Said(host') + Len(toZig) = Said(host) + Len(toZig') /\ Said(host) = sup.next_host + Len(toZig)
    BY <1>1 DEF SequenceInv, KeepsCount
<1>4. /\ Taken(host') + Len(toHost') = Taken(host) + Len(toHost)
      /\ sup.next_zig = Taken(host) + Len(toHost)
    BY <1>1 DEF SequenceInv, KeepsCount
<1>5. sup.next_host \in Nat /\ Len(toZig) \in Nat
    BY PipeLengths DEF TypeOK, SupRecord
<1>6. Len(toZig') \in Nat /\ Said(host') \in Nat
    BY DEF TypeOK, HostRecord, Said
<1>7. Said(host') = sup.next_host + Len(toZig')
    BY <1>3, <1>5, <1>6
<1> QED BY <1>4, <1>7

\* What the owner sends is counted in the pipe.
LEMMA SentInSequence ==
    ASSUME TypeOK, SequenceInv, NEW type, NEW body, Send(type, body), UNCHANGED <<host, toZig>>,
           sup'.next_zig = sup.next_zig + 1, sup'.next_host = sup.next_host, sup.state # "failed"
    PROVE  SequenceInv'
<1>1. Len(toHost') = Len(toHost) + 1 /\ Len(toHost) \in Nat
    BY PipeLengths
<1>2. Taken(host) \in Nat
    BY DEF TypeOK, HostRecord, Taken
<1>3. Taken(host) + (Len(toHost) + 1) = (Taken(host) + Len(toHost)) + 1
    BY <1>1, <1>2
<1> QED BY <1>1, <1>3 DEF SequenceInv, Alive

\* What the owner accepts has left the pipe; a supervisor that gives up is in no step.
LEMMA ReadInSequence ==
    ASSUME TypeOK, SequenceInv, toZig # <<>>, toZig' = Tail(toZig), UNCHANGED <<host, toHost>>,
           sup.state # "failed",
           \/ sup'.state = "failed"
           \/ sup'.next_host = sup.next_host + 1 /\ sup'.next_zig = sup.next_zig
    PROVE  SequenceInv'
<1>1. Len(toZig') = Len(toZig) - 1 /\ Len(toZig) \in Nat /\ sup.next_host \in Nat
    BY DEF TypeOK, SupRecord
<1>2. sup.next_host + Len(toZig) = (sup.next_host + 1) + (Len(toZig) - 1)
    BY <1>1
<1> QED BY <1>1, <1>2 DEF SequenceInv, Alive

\* A new session: the plan is in the pipe and nothing else.
LEMMA StartInSequence ==
    ASSUME NEW mode, NEW barrier, StartSession(mode, barrier)
    PROVE  SequenceInv'
<1>1. host'.pc = "plan" /\ sup'.next_host = 1 /\ sup'.next_zig = 2
      /\ Len(toHost') = 1 /\ Len(toZig') = 0
    BY DEF StartSession, Process
<1> QED BY <1>1 DEF SequenceInv, Said, Taken

\* The steps of the owner that write to the child.
LEMMA OwnerSends ==
    ASSUME TypeOK, SequenceInv,
           \/ \E cursor, barrier \in 0 .. Len(facts) : BeginRecovery(cursor, barrier)
           \/ \E last \in 1 .. Len(facts), holds \in Content : SendInput(last, holds)
           \/ SendActivation \/ RequestCheckpoint \/ Shutdown
    PROVE  SequenceInv'
<1>1. sup \in SupRecord
    BY DEF TypeOK
<1>2. /\ UNCHANGED <<host, toZig>> /\ sup.state # "failed"
      /\ sup'.next_zig = sup.next_zig + 1 /\ sup'.next_host = sup.next_host
    BY <1>1 DEF BeginRecovery, SendInput, SendActivation, RequestCheckpoint, Shutdown, MayFeed, SupRecord
<1>3. \E type, body : Send(type, body)
    BY DEF BeginRecovery, SendInput, SendActivation, RequestCheckpoint, Shutdown
<1> QED BY <1>2, <1>3, SentInSequence

\* The steps of the owner that read from the child.
LEMMA OwnerReads == ASSUME TypeOK, SequenceInv, Receive PROVE SequenceInv'
<1>1. sup \in SupRecord
    BY DEF TypeOK
<1>2. /\ UNCHANGED <<host, toHost>> /\ toZig # <<>> /\ toZig' = Tail(toZig) /\ sup.state # "failed"
    BY DEF Receive, ReceiveControl, ReceiveOutput, ReceiveCheckpoint, Heard
<1>3. \/ sup'.state = "failed"
      \/ sup'.next_host = sup.next_host + 1 /\ sup'.next_zig = sup.next_zig
    <2>1. CASE ReceiveControl
        BY <1>1, <2>1 DEF ReceiveControl, Failed, SupRecord
    <2>2. CASE \E fresh \in BOOLEAN : ReceiveOutput(fresh)
        BY <1>1, <2>2 DEF ReceiveOutput, Failed, SupRecord
    <2>3. CASE ReceiveCheckpoint
        BY <1>1, <2>3 DEF ReceiveCheckpoint, Failed, SupRecord
    <2> QED BY <2>1, <2>2, <2>3 DEF Receive
<1> QED BY <1>2, <1>3, ReadInSequence

\* The other steps of the owner touch no pipe, give up or reap the child.
LEMMA OwnerElse ==
    ASSUME TypeOK, SequenceInv,
           \/ Commit \/ CommitActivation \/ OpenGateway \/ Admit \/ Revoke \/ MissDeadline
           \/ NoticeExit \/ Kill \/ UNCHANGED vars
    PROVE  SequenceInv'
<1>1. sup \in SupRecord /\ host \in HostRecord
    BY DEF TypeOK
<1>2. CASE UNCHANGED <<host, toHost, toZig, sup>>
    BY <1>2 DEF SequenceInv, Alive
<1>3. CASE sup'.state = "failed" \/ host'.pc = "dead"
    BY <1>3 DEF SequenceInv, Alive
<1>4. UNCHANGED <<host, toHost, toZig, sup>> \/ sup'.state = "failed" \/ host'.pc = "dead"
    BY <1>1 DEF Commit, CommitActivation, OpenGateway, Admit, Revoke, MissDeadline, NoticeExit, Kill,
                vars, Failed, SupRecord, HostRecord
<1> QED BY <1>2, <1>3, <1>4

\* What a host writes in one step follows what it wrote before, in number and place.
WritesInTurn ==
    \A k \in DOMAIN toZig' :
        \/ k \in DOMAIN toZig /\ toZig'[k] = toZig[k]
        \/ k \notin DOMAIN toZig /\ toZig'[k].seq = Said(host) + (k - Len(toZig)) - 1

\* One frame with the next number.
LEMMA OneInTurn ==
    ASSUME TypeOK, NEW f, toZig' = Append(toZig, f), f.seq = Said(host)
    PROVE  WritesInTurn
<1>1. toZig \in Seq(HostFrame) /\ Len(toZig) \in Nat /\ Said(host) \in Nat
    BY DEF TypeOK, Said, HostRecord
<1>4. /\ \A k \in DOMAIN toZig' : k \in Nat /\ k >= 1 /\ k <= Len(toZig) + 1
      /\ \A k \in DOMAIN toZig : toZig'[k] = toZig[k]
      /\ toZig'[Len(toZig) + 1] = f /\ DOMAIN toZig = 1 .. Len(toZig)
    BY <1>1
<1>2. \A k \in DOMAIN toZig' : \/ k \in DOMAIN toZig /\ toZig'[k] = toZig[k]
                               \/ k \notin DOMAIN toZig /\ k = Len(toZig) + 1 /\ toZig'[k] = f
    <2> SUFFICES ASSUME NEW k \in DOMAIN toZig', k \notin DOMAIN toZig
                 PROVE  k = Len(toZig) + 1 /\ toZig'[k] = f
        BY <1>4
    <2>1. k \in Nat /\ k >= 1 /\ k <= Len(toZig) + 1 /\ k \notin 1 .. Len(toZig)
        BY <1>4
    <2>2. k = Len(toZig) + 1
        BY <1>1, <2>1
    <2> QED BY <1>4, <2>2
<1>3. Said(host) + ((Len(toZig) + 1) - Len(toZig)) - 1 = Said(host)
    BY <1>1
<1> QED BY <1>2, <1>3 DEF WritesInTurn

\* write_frame with control_sequence, once the host has greeted.
LEMMA WriteInTurn ==
    ASSUME TypeOK, host.pc \notin {"plan", "greeted"}, NEW type, NEW body, Write(type, body)
    PROVE  WritesInTurn
<1> DEFINE f == [type |-> type, gen |-> host.gen, seq |-> host.hseq, body |-> body]
<1>1. toZig' = Append(toZig, f) /\ f.seq = Said(host)
    BY DEF Write, Said
<1> HIDE DEF f
<1> QED BY <1>1, OneInTurn

\* The live loop counts the report of a faulty strategy before it writes what
\* follows, also when what follows is its last word.
LEMMA LiveInTurn ==
    ASSUME TypeOK, host.pc = "live",
           \/ toZig' = toZig \o Faulted
           \/ \E f \in HostFrame : f.seq = Counted /\ toZig' = toZig \o Faulted \o <<f>>
    PROVE  WritesInTurn
<1>1. /\ toZig \in Seq(HostFrame) /\ Faulted \in Seq(HostFrame)
      /\ \A k \in DOMAIN Faulted : Faulted[k].seq = host.hseq + k - 1
      /\ Counted = host.hseq + Len(Faulted) /\ Said(host) = host.hseq /\ host.hseq \in Nat
    BY LiveFrames DEF TypeOK, Said, HostRecord
<1> DEFINE n == Len(toZig)
           m == Len(Faulted)
<1>2. /\ n \in Nat /\ m \in Nat /\ DOMAIN toZig = 1 .. n /\ DOMAIN Faulted = 1 .. m
    BY <1>1
<1> SUFFICES ASSUME NEW k \in DOMAIN toZig'
             PROVE  \/ k \in DOMAIN toZig /\ toZig'[k] = toZig[k]
                    \/ k \notin DOMAIN toZig /\ toZig'[k].seq = host.hseq + (k - n) - 1
    BY <1>1 DEF WritesInTurn
<1>3. CASE toZig' = toZig \o Faulted
    <2>1. Len(toZig') = n + m /\ toZig' \in Seq(HostFrame)
        BY <1>1, <1>3, Written
    <2>2. k \in Nat /\ k >= 1 /\ k <= n + m
        BY <1>2, <2>1
    <2>3. toZig'[k] = IF k <= n THEN toZig[k] ELSE Faulted[k - n]
        BY <1>1, <1>3, Written
    <2> HIDE DEF n, m
    <2>4. k > n => k - n \in DOMAIN Faulted
        BY <1>2, <2>2
    <2>5. k > n => Faulted[k - n].seq = host.hseq + (k - n) - 1
        BY <1>1, <2>4
    <2>6. CASE k <= n
        <3>1. k \in DOMAIN toZig
            BY <1>2, <2>2, <2>6
        <3>2. toZig'[k] = toZig[k]
            BY <2>3, <2>6
        <3> QED BY <3>1, <3>2
    <2>7. CASE k > n
        <3>1. k \notin DOMAIN toZig
            BY <1>2, <2>2, <2>7
        <3>2. toZig'[k] = Faulted[k - n]
            BY <1>2, <2>2, <2>3, <2>7
        <3> QED BY <2>5, <2>7, <3>1, <3>2
    <2> QED BY <1>2, <2>2, <2>6, <2>7
<1>4. ASSUME NEW f \in HostFrame, f.seq = Counted, toZig' = toZig \o Faulted \o <<f>>
      PROVE  \/ k \in DOMAIN toZig /\ toZig'[k] = toZig[k]
             \/ k \notin DOMAIN toZig /\ toZig'[k].seq = host.hseq + (k - n) - 1
    <2>1. Len(toZig') = n + m + 1 /\ toZig' \in Seq(HostFrame)
        BY <1>1, <1>4, Written
    <2>2. k \in Nat /\ k >= 1 /\ k <= n + m + 1
        BY <1>2, <2>1
    <2>3. toZig'[k] = IF k <= n THEN toZig[k] ELSE IF k <= n + m THEN Faulted[k - n] ELSE f
        BY <1>1, <1>4, Written
    <2>0. f.seq = host.hseq + m
        BY <1>1, <1>4
    <2> HIDE DEF n, m
    <2>4. k > n /\ k <= n + m => k - n \in DOMAIN Faulted
        BY <1>2, <2>2
    <2>5. k > n /\ k <= n + m => Faulted[k - n].seq = host.hseq + (k - n) - 1
        BY <1>1, <2>4
    <2>6. k > n + m => f.seq = host.hseq + (k - n) - 1
        <3> SUFFICES ASSUME k > n + m PROVE host.hseq + m = host.hseq + (k - n) - 1
            BY <2>0
        <3>1. k = n + m + 1
            BY <1>2, <2>2
        <3> QED BY <1>1, <1>2, <3>1
    <2>7. CASE k <= n
        <3>1. k \in DOMAIN toZig
            BY <1>2, <2>2, <2>7
        <3>2. toZig'[k] = toZig[k]
            BY <2>3, <2>7
        <3> QED BY <3>1, <3>2
    <2>8. CASE k > n
        <3>1. k \notin DOMAIN toZig
            BY <1>2, <2>2, <2>8
        <3>2. toZig'[k] = IF k <= n + m THEN Faulted[k - n] ELSE f
            BY <1>2, <2>2, <2>3, <2>8
        <3>3. k <= n + m \/ k > n + m
            BY <1>2, <2>2
        <3> QED BY <2>5, <2>6, <2>8, <3>1, <3>2, <3>3
    <2> QED BY <1>2, <2>2, <2>7, <2>8
<1> QED BY <1>3, <1>4

\* Every frame a step of the host writes carries the next number.
LEMMA HostInTurn == ASSUME TypeOK, HostStep PROVE WritesInTurn /\ Alive
<1>0. Alive
    BY DEF HostStep, Alive, ReadPlan, SendHeartbeat, ReadBeginRecovery, ReadPortableRecovery,
           Replay, FinishReplay, ReplayDone, ReadActivation, CatchUp, Live, ReadDirectActivation,
           AnswerTrade, AnswerBenchmark, Serve, ReadShutdown
<1>1. CASE UNCHANGED toZig
    <2>1. toZig' = toZig
        BY <1>1
    <2>2. \A k \in DOMAIN toZig' : toZig'[k] = toZig[k] /\ k \in DOMAIN toZig
        BY <2>1, Zenon
    <2> QED BY <1>0, <2>2 DEF WritesInTurn
<1>2. CASE ReadPlan
    <2>1. toZig' = Append(toZig, Hello(Head1)) /\ Hello(Head1).seq = Said(host)
        BY <1>2 DEF ReadPlan, Hello, Said
    <2> QED BY <1>0, <2>1, OneInTurn
<1>3. CASE SendHeartbeat
    <2> DEFINE f == [type |-> "heartbeat", gen |-> host.gen, seq |-> 2, body |-> None]
    <2>1. toZig' = Append(toZig, f) /\ f.seq = Said(host)
        BY <1>3 DEF SendHeartbeat, Said
    <2> HIDE DEF f
    <2> QED BY <1>0, <2>1, OneInTurn
<1>4. CASE host.pc \notin {"plan", "greeted"} /\ \E type, body : Write(type, body)
    BY <1>0, <1>4, WriteInTurn
<1>5. CASE Live
    <2>1. host.pc = "live"
        BY <1>5 DEF Live
    <2>2. CASE RequireRecovery
        BY <1>0, <2>1, <2>2, WriteInTurn DEF RequireRecovery
    <2>3. CASE RefuseLive(Counted)
        <3>1. PICK f \in HostFrame :
                f.seq = Counted /\ Frame("recovery_required", Counted, None) = <<f>>
            BY LiveFrames, LastFrame
        <3>2. toZig' = toZig \o Faulted \/ toZig' = toZig \o Faulted \o <<f>>
            BY <2>3, <3>1 DEF RefuseLive
        <3> QED BY <1>0, <2>1, <3>1, <3>2, LiveInTurn
    <2>4. CASE InOrder("input") /\ AnswerLive(Counted)
        <3>1. Intent(host.next, Head1.body) \in IntentBody
            <4>1. Head1.body \in InputBody
                BY <1>5, <2>4, ConsumedTyped, ZigFrameRead DEF InOrder, Live
            <4> QED BY <4>1 DEF Intent, IntentBody, InputBody, TypeOK, HostRecord
        <3>2. PICK f \in HostFrame :
                f.seq = Counted /\ Frame("output", Counted, Intent(host.next, Head1.body)) = <<f>>
            BY <3>1, LiveFrames, LastFrame
        <3>3. toZig' = toZig \o Faulted \/ toZig' = toZig \o Faulted \o <<f>>
            BY <2>4, <3>2 DEF AnswerLive
        <3> QED BY <1>0, <2>1, <3>2, <3>3, LiveInTurn
    <2> QED BY <1>5, <2>2, <2>3, <2>4 DEF Live, LiveInput
<1>6. CASE ~Live /\ ~ReadPlan /\ ~SendHeartbeat
    <2>1. host.pc \notin {"plan", "greeted"}
        BY <1>6 DEF HostStep, ReadBeginRecovery, ReadPortableRecovery, Replay, FinishReplay,
                    ReplayDone, ReadActivation, CatchUp, ReadDirectActivation, AnswerTrade,
                    AnswerBenchmark, Serve, ReadShutdown
    <2>2. UNCHANGED toZig \/ \E type, body : Write(type, body)
        <3>1. CASE ReadBeginRecovery \/ ReadActivation \/ ReadDirectActivation
            BY <3>1 DEF ReadBeginRecovery, ReadActivation, ReadDirectActivation, Dies
        <3>2. CASE ReadPortableRecovery \/ FinishReplay
            BY <3>2 DEF ReadPortableRecovery, FinishReplay, ReportRecovered, Dies
        <3>3. CASE Replay \/ CatchUp
            BY <3>3 DEF Replay, CatchUp, ReplaySilently, RequireRecovery, Dies
        <3>4. CASE AnswerTrade \/ AnswerBenchmark
            BY <3>4 DEF AnswerTrade, AnswerBenchmark, AnswerWith, RequireRecovery
        <3>5. CASE Serve \/ ReadShutdown
            BY <3>5 DEF Serve, ReadShutdown, Dies
        <3> QED BY <1>6, <3>1, <3>2, <3>3, <3>4, <3>5 DEF HostStep
    <2> QED BY <1>1, <1>4, <2>1, <2>2
<1> QED BY <1>2, <1>3, <1>5, <1>6

\* What a host writes is what the supervisor expects after what is under way.
LEMMA HostPiped == ASSUME TypeOK, TypeOK', SequenceInv, PipeInv, HostStep PROVE PipeInv'
<1>1. WritesInTurn /\ Alive /\ UNCHANGED sup
    BY HostInTurn DEF HostStep, zigVars
<1>2. toZig \in Seq(HostFrame) /\ Len(toZig) \in Nat /\ sup.next_host \in Nat
    BY DEF TypeOK, SupRecord
<1> SUFFICES ASSUME sup.state # "failed", NEW k \in DOMAIN toZig', k \in Nat
             PROVE  toZig'[k].seq = sup.next_host + k - 1
    <2>1. DOMAIN toZig' \subseteq Nat
        BY DEF TypeOK
    <2> QED BY <1>1, <2>1 DEF PipeInv
<1>3. CASE k \in DOMAIN toZig
    BY <1>1, <1>3 DEF PipeInv, WritesInTurn
<1>4. CASE k \notin DOMAIN toZig
    <2>1. toZig'[k].seq = Said(host) + (k - Len(toZig)) - 1 /\ Said(host) = sup.next_host + Len(toZig)
        BY <1>1, <1>4 DEF WritesInTurn, SequenceInv
    <2> QED BY <1>2, <2>1
<1> QED BY <1>3, <1>4

\* The frame that is read is the first of the pipe, and the next is expected after it.
LEMMA OwnerReadsPiped == ASSUME TypeOK, PipeInv, Receive PROVE PipeInv'
<1>1. /\ toZig # <<>> /\ toZig' = Tail(toZig) /\ sup.state # "failed"
      /\ sup'.state = "failed" \/ sup'.next_host = sup.next_host + 1
    <2>1. sup \in SupRecord
        BY DEF TypeOK
    <2>2. CASE ReceiveControl
        BY <2>1, <2>2 DEF ReceiveControl, Heard, Failed, SupRecord
    <2>3. CASE \E fresh \in BOOLEAN : ReceiveOutput(fresh)
        BY <2>1, <2>3 DEF ReceiveOutput, Heard, Failed, SupRecord
    <2>4. CASE ReceiveCheckpoint
        BY <2>1, <2>4 DEF ReceiveCheckpoint, Heard, Failed, SupRecord
    <2> QED BY <2>2, <2>3, <2>4 DEF Receive
<1>2. toZig \in Seq(HostFrame) /\ sup.next_host \in Nat
    BY DEF TypeOK, SupRecord
<1>3. \A k \in DOMAIN toZig' : k \in Nat /\ k + 1 \in DOMAIN toZig /\ toZig'[k] = toZig[k + 1]
    BY <1>1, <1>2
<1> SUFFICES ASSUME sup'.state # "failed", NEW k \in DOMAIN toZig'
             PROVE  toZig'[k].seq = sup'.next_host + k - 1
    BY DEF PipeInv
<1>4. toZig'[k].seq = sup.next_host + (k + 1) - 1
    BY <1>1, <1>3 DEF PipeInv
<1> QED BY <1>1, <1>2, <1>3, <1>4

\* Every other step of the owner leaves the pipe from the child alone or empties it.
LEMMA OwnerPiped == ASSUME TypeOK, PipeInv, [ZigStep]_vars, ~Receive PROVE PipeInv'
<1>1. sup \in SupRecord
    BY DEF TypeOK
<1>2. CASE toZig' = <<>>
    BY <1>2 DEF PipeInv
<1>3. CASE sup'.state = "failed"
    BY <1>3 DEF PipeInv
<1>4. CASE UNCHANGED toZig /\ sup'.next_host = sup.next_host /\ sup.state # "failed"
    BY <1>4 DEF PipeInv
<1>5. CASE UNCHANGED <<sup, toZig>>
    BY <1>5 DEF PipeInv
<1>6. CASE \E mode \in Modes, barrier \in 0 .. Len(facts) + 1 : StartSession(mode, barrier)
    BY <1>2, <1>6 DEF StartSession
<1>7. CASE \/ \E cursor, barrier \in 0 .. Len(facts) : BeginRecovery(cursor, barrier)
           \/ \E last \in 1 .. Len(facts), holds \in Content : SendInput(last, holds)
           \/ SendActivation \/ RequestCheckpoint \/ Shutdown
    BY <1>1, <1>4, <1>7 DEF BeginRecovery, SendInput, SendActivation, RequestCheckpoint, Shutdown,
                            MayFeed, SupRecord
<1>8. CASE Commit \/ CommitActivation \/ OpenGateway \/ Admit \/ Revoke \/ UNCHANGED vars
    BY <1>5, <1>8 DEF Commit, CommitActivation, OpenGateway, Admit, Revoke, vars
<1>9. CASE MissDeadline \/ NoticeExit
    BY <1>1, <1>3, <1>9 DEF MissDeadline, NoticeExit, Failed, SupRecord
<1>10. CASE Kill
    BY <1>2, <1>10 DEF Kill
<1> QED BY <1>6, <1>7, <1>8, <1>9, <1>10 DEF ZigStep

\* From the first frame to the last of a session nothing is lost or counted twice
\* between the two ends, also when the host dies (write_frame and read_frame,
\* acceptHostFrame).
THEOREM EndsInStep == Spec => []InStep
<1>1. Init => SequenceInv /\ PipeInv
    BY DEF Init, Process, SequenceInv, PipeInv, Alive
<1>2. TypeOK /\ TypeOK' /\ SequenceInv /\ [Next]_vars => SequenceInv'
    <2> SUFFICES ASSUME TypeOK, TypeOK', SequenceInv, [Next]_vars PROVE SequenceInv'
        OBVIOUS
    <2>1. CASE HostStep
        BY <2>1, HostInSequence
    <2>2. CASE \E mode \in Modes, barrier \in 0 .. Len(facts) + 1 : StartSession(mode, barrier)
        BY <2>2, StartInSequence
    <2>3. CASE \/ \E cursor, barrier \in 0 .. Len(facts) : BeginRecovery(cursor, barrier)
               \/ \E last \in 1 .. Len(facts), holds \in Content : SendInput(last, holds)
               \/ SendActivation \/ RequestCheckpoint \/ Shutdown
        BY <2>3, OwnerSends
    <2>4. CASE Receive
        BY <2>4, OwnerReads
    <2>5. CASE \/ Commit \/ CommitActivation \/ OpenGateway \/ Admit \/ Revoke \/ MissDeadline
               \/ NoticeExit \/ Kill \/ UNCHANGED vars
        BY <2>5, OwnerElse
    <2> QED BY <2>1, <2>2, <2>3, <2>4, <2>5 DEF Next, ZigStep
<1>4. TypeOK /\ TypeOK' /\ SequenceInv /\ PipeInv /\ [Next]_vars => PipeInv'
    <2> SUFFICES ASSUME TypeOK, TypeOK', SequenceInv, PipeInv, [Next]_vars PROVE PipeInv'
        OBVIOUS
    <2>1. CASE HostStep
        BY <2>1, HostPiped
    <2>2. CASE Receive
        BY <2>2, OwnerReadsPiped
    <2>3. CASE [ZigStep]_vars /\ ~Receive
        BY <2>3, OwnerPiped
    <2> QED BY <2>1, <2>2, <2>3 DEF Next
<1>3. SequenceInv /\ PipeInv => InStep
    BY DEF SequenceInv, PipeInv, InStep, Said, Taken, Alive
<1> QED BY <1>1, <1>2, <1>3, <1>4, TypeCorrect, PTL DEF Spec

-----------------------------------------------------------------------------
(* The theorems.                                                           *)

\* Numbers are kept from the first state on and by every step.
LEMMA NumberingHolds == Spec => []NumberingInv
<1>1. Init => NumberingInv
    BY DEF Init, Process, NumberingInv, FramesIn, FramesOut, HostNumbers, OutputsNumbered, Told,
           Untold, Replaying, Unasked
<1>2. TypeOK /\ NumberingInv /\ [Next]_vars => NumberingInv'
    <2> SUFFICES ASSUME TypeOK, NumberingInv, [Next]_vars PROVE NumberingInv'
        OBVIOUS
    <2>1. CASE HostStep
        BY <2>1, HostNumbered
    <2>2. CASE \E mode \in Modes, barrier \in 0 .. Len(facts) + 1 : StartSession(mode, barrier)
        BY <2>2, StartSessionNumbered
    <2>3. CASE \E cursor, barrier \in 0 .. Len(facts) : BeginRecovery(cursor, barrier)
        BY <2>3, BeginRecoveryNumbered
    <2>4. CASE \E last \in 1 .. Len(facts), holds \in Content : SendInput(last, holds)
        <3>1. PICK last \in 1 .. Len(facts), holds \in Content : SendInput(last, holds)
            BY <2>4
        <3>2. last \in Nat
            OBVIOUS
        <3> QED BY <3>1, <3>2, SendInputNumbered
    <2>5. CASE Receive
        BY <2>5, ReceiveNumbered
    <2>6. CASE Commit \/ CommitActivation \/ OpenGateway \/ SendActivation \/ RequestCheckpoint
               \/ Shutdown \/ Admit \/ Revoke \/ MissDeadline \/ NoticeExit \/ Kill
        BY <2>6, OtherOwnerNumbered
    <2>7. CASE UNCHANGED vars
        BY <2>7 DEF vars, NumberingInv, FramesIn, FramesOut, HostNumbers, OutputsNumbered, Told, Untold
    <2> QED BY <2>1, <2>2, <2>3, <2>4, <2>5, <2>6, <2>7 DEF Next, ZigStep
<1> QED BY <1>1, <1>2, TypeCorrect, PTL DEF Spec

\* Whatever the checkpoint, the batches and the number of restarts, an intent
\* carries the number of its fact among all that want one (apply_replay_batch).
THEOREM NumberedAsUninterrupted == Spec => []ContinuousNumbering
<1>1. NumberingInv => ContinuousNumbering
    BY CountIs DEF NumberingInv, OutputsNumbered, ContinuousNumbering
<1> QED BY <1>1, NumberingHolds, PTL

\* No recovered host answers a fact at or before its activation barrier.
THEOREM SilentBeforeActivation == Spec => []QuietUntilActivated
<1>1. NumberingInv => QuietUntilActivated
    BY DEF NumberingInv, OutputsNumbered, QuietUntilActivated
<1> QED BY <1>1, NumberingHolds, PTL

\* Authority is granted on the state at exactly the barrier that was asked for.
THEOREM ReportedAtBarrier == Spec => []RecoveredAtBarrier
<1>1. NumberingInv => RecoveredAtBarrier
    BY CountIs DEF NumberingInv, Told, AtBarrier, RecoveredAtBarrier
<1> QED BY <1>1, NumberingHolds, PTL
=============================================================================

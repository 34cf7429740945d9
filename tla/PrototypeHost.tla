---------------------------- MODULE PrototypeHost ----------------------------
(***************************************************************************)
(* The shared-memory prototype (prototypes/python-strategy-host/main.py):  *)
(* the benchmark process feeds a host process through a ring of slots and  *)
(* reads its intents, checkpoints and resynchronisation requests from      *)
(* another; and the interactive demonstration of the same state model.     *)
(*                                                                         *)
(* The processes share plain memory, with no lock: what a step of one does *)
(* between two accesses of the other is an interleaving here.  A ring read *)
(* takes two steps, because the producer may clear the ring and fill it    *)
(* again in between.  The hosts of the benchmark share nothing with one    *)
(* another but the producer's clock; one of them is modelled.              *)
(***************************************************************************)
EXTENDS Sequences, FiniteSets, HostModel

CONSTANTS
    MaxSeq,             \* total_batches
    Capacity,           \* RING_CAPACITY of the input ring
    OutCapacity,        \* RING_CAPACITY of the output ring
    CheckpointEvery,    \* the 250 batches between checkpoints
    MaxLate             \* bound: batches that are older than MAX_BATCH_AGE_NS when read

ASSUME PrototypeAssumption ==
    /\ {MaxSeq, Capacity, OutCapacity, CheckpointEvery} \subseteq Nat \ {0}
    /\ MaxLate \in Nat

VARIABLES
    mode,       \* --demo or not
    seq,        \* batches produced; the history is the batches 1 .. seq
    main,       \* the producer
    input,      \* the input ring: read and write counters and the slots
    output,     \* messages in the output ring
    child,      \* the host process
    status,     \* shared: 0 to 5
    cursor,     \* shared
    late,       \* bound: late batches so far
    sent,       \* history: identities of the intents put into the output ring
    twice,      \* history: identities put there more than once
    race        \* history: what the reader has met of the producer's clearing

past == <<sent, twice, race>>
vars == <<mode, seq, main, input, output, child, status, cursor, late, past>>
childVars == <<child, status, cursor, late, past>>

Batch(s) == [kind |-> "batch", seq |-> s, count |-> 0]
Snapshot(c) == [kind |-> "snapshot", seq |-> c.seq, count |-> c.count]
Resume(s) == [kind |-> "resume", seq |-> s, count |-> 0]
Empty == [kind |-> "empty", seq |-> 0, count |-> 0]
Garbage == [kind |-> "garbage", seq |-> 0, count |-> 0]

-----------------------------------------------------------------------------
(* The rings.                                                              *)

Full == input.write - input.read >= Capacity
put(payload) ==
    input' = [input EXCEPT !.slot[input.write % Capacity] = payload, !.write = @ + 1]
cleared == [input EXCEPT !.read = input.write]

\* What a reader copies from a slot that was rewritten under it: the old
\* bytes, the new ones, a mixture that does not decode, or the header of a
\* new snapshot with the rows of an old one.
Copies(old, new) ==
    IF old = new THEN {new}
    ELSE {old, new, Garbage}
         \cup (IF old.kind = "snapshot" /\ new.kind = "snapshot"
               THEN {[new EXCEPT !.count = old.count]} ELSE {})

-----------------------------------------------------------------------------
(* The host process.                                                       *)

Unchanged == UNCHANGED <<mode, seq, main>>
Ends(code) == child' = [child EXCEPT !.pc = "ended"] /\ status' = code

Start ==
    /\ child.pc = "start" /\ status' = 0 /\ child' = [child EXCEPT !.pc = "poll"]
    /\ Unchanged /\ UNCHANGED <<input, output, cursor, late, past>>

BeginGet ==
    /\ child.pc = "poll" /\ input.read # input.write
    /\ child' = [child EXCEPT !.pc = "got", !.read = input.read,
                              !.held = input.slot[input.read % Capacity]]
    /\ Unchanged /\ UNCHANGED <<input, output, status, cursor, late, past>>

\* What the model makes of a payload, and the messages that follow from it.
Replies(before, after, ids) ==
    (IF before.status # NeedsSnapshot /\ after.status = NeedsSnapshot
     THEN <<[kind |-> "resync", seq |-> after.last_seq, count |-> 0]>> ELSE <<>>)
    \o (IF ids = {} THEN <<>> ELSE <<[kind |-> "intent", seq |-> CHOOSE n \in ids : TRUE, count |-> 0]>>)

EndGet(payload, old) ==
    LET m == child.model
        stale == payload.kind = "batch" /\ m.status = Active /\ old
        next == CASE payload.kind = "snapshot" -> restore(m, payload.seq, payload.count)
                  [] payload.kind = "resume" -> resume(m)
                  [] OTHER -> IF stale THEN lagged(m) ELSE accept(m, payload.seq)
        ids == IF payload.kind = "batch" /\ ~stale THEN intents(m, payload.seq) ELSE {}
    IN
    /\ child.pc = "got" /\ payload \in Copies(child.held, input.slot[child.read % Capacity])
    /\ input' = [input EXCEPT !.read = child.read + 1]
    /\ old => late < MaxLate
    /\ late' = IF old THEN late + 1 ELSE late
    /\ race' = [mixed |-> race.mixed \/ payload \notin {child.held, Garbage, input.slot[child.read % Capacity]},
                behind |-> race.behind \/ child.read + 1 < input.read]
    /\ IF payload.kind = "garbage" \/ (payload.kind = "resume" /\ ~MayResume(m, payload.seq))
       THEN Ends(3)
       ELSE /\ child' = [child EXCEPT !.pc = "reply", !.model = next, !.held = Empty,
                                      !.replies = Replies(m, next, ids)]
            /\ status' = status
    /\ Unchanged /\ UNCHANGED <<output, cursor, sent, twice>>

Reply ==
    /\ child.pc = "reply" /\ child.replies # <<>>
    /\ LET message == Head(child.replies)
           id == {message.seq : k \in {message.kind} \cap {"intent"}} IN
       IF Len(output) >= OutCapacity
       THEN Ends(4) /\ UNCHANGED <<output, sent, twice>>
       ELSE /\ output' = Append(output, message)
            /\ child' = [child EXCEPT !.replies = Tail(@)]
            /\ sent' = sent \cup id /\ twice' = twice \cup (id \cap sent)
            /\ status' = status
    /\ Unchanged /\ UNCHANGED <<input, cursor, late, race>>

Code(s) == CASE s = Active -> 0 [] s = NeedsSnapshot -> 1 [] s = Recovering -> 2

PublishStatus ==
    /\ child.pc = "reply" /\ child.replies = <<>>
    /\ status' = Code(child.model.status) /\ child' = [child EXCEPT !.pc = "publish"]
    /\ Unchanged /\ UNCHANGED <<input, output, cursor, late, past>>

\* The cursor, and a checkpoint when one is due.
PublishCursor ==
    LET m == child.model  due == m.status = Active /\ m.last_seq - child.last >= CheckpointEvery IN
    /\ child.pc = "publish" /\ cursor' = m.last_seq
    /\ IF due /\ Len(output) >= OutCapacity
       THEN Ends(4) /\ output' = output
       ELSE /\ child' = [child EXCEPT !.pc = "poll", !.last = IF due THEN m.last_seq ELSE @]
            /\ output' = IF due THEN Append(output, [kind |-> "checkpoint", seq |-> snapshot(m).seq,
                                                     count |-> snapshot(m).count])
                         ELSE output
            /\ status' = status
    /\ Unchanged /\ UNCHANGED <<input, late, past>>

\* stop is set once the benchmark is over.
Stop ==
    /\ child.pc = "poll" /\ main.pc \in {"converged", "failed"} /\ Ends(3)
    /\ Unchanged /\ UNCHANGED <<input, output, cursor, late, past>>

Child ==
    \/ Start \/ BeginGet \/ Reply \/ PublishStatus \/ PublishCursor \/ Stop
    \/ \E payload \in Copies(child.held, input.slot[child.read % Capacity]), old \in BOOLEAN :
          EndGet(payload, old)

-----------------------------------------------------------------------------
(* The producer.                                                           *)

Elsewhere == UNCHANGED <<mode, childVars>>

\* Once the host has started, the next batch joins the history before the host
\* is served.
Produce ==
    /\ mode = "benchmark" /\ main.pc = "idle" /\ status # 5 /\ seq < MaxSeq
    /\ seq' = seq + 1 /\ main' = [main EXCEPT !.pc = "drain"]
    /\ Elsewhere /\ UNCHANGED <<input, output>>

\* A resynchronisation request that arrives during a recovery is dropped.
recoveryEarly(m) ==
    [m EXCEPT !.pending = @ \o <<Snapshot(m.checkpoint), Resume(m.checkpoint.seq)>>
                            \o [i \in 1 .. seq - m.checkpoint.seq |-> Batch(m.checkpoint.seq + i)],
              !.recovering = TRUE, !.barrier = seq, !.resyncs = @ + 1]
recovery(m) ==
    [m EXCEPT !.pending = @ \o <<Snapshot(m.checkpoint)>>
                            \o [i \in 1 .. seq - m.checkpoint.seq |-> Batch(m.checkpoint.seq + i)]
                            \o <<Resume(seq)>>,
              !.recovering = TRUE, !.barrier = seq, !.resyncs = @ + 1]
drain ==
    LET message == Head(output) IN
    /\ main.pc \in {"drain", "finish"} /\ output # <<>> /\ output' = Tail(output)
    /\ IF message.kind = "intent"
       THEN /\ main' = IF message.seq \in main.ids THEN [main EXCEPT !.pc = "failed"]
                       ELSE [main EXCEPT !.ids = @ \cup {message.seq}]
            /\ input' = input
       ELSE IF message.kind = "checkpoint"
       THEN /\ main' = [main EXCEPT !.checkpoint = [seq |-> message.seq, count |-> message.count]]
            /\ input' = input
       ELSE IF main.recovering THEN UNCHANGED <<main, input>>
       ELSE main' = recovery(main) /\ input' = cleared
    /\ Elsewhere /\ UNCHANGED seq

\* The last look found nothing; what the host puts into the output ring from
\* here on waits for the next turn.
Drained ==
    /\ main.pc \in {"drain", "finish"} /\ output = <<>>
    /\ main' = [main EXCEPT !.pc = IF @ = "drain" THEN "feed" ELSE "closing"]
    /\ Elsewhere /\ UNCHANGED <<seq, input, output>>

\* The current batch goes to the ring, or behind the recovery.
FeedForgets ==
    /\ main.pc = "feed"
    /\ main' = [main EXCEPT !.pc = IF main.recovering THEN "flush" ELSE "idle",
                            !.dropped = IF ~main.recovering /\ Full THEN @ \cup {seq} ELSE @]
    /\ IF main.recovering \/ Full THEN input' = input ELSE put(Batch(seq))
    /\ Elsewhere /\ UNCHANGED <<seq, output>>
Feed ==
    /\ main.pc = "feed"
    /\ IF main.recovering
       THEN /\ main' = [main EXCEPT !.pc = "flush",
                                    !.pending = IF seq > main.barrier THEN Append(@, Batch(seq)) ELSE @]
            /\ input' = input
       ELSE IF Full
       THEN main' = [main EXCEPT !.pc = "idle", !.dropped = @ \cup {seq}] /\ input' = input
       ELSE main' = [main EXCEPT !.pc = "idle"] /\ put(Batch(seq))
    /\ Elsewhere /\ UNCHANGED <<seq, output>>

Flush ==
    /\ main.pc \in {"flush", "closing"} /\ main.pending # <<>> /\ ~Full
    /\ put(Head(main.pending)) /\ main' = [main EXCEPT !.pending = Tail(@)]
    /\ Elsewhere /\ UNCHANGED <<seq, output>>

\* The status the host wrote last decides that the recovery is over.
FlushDone ==
    /\ main.pc = "flush" /\ (main.pending = <<>> \/ Full)
    /\ main' = IF main.pending = <<>> /\ status = 0
               THEN [main EXCEPT !.pc = "idle", !.recovering = FALSE, !.barrier = 0]
               ELSE [main EXCEPT !.pc = "idle"]
    /\ Elsewhere /\ UNCHANGED <<seq, input, output>>

\* The last loop drains and flushes until the host has converged or five
\* seconds have passed.
Finish ==
    /\ mode = "benchmark" /\ main.pc = "idle" /\ seq = MaxSeq
    /\ main' = [main EXCEPT !.pc = "finish"]
    /\ Elsewhere /\ UNCHANGED <<seq, input, output>>
Converge ==
    /\ main.pc = "closing" /\ main.pending = <<>> /\ cursor = MaxSeq /\ status = 0
    /\ main' = [main EXCEPT !.pc = "converged"]
    /\ Elsewhere /\ UNCHANGED <<seq, input, output>>
Again ==
    /\ main.pc = "closing" /\ (main.pending = <<>> \/ Full)
    /\ main' = [main EXCEPT !.pc = "finish"]
    /\ Elsewhere /\ UNCHANGED <<seq, input, output>>
\* "did not converge", and before the first batch "startup timeout".
GiveUp ==
    /\ main.pc = "finish" \/ (main.pc = "idle" /\ status = 5 /\ mode = "benchmark")
    /\ main' = [main EXCEPT !.pc = "failed"]
    /\ Elsewhere /\ UNCHANGED <<seq, input, output>>

Main == Produce \/ drain \/ Drained \/ Feed \/ Flush \/ FlushDone \/ Finish \/ Converge \/ Again
        \/ GiveUp

-----------------------------------------------------------------------------
(* run_demo: the keys n, g and s.                                          *)

Demo(batches, m, checkpoint) ==
    /\ mode = "demo" /\ batches <= MaxSeq /\ seq' = batches
    /\ child' = [child EXCEPT !.model = m]
    /\ main' = [main EXCEPT !.checkpoint = checkpoint]
    /\ UNCHANGED <<mode, input, output, status, cursor, late, past>>
DemoNext ==
    LET m == accept(child.model, seq + 1) IN
    Demo(seq + 1, m, IF m.status = Active THEN snapshot(m) ELSE main.checkpoint)
DemoGap == Demo(seq + 2, accept(child.model, seq + 2), main.checkpoint)
replayed(c) ==
    LET m[s \in c.seq .. seq] == IF s = c.seq THEN restore(child.model, c.seq, c.count)
                                 ELSE accept(m[s - 1], s)
    IN  m[seq]
DemoRecover ==
    /\ child.model.status = NeedsSnapshot /\ MayResume(replayed(main.checkpoint), seq)
    /\ Demo(seq, resume(replayed(main.checkpoint)), main.checkpoint)

Init ==
    /\ mode \in {"benchmark", "demo"} /\ seq = 0 /\ output = <<>> /\ cursor = 0 /\ late = 0
    /\ status = 5 /\ sent = {} /\ twice = {} /\ race = [mixed |-> FALSE, behind |-> FALSE]
    /\ main = [pc |-> "idle", pending |-> <<>>, recovering |-> FALSE, barrier |-> 0,
               checkpoint |-> [seq |-> 0, count |-> 0], dropped |-> {}, resyncs |-> 0, ids |-> {}]
    /\ input = [read |-> 0, write |-> 0, slot |-> [i \in 0 .. Capacity - 1 |-> Empty]]
    /\ child = [pc |-> "start", model |-> InitModel, last |-> 0, read |-> 0, held |-> Empty,
                replies |-> <<>>]

Next == (mode = "benchmark" /\ (Child \/ Main)) \/ DemoNext \/ DemoGap \/ DemoRecover
Spec == Init /\ [][Next]_vars

-----------------------------------------------------------------------------
(* Properties.                                                             *)

\* The private state of a strategy is a function of the batches up to its
\* cursor, whatever was dropped, replayed, cleared or read again; so is the
\* checkpoint a recovery starts from, and it is in the history.  One thing can
\* make it false: a snapshot copied while a newer one is written over it.
CountsTrue ==
    /\ ~race.mixed => /\ child.model.count = child.model.last_seq
                      /\ main.checkpoint.count = main.checkpoint.seq
    /\ main.checkpoint.seq <= seq

\* No identity is ever issued twice (drain raises RuntimeError when one is),
\* although a recovery replays batches the host has already answered: unless
\* the reader has stored its counter behind the place the producer had cleared
\* the ring to, and so reads a recovery twice, or counts from a mixed snapshot.
NeverTwice == ~race.behind /\ ~race.mixed => twice = {}

\* A host that is active and idle, with nothing on the way to it, misses a
\* batch only if every batch it misses was dropped at a full ring: a loss in
\* the middle is always noticed.
NothingLostQuietly ==
    LET idle == child.pc = "poll" /\ main.pc = "idle" /\ ~main.recovering /\ main.pending = <<>>
                /\ output = <<>> /\ input.read = input.write IN
    mode = "benchmark" /\ idle /\ child.model.status = Active
        => (child.model.last_seq + 1) .. seq \subseteq main.dropped
=============================================================================

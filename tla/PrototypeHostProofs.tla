------------------------- MODULE PrototypeHostProofs -------------------------
(***************************************************************************)
(* What holds of the prototype for every ring, every number of batches and *)
(* every pace of its two processes.  Three invariants, inductive together  *)
(* with the types and with what is said of the rings and of the queue:     *)
(*                                                                         *)
(*   Sizes    what is counted equals what was delivered, and nothing is    *)
(*            ahead of the history (CountsTrue);                           *)
(*   Covered  whatever the host still misses is on its way to it, or was   *)
(*            dropped, or a snapshot that is on its way replaces it        *)
(*            (NothingLostQuietly);                                        *)
(*   Order    the barrier of a recovery that is on its way is behind every *)
(*            answer the host has given, and a host that is active meets   *)
(*            its snapshot first (NeverTwice).                             *)
(*                                                                         *)
(* The demonstration replays batches by recursion and stays with TLC: the  *)
(* theorems about counts and losses are about the benchmark.               *)
(***************************************************************************)
EXTENDS PrototypeHost, TLAPS, SequenceTheorems

Payload == [kind : {"batch", "snapshot", "resume", "empty", "garbage"}, seq : Nat, count : Nat]
Message == [kind : {"resync", "intent", "checkpoint"}, seq : Nat, count : Nat]

Producers ==
    [pc : {"idle", "drain", "feed", "flush", "finish", "closing", "converged", "failed"}, pending : Seq(Payload),
     recovering : BOOLEAN, barrier : Nat, checkpoint : [seq : Nat, count : Nat],
     dropped : SUBSET Nat, resyncs : Nat, ids : SUBSET Nat]
Rings == [read : Nat, write : Nat, slot : [0 .. Capacity - 1 -> Payload]]
Hosts ==
    [pc : {"start", "poll", "got", "reply", "publish", "ended"}, model : Model, last : Nat,
     read : Nat, held : Payload, replies : Seq(Message)]
Races == [mixed : BOOLEAN, behind : BOOLEAN]

TypeOK ==
    /\ mode \in {"benchmark", "demo"} /\ seq \in Nat
    /\ main \in Producers /\ input \in Rings /\ output \in Seq(Message) /\ child \in Hosts
    /\ status \in 0 .. 5 /\ cursor \in Nat /\ late \in Nat
    /\ sent \in SUBSET Nat /\ twice \in SUBSET Nat /\ race \in Races

-----------------------------------------------------------------------------
(* The rings and the queue.                                                *)

At(i) == input.slot[i % Capacity]

\* What the producer has cleared while the reader held its old counter.
Overtaken == child.pc = "got" /\ child.read # input.read

Ring ==
    /\ input.read <= input.write
    /\ child.pc = "got" =>
          /\ child.read <= input.read /\ child.read < input.write
          /\ child.read = input.read => child.held = At(child.read)
          /\ child.held = At(child.read) \/ child.read + Capacity < input.write

Queue ==
    /\ seq <= MaxSeq
    /\ main.pc \in {"finish", "closing"} => seq = MaxSeq
    /\ ~main.recovering => main.pending = <<>>
    /\ main.pc = "flush" => main.recovering
    /\ main.recovering => main.barrier <= seq
    /\ \A k \in 1 .. Len(main.pending) : main.pending[k].kind = "snapshot" => k = 1

-----------------------------------------------------------------------------
(* Sizes.                                                                  *)

Whole(p) == p.kind \in {"snapshot", "checkpoint"} => p.count = p.seq

Counted ==
    ~race.mixed =>
        /\ child.model.count = child.model.last_seq
        /\ main.checkpoint.count = main.checkpoint.seq
        /\ Whole(child.held)
        /\ \A k \in 1 .. Len(main.pending) : Whole(main.pending[k])
        /\ \A i \in 0 .. Capacity - 1 : Whole(input.slot[i])
        /\ \A k \in 1 .. Len(output) : Whole(output[k])

Within(n) ==
    /\ child.model.last_seq <= n /\ main.checkpoint.seq <= n /\ child.held.seq <= n
    /\ \A k \in 1 .. Len(main.pending) : main.pending[k].seq <= n
    /\ \A i \in 0 .. Capacity - 1 : input.slot[i].seq <= n
    /\ \A k \in 1 .. Len(output) : output[k].kind = "checkpoint" => output[k].seq <= n

Limits ==
    /\ Within(seq)
    /\ main.pc \in {"drain", "feed"} /\ ~main.recovering => seq >= 1 /\ Within(seq - 1)

\* Checkpoints are not among the replies.
NoReplyCounts == \A k \in 1 .. Len(child.replies) : child.replies[k].kind # "checkpoint"

Sizes == Counted /\ Limits /\ NoReplyCounts

-----------------------------------------------------------------------------
(* Covered.                                                                *)

\* The places of the ring that are unread and still hold what was put there.
Ahead == {i \in input.read .. input.write - 1 : input.write <= i + Capacity}

\* A snapshot, or batch n, that the host will meet at place p of the ring or later.
SnapshotFrom(p) ==
    \/ \E i \in Ahead : p <= i /\ At(i).kind = "snapshot"
    \/ \E k \in 1 .. Len(main.pending) : main.pending[k].kind = "snapshot"
Unfed(n) == main.pc \in {"drain", "feed"} /\ n = seq /\ (main.recovering => main.barrier < seq)
Comes(n, p) ==
    \/ n \in main.dropped \/ Unfed(n)
    \/ \E i \in Ahead : p <= i /\ At(i) = Batch(n)
    \/ \E k \in 1 .. Len(main.pending) : main.pending[k] = Batch(n)
ComesAfter(s, p) == \A n \in s + 1 .. seq : Comes(n, p)

Coverage ==
    /\ child.pc # "ended" /\ child.model.status # NeedsSnapshot
          => SnapshotFrom(input.read) \/ ComesAfter(child.model.last_seq, input.read)
    /\ \A i \in Ahead : At(i).kind = "snapshot"
          => SnapshotFrom(i + 1) \/ ComesAfter(At(i).seq, i + 1)
    /\ \A k \in 1 .. Len(main.pending) : main.pending[k].kind = "snapshot"
          => ComesAfter(main.pending[k].seq, input.write)
    /\ Overtaken => SnapshotFrom(input.read)
    /\ input.write - input.read > Capacity => SnapshotFrom(input.read)

\* A producer that has failed feeds nobody.
Covered == main.pc # "failed" => Coverage

-----------------------------------------------------------------------------
(* Order.                                                                  *)

Issued == sent \cup {child.replies[k].seq : k \in {l \in 1 .. Len(child.replies) :
                                                     child.replies[l].kind = "intent"}}

\* The barriers of the recoveries that are on their way.
Resumes(i) == i \in input.read .. input.write - 1 /\ At(i).kind = "resume"
Queued(k) == k \in 1 .. Len(main.pending) /\ main.pending[k].kind = "resume"
Barrier(b) == (\E i \in Nat : Resumes(i) /\ At(i).seq = b)
              \/ (\E k \in Nat : Queued(k) /\ main.pending[k].seq = b)

\* The next thing the ring will give is a snapshot.
SnapshotNext ==
    IF input.read < input.write THEN At(input.read).kind = "snapshot"
    ELSE main.pending # <<>> /\ main.pending[1].kind = "snapshot"

OneBarrier ==
    /\ \A i, j \in Nat : Resumes(i) /\ Resumes(j) => i = j
    /\ \A k, l \in Nat : Queued(k) /\ Queued(l) => k = l
    /\ \A i, k \in Nat : ~(Resumes(i) /\ Queued(k))

Answers ==
    /\ twice = {}
    /\ \A n \in Issued : n <= seq
    /\ child.model.status = Active => \A n \in Issued : n <= child.model.last_seq
    /\ \A b \in Nat : Barrier(b) => \A n \in Issued : n <= b
    /\ child.pc = "got" /\ child.held.kind = "resume" => \A n \in Issued : n <= child.held.seq
    /\ child.pc \in {"start", "poll", "got", "publish"} => child.replies = <<>>
    /\ \A k \in 1 .. Len(child.replies) : child.replies[k].kind = "intent"
          => k = Len(child.replies) /\ child.replies[k].seq \notin sent

Ordered ==
    /\ input.write <= input.read + Capacity
    /\ OneBarrier
    /\ child.pc # "ended" /\ child.model.status = Active /\ (\E b \in Nat : Barrier(b)) => SnapshotNext
    /\ Overtaken => /\ SnapshotNext
                    /\ \A b \in Nat : Barrier(b) => child.model.last_seq < b \/ b = MaxSeq
    /\ Answers

\* Nothing is said of a reader that has stored its counter behind the clearing,
\* or has taken a mixed snapshot.
Order == ~race.behind /\ ~race.mixed => Ordered

BInv ==
    /\ mode = "benchmark" /\ TypeOK /\ Ring /\ Queue /\ Sizes /\ Covered /\ Order

\* The inductive invariant: the demonstration sends nothing.
IInv == (mode = "demo" /\ twice = {}) \/ BInv

-----------------------------------------------------------------------------
(* The fields of the state.                                                *)

LEMMA Fields ==
    ASSUME TypeOK
    PROVE  /\ seq \in Nat
           /\ main.pc \in {"idle", "drain", "feed", "flush", "finish", "closing", "converged", "failed"}
           /\ main.pending \in Seq(Payload) /\ main.recovering \in BOOLEAN /\ main.barrier \in Nat
           /\ main.checkpoint \in [seq : Nat, count : Nat]
           /\ main.checkpoint.seq \in Nat /\ main.checkpoint.count \in Nat
           /\ main.dropped \in SUBSET Nat
           /\ input.read \in Nat /\ input.write \in Nat
           /\ input.slot \in [0 .. Capacity - 1 -> Payload]
           /\ output \in Seq(Message)
           /\ child.pc \in {"start", "poll", "got", "reply", "publish", "ended"}
           /\ child.model \in Model /\ child.read \in Nat /\ child.held \in Payload
           /\ child.model.status \in {Active, NeedsSnapshot, Recovering}
           /\ child.model.last_seq \in Nat /\ child.model.count \in Nat
           /\ child.replies \in Seq(Message)
           /\ race.mixed \in BOOLEAN /\ race.behind \in BOOLEAN
           /\ Capacity \in Nat /\ Capacity > 0 /\ MaxSeq \in Nat
           /\ sent \in SUBSET Nat /\ twice \in SUBSET Nat
<1>1. /\ main \in Producers /\ input \in Rings /\ child \in Hosts /\ race \in Races
      /\ seq \in Nat /\ output \in Seq(Message) /\ sent \in SUBSET Nat /\ twice \in SUBSET Nat
  BY DEF TypeOK
<1>2. /\ main.pc \in {"idle", "drain", "feed", "flush", "finish", "closing", "converged", "failed"}
      /\ main.pending \in Seq(Payload) /\ main.recovering \in BOOLEAN /\ main.barrier \in Nat
      /\ main.checkpoint \in [seq : Nat, count : Nat] /\ main.dropped \in SUBSET Nat
  BY <1>1 DEF Producers
<1>3. main.checkpoint.seq \in Nat /\ main.checkpoint.count \in Nat
  BY <1>2
<1>4. /\ child.pc \in {"start", "poll", "got", "reply", "publish", "ended"}
      /\ child.model \in Model /\ child.read \in Nat /\ child.held \in Payload
      /\ child.replies \in Seq(Message)
  BY <1>1 DEF Hosts
<1>5. /\ child.model.status \in {Active, NeedsSnapshot, Recovering}
      /\ child.model.last_seq \in Nat /\ child.model.count \in Nat
  BY <1>4 DEF Model
<1>6. /\ input.read \in Nat /\ input.write \in Nat /\ input.slot \in [0 .. Capacity - 1 -> Payload]
  BY <1>1 DEF Rings
<1>7. race.mixed \in BOOLEAN /\ race.behind \in BOOLEAN
  BY <1>1 DEF Races
<1>8. Capacity \in Nat /\ Capacity > 0 /\ MaxSeq \in Nat
  BY PrototypeAssumption
<1> QED BY <1>1, <1>2, <1>3, <1>4, <1>5, <1>6, <1>7, <1>8

-----------------------------------------------------------------------------
(* The places of the ring.                                                 *)

\* A place of the ring is one of its slots.
LEMMA PlaceIsSlot ==
    ASSUME NEW i \in Nat
    PROVE  i % Capacity \in 0 .. Capacity - 1
BY PrototypeAssumption

\* Two places less than a round apart are different slots.
LEMMA PlacesApart ==
    ASSUME NEW i \in Nat, NEW j \in Nat, i < j, j < i + Capacity
    PROVE  i % Capacity # j % Capacity
<1> DEFINE a == i \div Capacity
           b == j \div Capacity
<1>1. Capacity \in Nat /\ Capacity > 0
  BY PrototypeAssumption
<1>2. a \in Int /\ b \in Int /\ i = Capacity * a + (i % Capacity) /\ j = Capacity * b + (j % Capacity)
  <2>1. \A k \in Nat : k \div Capacity \in Int /\ k = Capacity * (k \div Capacity) + (k % Capacity)
    BY <1>1
  <2> QED BY <2>1
<1>3. SUFFICES ASSUME i % Capacity = j % Capacity PROVE FALSE
  OBVIOUS
<1> HIDE DEF a, b
<1>4. Capacity * b - Capacity * a = j - i
  BY <1>1, <1>2, <1>3
<1>5. b - a \in Int /\ Capacity * (b - a) = j - i
  BY <1>1, <1>2, <1>4
<1>6. CASE b - a <= 0
  <2>1. Capacity * (b - a) <= 0
    BY <1>1, <1>5, <1>6
  <2> QED BY <2>1, <1>5
<1>7. CASE b - a >= 1
  <2>1. Capacity * (b - a) >= Capacity
    BY <1>1, <1>5, <1>7
  <2> QED BY <2>1, <1>5, <1>1
<1> QED BY <1>5, <1>6, <1>7

\* A put writes the next place and leaves the places of the last round alone.
LEMMA PutWrites ==
    ASSUME TypeOK, NEW p \in Payload, put(p)
    PROVE  /\ input'.read = input.read /\ input'.write = input.write + 1
           /\ \A i \in Nat : i = input.write => At(i)' = p
           /\ \A i \in Nat : i < input.write /\ input.write < i + Capacity => At(i)' = At(i)
           /\ \A s \in 0 .. Capacity - 1 : input'.slot[s] \in {p, input.slot[s]}
           /\ input' \in Rings
<1> DEFINE w == input.write % Capacity
<1>1. /\ input.read \in Nat /\ input.write \in Nat
      /\ input.slot \in [0 .. Capacity - 1 -> Payload]
      /\ input \in Rings
  BY DEF TypeOK, Rings
<1>2. w \in 0 .. Capacity - 1
  BY <1>1, PlaceIsSlot
<1>3. input' = [input EXCEPT !.slot[w] = p, !.write = @ + 1]
  BY DEF put
<1>a. \A i \in Nat : i = input.write => i % Capacity = w
  OBVIOUS
<1>b. \A i \in Nat : i < input.write /\ input.write < i + Capacity
                     => i % Capacity # w /\ i % Capacity \in 0 .. Capacity - 1
  BY <1>1, PlacesApart, PlaceIsSlot
<1> HIDE DEF w
<1>4. /\ input'.read = input.read /\ input'.write = input.write + 1
      /\ input'.slot = [input.slot EXCEPT ![w] = p]
      /\ input' \in Rings
  <2>1. input' = [read |-> input.read, write |-> input.write + 1, slot |-> [input.slot EXCEPT ![w] = p]]
    BY <1>1, <1>3 DEF Rings
  <2>2. [input.slot EXCEPT ![w] = p] \in [0 .. Capacity - 1 -> Payload]
    BY <1>1, <1>2
  <2> QED BY <1>1, <2>1, <2>2 DEF Rings
<1>5. \A i \in Nat : i = input.write => At(i)' = p
  BY <1>1, <1>2, <1>4, <1>a DEF At
<1>6. \A i \in Nat : i < input.write /\ input.write < i + Capacity => At(i)' = At(i)
  BY <1>1, <1>4, <1>b DEF At
<1>7. \A s \in 0 .. Capacity - 1 : input'.slot[s] \in {p, input.slot[s]}
  BY <1>1, <1>2, <1>4
<1> QED BY <1>4, <1>5, <1>6, <1>7

-----------------------------------------------------------------------------
(* The types.                                                              *)

LEMMA ModelOperators ==
    ASSUME NEW m \in Model, NEW s \in Nat, NEW c \in Nat
    PROVE  /\ accept(m, s) \in Model /\ restore(m, s, c) \in Model
           /\ resume(m) \in Model /\ lagged(m) \in Model
           /\ intents(m, s) \in SUBSET Nat
<1>1. m.status \in {Active, NeedsSnapshot, Recovering} /\ m.last_seq \in Nat /\ m.count \in Nat
  BY DEF Model
<1>2. restore(m, s, c) \in Model /\ resume(m) \in Model /\ lagged(m) \in Model
  BY <1>1 DEF restore, resume, lagged, Model
<1>3. accept(m, s) \in Model
  <2>1. CASE m.status = NeedsSnapshot
    BY <2>1 DEF accept
  <2>2. CASE m.status # NeedsSnapshot /\ s # m.last_seq + 1
    <3>1. accept(m, s) = lagged(m)
      BY <2>2 DEF accept, lagged
    <3> QED BY <1>2, <3>1
  <2>3. CASE m.status # NeedsSnapshot /\ s = m.last_seq + 1
    <3>1. accept(m, s) = [[m EXCEPT !.count = m.count + 1] EXCEPT !.last_seq = s]
      BY <2>3 DEF accept
    <3>2. [m EXCEPT !.count = m.count + 1] \in Model
      BY <1>1 DEF Model
    <3> HIDE DEF Model
    <3> QED BY <1>1, <3>1, <3>2 DEF Model
  <2> QED BY <2>1, <2>2, <2>3
<1>4. intents(m, s) \in SUBSET Nat
  BY <1>1 DEF intents
<1> QED BY <1>2, <1>3, <1>4

\* What comes out of a recovery is a queue of payloads.
LEMMA RecoveryQueue ==
    ASSUME TypeOK, main.pending = <<>>, main.checkpoint.seq <= seq
    PROVE  LET c == main.checkpoint.seq
               q == recovery(main).pending IN
           /\ q \in Seq(Payload) /\ Len(q) = seq - c + 2
           /\ q[1] = Snapshot(main.checkpoint) /\ q[Len(q)] = Resume(seq)
           /\ \A k \in 2 .. seq - c + 1 : q[k] = Batch(c + k - 1)
<1> DEFINE c == main.checkpoint.seq
           d == seq - c
           bs == [i \in 1 .. d |-> Batch(c + i)]
<1>1. c \in Nat /\ d \in Nat /\ seq \in Nat /\ Snapshot(main.checkpoint) \in Payload /\ Resume(seq) \in Payload
  BY DEF TypeOK, Producers, Payload, Snapshot, Resume
<1>2. \A i \in 1 .. d : Batch(c + i) \in Payload
  BY <1>1 DEF Batch, Payload
<1>3. bs \in Seq(Payload) /\ Len(bs) = d /\ \A i \in 1 .. d : bs[i] = Batch(c + i)
  BY <1>1, <1>2
<1>4. recovery(main).pending = <<>> \o <<Snapshot(main.checkpoint)>> \o bs \o <<Resume(seq)>>
  BY <1>1 DEF recovery, TypeOK, Producers
<1> HIDE DEF bs, d, c
<1> DEFINE q == <<>> \o <<Snapshot(main.checkpoint)>> \o bs \o <<Resume(seq)>>
<1>5. q \in Seq(Payload) /\ Len(q) = d + 2
  BY <1>1, <1>3
<1>6. q[1] = Snapshot(main.checkpoint) /\ q[d + 2] = Resume(seq)
  BY <1>1, <1>3
<1>7. \A k \in 2 .. d + 1 : q[k] = bs[k - 1]
  BY <1>1, <1>3
<1>8. \A k \in 2 .. d + 1 : q[k] = Batch(c + k - 1)
  BY <1>1, <1>3, <1>7
<1> HIDE DEF q
<1> QED BY <1>1, <1>4, <1>5, <1>6, <1>8 DEF q, c, d

\* The replies to a payload are messages.
LEMMA ReplyTypes ==
    ASSUME NEW m \in Model, NEW next \in Model, NEW ids \in SUBSET Nat
    PROVE  Replies(m, next, ids) \in Seq(Message)
<1> DEFINE resync == [kind |-> "resync", seq |-> next.last_seq, count |-> 0]
           intent == [kind |-> "intent", seq |-> CHOOSE n \in ids : TRUE, count |-> 0]
<1>1. resync \in Message
  BY DEF Message, Model
<1>2. ids # {} => intent \in Message
  <2>1. ids # {} => (CHOOSE n \in ids : TRUE) \in Nat
    OBVIOUS
  <2> QED BY <2>1 DEF Message
<1> HIDE DEF resync, intent
<1>3. Replies(m, next, ids)
        = (IF m.status # NeedsSnapshot /\ next.status = NeedsSnapshot THEN <<resync>> ELSE <<>>)
          \o (IF ids = {} THEN <<>> ELSE <<intent>>)
  BY DEF Replies, resync, intent
<1>4. CASE ids = {}
  BY <1>1, <1>3, <1>4
<1>5. CASE ids # {}
  BY <1>1, <1>2, <1>3, <1>5
<1> QED BY <1>4, <1>5

\* A copy is a payload, and is the held one, the one in the slot, or a mixture.
LEMMA CopyTypes ==
    ASSUME NEW a \in Payload, NEW b \in Payload, NEW p \in Copies(a, b)
    PROVE  /\ p \in Payload
           /\ \/ p \in {a, b}
              \/ p = Garbage
              \/ p.kind = "snapshot" /\ p = [b EXCEPT !.count = a.count] /\ p.seq = b.seq
<1>1. Garbage \in Payload
  BY DEF Garbage, Payload
<1>2. [b EXCEPT !.count = a.count] \in Payload /\ [b EXCEPT !.count = a.count].seq = b.seq
      /\ [b EXCEPT !.count = a.count].kind = b.kind
  BY DEF Payload
<1>3. p \in {a, b, Garbage} \/ (b.kind = "snapshot" /\ p = [b EXCEPT !.count = a.count])
  BY DEF Copies
<1> QED BY <1>1, <1>2, <1>3

\* The types after each step of the host.
LEMMA StartTypes == TypeOK /\ Start => TypeOK'
<1> SUFFICES ASSUME TypeOK, Start PROVE TypeOK'
  OBVIOUS
<1>1. child' = [child EXCEPT !.pc = "poll"] /\ status' = 0
      /\ UNCHANGED <<mode, seq, main, input, output, cursor, late, sent, twice, race>>
  BY DEF Start, Unchanged, past
<1>2. child' \in Hosts
  BY <1>1 DEF TypeOK, Hosts
<1> QED BY <1>1, <1>2 DEF TypeOK

\* So for the first half of a get.
LEMMA BeginGetTypes == TypeOK /\ BeginGet => TypeOK'
<1> SUFFICES ASSUME TypeOK, BeginGet PROVE TypeOK'
  OBVIOUS
<1>1. input.slot[input.read % Capacity] \in Payload /\ input.read \in Nat
  BY PlaceIsSlot, Fields
<1>2. child' = [child EXCEPT !.pc = "got", !.read = input.read,
                             !.held = input.slot[input.read % Capacity]]
      /\ UNCHANGED <<mode, seq, main, input, output, status, cursor, late, sent, twice, race>>
  BY DEF BeginGet, Unchanged, past
<1>3. child' \in Hosts
  BY <1>1, <1>2 DEF TypeOK, Hosts
<1> QED BY <1>2, <1>3 DEF TypeOK

\* What the child makes of a payload.
After(p, old) ==
    LET m == child.model IN
    CASE p.kind = "snapshot" -> restore(m, p.seq, p.count)
      [] p.kind = "resume" -> resume(m)
      [] OTHER -> IF p.kind = "batch" /\ m.status = Active /\ old THEN lagged(m) ELSE accept(m, p.seq)
Answer(p, old) ==
    IF p.kind = "batch" /\ ~(child.model.status = Active /\ old)
    THEN intents(child.model, p.seq) ELSE {}

\* The second half of a get, with the cases of the payload named.
LEMMA EndGetSteps ==
    ASSUME TypeOK, NEW p, NEW old \in BOOLEAN, EndGet(p, old)
    PROVE  /\ p \in Payload /\ p \in Copies(child.held, At(child.read)) /\ At(child.read) \in Payload
           /\ child.pc = "got" /\ child.held \in Payload
           /\ After(p, old) \in Model /\ Answer(p, old) \in SUBSET Nat
           /\ \/ child' = [child EXCEPT !.pc = "ended"]
              \/ /\ p.kind = "resume" => MayResume(child.model, p.seq)
                 /\ p.kind # "garbage"
                 /\ child' = [child EXCEPT !.pc = "reply", !.model = After(p, old), !.held = Empty,
                                           !.replies = Replies(child.model, After(p, old), Answer(p, old))]
           /\ input' = [input EXCEPT !.read = child.read + 1]
           /\ UNCHANGED <<mode, seq, main, output, cursor, sent, twice>>
           /\ race' = [mixed |-> race.mixed \/ p \notin {child.held, Garbage, At(child.read)},
                       behind |-> race.behind \/ child.read + 1 < input.read]
<1>1. child.read \in Nat /\ child.held \in Payload /\ child.model \in Model
      /\ input.slot[child.read % Capacity] \in Payload
  BY PlaceIsSlot, Fields
<1>2. p \in Copies(child.held, input.slot[child.read % Capacity]) /\ child.pc = "got"
  BY DEF EndGet
<1>3. p \in Payload
  BY <1>1, <1>2, CopyTypes
<1>4. p.seq \in Nat /\ p.count \in Nat
  BY <1>3 DEF Payload
<1>5. After(p, old) \in Model /\ Answer(p, old) \in SUBSET Nat
  BY <1>1, <1>4, ModelOperators DEF After, Answer
<1>6. \/ child' = [child EXCEPT !.pc = "ended"]
      \/ /\ p.kind = "resume" => MayResume(child.model, p.seq)
         /\ p.kind # "garbage"
         /\ child' = [child EXCEPT !.pc = "reply", !.model = After(p, old), !.held = Empty,
                                   !.replies = Replies(child.model, After(p, old), Answer(p, old))]
  <2>1. CASE p.kind = "garbage" \/ (p.kind = "resume" /\ ~MayResume(child.model, p.seq))
    BY <2>1 DEF EndGet, Ends
  <2>2. CASE ~(p.kind = "garbage" \/ (p.kind = "resume" /\ ~MayResume(child.model, p.seq)))
    <3>1. child' = [child EXCEPT !.pc = "reply", !.model = After(p, old), !.held = Empty,
                                 !.replies = Replies(child.model, After(p, old), Answer(p, old))]
      <4> DEFINE stale == p.kind = "batch" /\ child.model.status = Active /\ old
      <4>1. (IF p.kind = "batch" /\ ~stale THEN intents(child.model, p.seq) ELSE {}) = Answer(p, old)
        BY DEF Answer
      <4> QED BY <2>2, <4>1 DEF EndGet, After
    <3> QED BY <2>2, <3>1
  <2> QED BY <2>1, <2>2
<1>7. /\ input' = [input EXCEPT !.read = child.read + 1]
      /\ UNCHANGED <<mode, seq, main, output, cursor, sent, twice>>
      /\ race' = [mixed |-> race.mixed \/ p \notin {child.held, Garbage, At(child.read)},
                  behind |-> race.behind \/ child.read + 1 < input.read]
  BY DEF EndGet, Unchanged, At
<1> QED BY <1>1, <1>2, <1>3, <1>5, <1>6, <1>7 DEF At

\* The types after the second half of a get.
LEMMA EndGetTypes ==
    ASSUME TypeOK, NEW p, NEW old \in BOOLEAN, EndGet(p, old)
    PROVE  TypeOK'
<1>1. /\ After(p, old) \in Model /\ Answer(p, old) \in SUBSET Nat
      /\ \/ child' = [child EXCEPT !.pc = "ended"]
         \/ child' = [child EXCEPT !.pc = "reply", !.model = After(p, old), !.held = Empty,
                                   !.replies = Replies(child.model, After(p, old), Answer(p, old))]
      /\ input' = [input EXCEPT !.read = child.read + 1]
      /\ UNCHANGED <<mode, seq, main, output, cursor, sent, twice>>
      /\ race' = [mixed |-> race.mixed \/ p \notin {child.held, Garbage, At(child.read)},
                  behind |-> race.behind \/ child.read + 1 < input.read]
  BY EndGetSteps
<1>2. child.read \in Nat /\ child.model \in Model /\ race.mixed \in BOOLEAN /\ race.behind \in BOOLEAN
  BY Fields
<1>3. Replies(child.model, After(p, old), Answer(p, old)) \in Seq(Message)
  BY <1>1, <1>2, ReplyTypes
<1>4. Empty \in Payload
  BY DEF Empty, Payload
<1>5. child' \in Hosts
  BY <1>1, <1>3, <1>4 DEF TypeOK, Hosts
<1>6. input' \in Rings
  BY <1>1, <1>2 DEF TypeOK, Rings
<1>7. late' \in Nat /\ status' \in 0 .. 5
  BY DEF EndGet, TypeOK, Ends
<1>8. race' \in Races
  BY <1>1, <1>2 DEF Races
<1> QED BY <1>1, <1>5, <1>6, <1>7, <1>8 DEF TypeOK

\* A reply sends the first message, or ends the host.
LEMMA ReplyTakes ==
    ASSUME TypeOK, Reply
    PROVE  /\ child.pc = "reply" /\ child.replies # <<>> /\ Head(child.replies) \in Message
           /\ UNCHANGED <<mode, seq, main, input, cursor, late, race>>
           /\ \/ /\ child' = [child EXCEPT !.pc = "ended"] /\ UNCHANGED <<output, sent, twice>>
                 /\ status' = 4
              \/ /\ child' = [child EXCEPT !.replies = Tail(@)]
                 /\ Tail(child.replies) \in Seq(Message)
                 /\ output' = Append(output, Head(child.replies)) /\ status' = status
                 /\ LET id == {n \in {Head(child.replies).seq} : Head(child.replies).kind = "intent"} IN
                    sent' = sent \cup id /\ twice' = twice \cup (id \cap sent)
<1>1. child.pc = "reply" /\ child.replies # <<>> /\ child.replies \in Seq(Message)
  BY Fields DEF Reply
<1>2. Head(child.replies) \in Message /\ Tail(child.replies) \in Seq(Message)
  BY <1>1
<1> DEFINE message == Head(child.replies)
           id == {message.seq : k \in {message.kind} \cap {"intent"}}
           at == {n \in {message.seq} : message.kind = "intent"}
<1>3. id = at
  OBVIOUS
<1>4. UNCHANGED <<mode, seq, main, input, cursor, late, race>>
  BY DEF Reply, Unchanged
<1>5. CASE Len(output) >= OutCapacity
  BY <1>1, <1>2, <1>4, <1>5 DEF Reply, Ends
<1>6. CASE ~(Len(output) >= OutCapacity)
  <2>1. /\ output' = Append(output, message) /\ child' = [child EXCEPT !.replies = Tail(@)]
        /\ sent' = sent \cup id /\ twice' = twice \cup (id \cap sent) /\ status' = status
    BY <1>6 DEF Reply
  <2> QED BY <1>1, <1>2, <1>3, <1>4, <2>1
<1> QED BY <1>5, <1>6

\* The types after a reply.
LEMMA ReplyStepTypes == TypeOK /\ Reply => TypeOK'
<1> SUFFICES ASSUME TypeOK, Reply PROVE TypeOK'
  OBVIOUS
<1> DEFINE message == Head(child.replies)
           id == {n \in {message.seq} : message.kind = "intent"}
<1>1. message \in Message /\ message.seq \in Nat
  BY ReplyTakes DEF Message
<1>2. /\ UNCHANGED <<mode, seq, main, input, cursor, late, race>>
      /\ \/ child' = [child EXCEPT !.pc = "ended"] /\ UNCHANGED <<output, sent, twice>> /\ status' = 4
         \/ /\ child' = [child EXCEPT !.replies = Tail(@)] /\ Tail(child.replies) \in Seq(Message)
            /\ output' = Append(output, message) /\ status' = status
            /\ sent' = sent \cup id /\ twice' = twice \cup (id \cap sent)
  BY ReplyTakes
<1>3. id \in SUBSET Nat
  BY <1>1
<1> HIDE DEF message, id
<1>a. output \in Seq(Message) /\ sent \in SUBSET Nat /\ twice \in SUBSET Nat /\ status \in 0 .. 5
  BY DEF TypeOK
<1>b. output' \in Seq(Message)
  BY <1>1, <1>2, <1>a
<1>c. sent' \in SUBSET Nat /\ twice' \in SUBSET Nat
  BY <1>2, <1>3, <1>a
<1>d. status' \in 0 .. 5
  BY <1>2, <1>a
<1>4. output' \in Seq(Message) /\ sent' \in SUBSET Nat /\ twice' \in SUBSET Nat /\ status' \in 0 .. 5
  BY <1>b, <1>c, <1>d
<1>5. child' \in Hosts
  BY <1>2 DEF TypeOK, Hosts
<1> QED BY <1>2, <1>4, <1>5 DEF TypeOK

\* The types after the status and the cursor are published.
LEMMA PublishTypes == TypeOK /\ (PublishStatus \/ PublishCursor \/ Stop) => TypeOK'
<1> SUFFICES ASSUME TypeOK, PublishStatus \/ PublishCursor \/ Stop PROVE TypeOK'
  OBVIOUS
<1>1. child.model.last_seq \in Nat /\ child.model.count \in Nat
      /\ child.model.status \in {Active, NeedsSnapshot, Recovering}
  BY Fields
<1>2. CASE PublishStatus
  <2>1. Code(child.model.status) \in 0 .. 5
    BY <1>1 DEF Code, Active, NeedsSnapshot, Recovering
  <2>2. status' = Code(child.model.status) /\ child' = [child EXCEPT !.pc = "publish"]
        /\ UNCHANGED <<mode, seq, main, input, output, cursor, late, sent, twice, race>>
    BY <1>2 DEF PublishStatus, Unchanged, past
  <2>3. child' \in Hosts
    BY <2>2 DEF TypeOK, Hosts
  <2> QED BY <2>1, <2>2, <2>3 DEF TypeOK
<1>3. CASE PublishCursor
  <2> DEFINE message == [kind |-> "checkpoint", seq |-> snapshot(child.model).seq,
                         count |-> snapshot(child.model).count]
  <2>1. message \in Message
    BY <1>1 DEF Message, snapshot
  <2>2. output' = output \/ output' = Append(output, message)
    BY <1>3 DEF PublishCursor
  <2>3. output' \in Seq(Message)
    <3> HIDE DEF message
    <3> QED BY <2>1, <2>2 DEF TypeOK
  <2>4. child' = [child EXCEPT !.pc = "ended"]
        \/ child' = [child EXCEPT !.pc = "poll", !.last = child.model.last_seq]
        \/ child' = [child EXCEPT !.pc = "poll", !.last = child.last]
    BY <1>3 DEF PublishCursor, Ends
  <2>5. child' \in Hosts
    BY <1>1, <2>4 DEF TypeOK, Hosts
  <2>6. cursor' \in Nat /\ status' \in 0 .. 5 /\ UNCHANGED <<mode, seq, main, input, late, past>>
    BY <1>1, <1>3 DEF PublishCursor, Ends, TypeOK, Unchanged
  <2> QED BY <2>3, <2>5, <2>6 DEF TypeOK, past
<1>4. CASE Stop
  <2>1. child' = [child EXCEPT !.pc = "ended"] /\ status' = 3
        /\ UNCHANGED <<mode, seq, main, input, output, cursor, late, sent, twice, race>>
    BY <1>4 DEF Stop, Ends, Unchanged, past
  <2>2. child' \in Hosts
    BY <2>1 DEF TypeOK, Hosts
  <2> QED BY <2>1, <2>2 DEF TypeOK
<1> QED BY <1>2, <1>3, <1>4

-----------------------------------------------------------------------------
(* What the steps of the producer do to the fields.                        *)

Still == UNCHANGED <<mode, child, status, cursor, late, sent, twice, race>>
Keeps ==
    /\ main'.pending = main.pending /\ main'.recovering = main.recovering
    /\ main'.barrier = main.barrier /\ main'.checkpoint = main.checkpoint
    /\ main'.dropped = main.dropped

\* A new batch joins the history.
LEMMA ProduceSteps ==
    ASSUME TypeOK, Produce
    PROVE  /\ main.pc = "idle" /\ seq < MaxSeq /\ seq' = seq + 1 /\ main'.pc = "drain"
           /\ main' \in Producers /\ Keeps /\ Still /\ UNCHANGED <<input, output>>
<1>1. /\ main.pc = "idle" /\ seq < MaxSeq /\ seq' = seq + 1 /\ main' = [main EXCEPT !.pc = "drain"]
      /\ Still /\ UNCHANGED <<input, output>>
  BY DEF Produce, Elsewhere, childVars, past, Still
<1>2. main' \in Producers /\ main'.pc = "drain" /\ Keeps
  BY <1>1 DEF TypeOK, Producers, Keeps
<1> QED BY <1>1, <1>2

\* The producer goes on, or stops, without touching what it keeps.
MovesOn ==
    /\ main' \in Producers /\ Keeps /\ Still /\ UNCHANGED <<seq, input>>
    /\ main.pc \in {"idle", "drain", "feed", "flush", "finish", "closing"}
    /\ \/ main'.pc = main.pc
       \/ main.pc \notin {"drain", "feed"} /\ main'.pc \in {"idle", "converged"}
       \/ main.pc = "drain" /\ main'.pc = "feed"
       \/ main.pc = "finish" /\ main'.pc = "closing"
       \/ main.pc = "closing" /\ main'.pc = "finish"
       \/ main'.pc = "failed"
       \/ main.pc = "idle" /\ main'.pc = "finish" /\ seq = MaxSeq
    /\ main'.pc = "flush" => main.pc = "flush"

OutputMoves == output' = output \/ (output # <<>> /\ output' = Tail(output))

TakesCheckpoint ==
    /\ Head(output).kind = "checkpoint" /\ output' = Tail(output)
    /\ main' \in Producers /\ Still /\ UNCHANGED <<seq, input>>
    /\ main'.pending = main.pending /\ main'.recovering = main.recovering
    /\ main'.barrier = main.barrier /\ main'.dropped = main.dropped /\ main'.pc = main.pc
    /\ main'.checkpoint = [seq |-> Head(output).seq, count |-> Head(output).count]

Recovers ==
    /\ ~main.recovering /\ output' = Tail(output) /\ Still /\ UNCHANGED seq
    /\ main'.pc = main.pc /\ main'.checkpoint = main.checkpoint /\ main'.dropped = main.dropped
    /\ main'.pending = recovery(main).pending /\ main'.recovering = TRUE /\ main'.barrier = seq
    /\ input'.read = input.write /\ input'.write = input.write /\ input'.slot = input.slot
    /\ input' \in Rings
    /\ main'.pending \in Seq(Payload) => main' \in Producers

\* Draining one message is one of three things.
LEMMA DrainSteps ==
    ASSUME TypeOK, drain
    PROVE  /\ output # <<>> /\ Head(output) \in Message /\ Tail(output) \in Seq(Message)
           /\ output' = Tail(output) /\ main.pc \in {"drain", "finish"} /\ OutputMoves
           /\ MovesOn \/ TakesCheckpoint \/ Recovers
<1> DEFINE message == Head(output)
<1>1. /\ output # <<>> /\ output' = Tail(output) /\ main.pc \in {"drain", "finish"}
      /\ Still /\ UNCHANGED seq
  BY DEF drain, Elsewhere, childVars, past, Still
<1>8. OutputMoves
  BY <1>1 DEF OutputMoves
<1>2. message \in Message /\ Tail(output) \in Seq(Message) /\ main \in Producers
  BY <1>1 DEF TypeOK
<1>3. message.seq \in Nat /\ message.count \in Nat
  BY <1>2 DEF Message
<1>4. CASE message.kind = "intent"
  <2>1. input' = input
    BY <1>4 DEF drain
  <2>2. CASE message.seq \in main.ids
    <3>1. main' = [main EXCEPT !.pc = "failed"]
      BY <1>4, <2>2 DEF drain
    <3>2. main' \in Producers /\ Keeps /\ main'.pc = "failed"
      BY <1>2, <3>1 DEF Producers, Keeps
    <3> QED BY <1>1, <1>8, <1>2, <2>1, <3>2 DEF MovesOn
  <2>3. CASE message.seq \notin main.ids
    <3>1. main' = [main EXCEPT !.ids = @ \cup {message.seq}]
      BY <1>4, <2>3 DEF drain
    <3>2. main' \in Producers
      BY <1>2, <1>3, <3>1 DEF Producers
    <3>3. Keeps /\ main'.pc = main.pc
      BY <1>2, <3>1 DEF Producers, Keeps
    <3> QED BY <1>1, <1>8, <1>2, <2>1, <3>2, <3>3 DEF MovesOn
  <2> QED BY <2>2, <2>3
<1>5. CASE message.kind = "checkpoint"
  <2>1. input' = input /\ main' = [main EXCEPT !.checkpoint = [seq |-> message.seq, count |-> message.count]]
    BY <1>5 DEF drain
  <2>2. main' \in Producers
    BY <1>2, <1>3, <2>1 DEF Producers
  <2>3. /\ main'.pending = main.pending /\ main'.recovering = main.recovering
        /\ main'.barrier = main.barrier /\ main'.dropped = main.dropped /\ main'.pc = main.pc
        /\ main'.checkpoint = [seq |-> Head(output).seq, count |-> Head(output).count]
    BY <1>2, <2>1 DEF Producers
  <2> QED BY <1>1, <1>8, <1>2, <1>5, <2>1, <2>2, <2>3 DEF TakesCheckpoint
<1>6. CASE message.kind \notin {"intent", "checkpoint"} /\ main.recovering
  <2>1. UNCHANGED <<main, input>>
    BY <1>6 DEF drain
  <2> QED BY <1>1, <1>8, <1>2, <2>1 DEF MovesOn, Keeps
<1>7. CASE message.kind \notin {"intent", "checkpoint"} /\ ~main.recovering
  <2>1. main' = recovery(main) /\ input' = cleared
    BY <1>7 DEF drain
  <2>2. /\ main'.pc = main.pc /\ main'.checkpoint = main.checkpoint /\ main'.dropped = main.dropped
        /\ main'.pending = recovery(main).pending /\ main'.recovering = TRUE /\ main'.barrier = seq
    BY <1>2, <2>1 DEF recovery, Producers
  <2>3. /\ input'.read = input.write /\ input'.write = input.write /\ input'.slot = input.slot
        /\ input' \in Rings
    BY <2>1 DEF cleared, TypeOK, Rings
  <2>4. main'.pending \in Seq(Payload) => main' \in Producers
    <3>1. SUFFICES ASSUME main'.pending \in Seq(Payload) PROVE main' \in Producers
      OBVIOUS
    <3> DEFINE queue == main.pending \o <<Snapshot(main.checkpoint)>>
                          \o [i \in 1 .. seq - main.checkpoint.seq |-> Batch(main.checkpoint.seq + i)]
                          \o <<Resume(seq)>>
    <3>2. main' = [main EXCEPT !.pending = queue, !.recovering = TRUE, !.barrier = seq, !.resyncs = @ + 1]
      BY <2>1 DEF recovery
    <3> HIDE DEF queue
    <3>3. main'.pending = queue /\ seq \in Nat
      BY <1>2, <3>2, Fields DEF Producers
    <3>4. queue \in Seq(Payload) /\ main.resyncs + 1 \in Nat
      BY <1>2, <3>1, <3>3 DEF Producers
    <3> DEFINE n == main.resyncs + 1
    <3>5. main' = [main EXCEPT !.pending = queue, !.recovering = TRUE, !.barrier = seq, !.resyncs = n]
      BY <1>2, <3>2 DEF Producers
    <3>6. n \in Nat
      BY <3>4
    <3> HIDE DEF n
    <3> QED BY <1>2, <3>3, <3>4, <3>5, <3>6 DEF Producers
  <2> QED BY <1>1, <1>8, <1>2, <1>7, <2>2, <2>3, <2>4 DEF Recovers
<1> QED BY <1>1, <1>8, <1>2, <1>4, <1>5, <1>6, <1>7

\* A step of Feed appends the batch to the queue, puts it into the ring or drops it.
FeedQueues ==
    /\ main.recovering /\ main'.pc = "flush" /\ main'.dropped = main.dropped /\ input' = input
    /\ main'.recovering = TRUE
    /\ \/ main.barrier < seq /\ main'.pending = Append(main.pending, Batch(seq))
       \/ ~(main.barrier < seq) /\ main'.pending = main.pending
FeedDrops ==
    /\ ~main.recovering /\ main'.pc = "idle" /\ main'.dropped = main.dropped \cup {seq} /\ input' = input
    /\ main'.pending = main.pending /\ main'.recovering = FALSE
FeedPuts ==
    /\ ~main.recovering /\ ~Full /\ main'.pc = "idle" /\ main'.dropped = main.dropped
    /\ main'.pending = main.pending /\ main'.recovering = FALSE /\ put(Batch(seq))

\* Feeding the current batch is one of three things.
LEMMA FeedSteps ==
    ASSUME TypeOK, Feed
    PROVE  /\ main.pc = "feed" /\ Still /\ UNCHANGED <<seq, output>>
           /\ main' \in Producers /\ main'.barrier = main.barrier /\ main'.checkpoint = main.checkpoint
           /\ Batch(seq) \in Payload
           /\ FeedQueues \/ FeedDrops \/ FeedPuts
<1>1. main.pc = "feed" /\ Still /\ UNCHANGED <<seq, output>>
  BY DEF Feed, Elsewhere, childVars, past, Still
<1>2. main \in Producers /\ seq \in Nat /\ Batch(seq) \in Payload
  BY DEF TypeOK, Batch, Payload
<1>3. CASE main.recovering
  <2>1. input' = input /\ main' = [main EXCEPT !.pc = "flush",
            !.pending = IF seq > main.barrier THEN Append(@, Batch(seq)) ELSE @]
    BY <1>3 DEF Feed
  <2>2. CASE seq > main.barrier
    <3>1. main' = [main EXCEPT !.pc = "flush", !.pending = Append(main.pending, Batch(seq))]
      BY <1>2, <2>1, <2>2 DEF Producers
    <3>2. Append(main.pending, Batch(seq)) \in Seq(Payload)
      BY <1>2 DEF Producers
    <3>3. main' \in Producers
      BY <1>2, <3>1, <3>2 DEF Producers
    <3>4. /\ main'.pc = "flush" /\ main'.dropped = main.dropped /\ main'.recovering = main.recovering
          /\ main'.pending = Append(main.pending, Batch(seq))
          /\ main'.barrier = main.barrier /\ main'.checkpoint = main.checkpoint
      BY <1>2, <3>1 DEF Producers
    <3> QED BY <1>1, <1>2, <1>3, <2>1, <2>2, <3>3, <3>4, Fields DEF FeedQueues
  <2>3. CASE ~(seq > main.barrier)
    <3>1. main' = [main EXCEPT !.pc = "flush"]
      BY <1>2, <2>1, <2>3 DEF Producers
    <3>2. main' \in Producers
      BY <1>2, <3>1 DEF Producers
    <3>3. /\ main'.pc = "flush" /\ main'.dropped = main.dropped /\ main'.recovering = main.recovering
          /\ main'.pending = main.pending
          /\ main'.barrier = main.barrier /\ main'.checkpoint = main.checkpoint
      BY <1>2, <3>1 DEF Producers
    <3> QED BY <1>1, <1>2, <1>3, <2>1, <2>3, <3>2, <3>3, Fields DEF FeedQueues
  <2> QED BY <2>2, <2>3
<1>4. CASE ~main.recovering /\ Full
  <2>1. input' = input /\ main' = [main EXCEPT !.pc = "idle", !.dropped = @ \cup {seq}]
    BY <1>4 DEF Feed
  <2>2. main' \in Producers
    BY <1>2, <2>1 DEF Producers
  <2>3. /\ main'.pc = "idle" /\ main'.dropped = main.dropped \cup {seq}
        /\ main'.recovering = main.recovering /\ main'.pending = main.pending
        /\ main'.barrier = main.barrier /\ main'.checkpoint = main.checkpoint
    BY <1>2, <2>1 DEF Producers
  <2> QED BY <1>1, <1>2, <1>4, <2>1, <2>2, <2>3, Fields DEF FeedDrops
<1>5. CASE ~main.recovering /\ ~Full
  <2>1. put(Batch(seq)) /\ main' = [main EXCEPT !.pc = "idle"]
    BY <1>5 DEF Feed
  <2>2. main' \in Producers
    BY <1>2, <2>1 DEF Producers
  <2>3. /\ main'.pc = "idle" /\ main'.dropped = main.dropped
        /\ main'.recovering = main.recovering /\ main'.pending = main.pending
        /\ main'.barrier = main.barrier /\ main'.checkpoint = main.checkpoint
    BY <1>2, <2>1 DEF Producers
  <2> QED BY <1>1, <1>2, <1>5, <2>1, <2>2, <2>3, Fields DEF FeedPuts
<1> QED BY <1>3, <1>4, <1>5

\* Flushing moves the head of the queue into the ring.
LEMMA FlushSteps ==
    ASSUME TypeOK, Flush
    PROVE  /\ main.pc \in {"flush", "closing"} /\ main.pending # <<>> /\ ~Full
           /\ Head(main.pending) \in Payload /\ put(Head(main.pending))
           /\ main'.pending = Tail(main.pending) /\ main'.pc = main.pc
           /\ main'.recovering = main.recovering /\ main'.barrier = main.barrier
           /\ main'.checkpoint = main.checkpoint /\ main'.dropped = main.dropped
           /\ main' \in Producers /\ Still /\ UNCHANGED <<seq, output>>
<1>1. /\ main.pc \in {"flush", "closing"} /\ main.pending # <<>> /\ ~Full /\ put(Head(main.pending))
      /\ main' = [main EXCEPT !.pending = Tail(@)] /\ Still /\ UNCHANGED <<seq, output>>
  BY DEF Flush, Elsewhere, childVars, past, Still
<1>2. main \in Producers /\ main.pending \in Seq(Payload)
  BY Fields DEF TypeOK
<1>3. Head(main.pending) \in Payload /\ Tail(main.pending) \in Seq(Payload)
  BY <1>1, <1>2
<1>4. main' = [main EXCEPT !.pending = Tail(main.pending)]
  BY <1>1, <1>2 DEF Producers
<1>5. main' \in Producers
  BY <1>2, <1>3, <1>4 DEF Producers
<1>6. /\ main'.pending = Tail(main.pending) /\ main'.pc = main.pc
      /\ main'.recovering = main.recovering /\ main'.barrier = main.barrier
      /\ main'.checkpoint = main.checkpoint /\ main'.dropped = main.dropped
  BY <1>2, <1>4 DEF Producers
<1> QED BY <1>1, <1>3, <1>5, <1>6

\* A recovery is over.
Over ==
    /\ main.pc = "flush" /\ main.pending = <<>> /\ main'.pending = main.pending /\ main'.pc = "idle"
    /\ ~main'.recovering /\ main'.checkpoint = main.checkpoint /\ main'.dropped = main.dropped
    /\ main' \in Producers /\ Still /\ UNCHANGED <<seq, input, output>>

\* The steps that end a loop of the producer, or the benchmark.
LEMMA OtherSteps ==
    ASSUME TypeOK, Drained \/ FlushDone \/ Finish \/ Converge \/ Again \/ GiveUp
    PROVE  output' = output /\ OutputMoves /\ (MovesOn \/ Over)
<1>1. main \in Producers /\ Still /\ UNCHANGED <<seq, input, output>>
  BY DEF TypeOK, Drained, FlushDone, Finish, Converge, Again, GiveUp, Elsewhere, childVars, past, Still
<1>0. output' = output /\ OutputMoves
  BY <1>1 DEF OutputMoves
<1>2. CASE FlushDone
  <2>1. CASE main.pending = <<>> /\ status = 0
    <3>1. main' = [main EXCEPT !.pc = "idle", !.recovering = FALSE, !.barrier = 0] /\ main.pc = "flush"
      BY <1>2, <2>1 DEF FlushDone
    <3>2. main' \in Producers
      BY <1>1, <3>1 DEF Producers
    <3>3. /\ main'.pending = main.pending /\ main'.pc = "idle" /\ main'.recovering = FALSE
          /\ main'.checkpoint = main.checkpoint /\ main'.dropped = main.dropped
      BY <1>1, <3>1 DEF Producers
    <3> QED BY <1>0, <1>1, <2>1, <3>1, <3>2, <3>3 DEF Over
  <2>2. CASE ~(main.pending = <<>> /\ status = 0)
    <3>1. main' = [main EXCEPT !.pc = "idle"] /\ main.pc = "flush"
      BY <1>2, <2>2 DEF FlushDone
    <3>2. main' \in Producers /\ main'.pc = "idle" /\ Keeps
      BY <1>1, <3>1 DEF Producers, Keeps
    <3> QED BY <1>0, <1>1, <3>1, <3>2 DEF MovesOn
  <2> QED BY <2>1, <2>2
<1>3. CASE Drained \/ Finish \/ Converge \/ Again \/ GiveUp
  <2>1. \/ main.pc = "drain" /\ main' = [main EXCEPT !.pc = "feed"]
        \/ main.pc = "finish" /\ main' = [main EXCEPT !.pc = "closing"]
        \/ main.pc = "idle" /\ seq = MaxSeq /\ main' = [main EXCEPT !.pc = "finish"]
        \/ main.pc = "closing" /\ main' = [main EXCEPT !.pc = "converged"]
        \/ main.pc = "closing" /\ main' = [main EXCEPT !.pc = "finish"]
        \/ main.pc \in {"finish", "idle"} /\ main' = [main EXCEPT !.pc = "failed"]
    BY <1>1, <1>3 DEF Drained, Finish, Converge, Again, GiveUp, Producers
  <2>2. main' \in Producers /\ Keeps
    BY <1>1, <2>1 DEF Producers, Keeps
  <2>3. \/ main.pc = "drain" /\ main'.pc = "feed"
        \/ main.pc = "finish" /\ main'.pc = "closing"
        \/ main.pc = "idle" /\ seq = MaxSeq /\ main'.pc = "finish"
        \/ main.pc = "closing" /\ main'.pc \in {"converged", "finish"}
        \/ main.pc \in {"finish", "idle"} /\ main'.pc = "failed"
    BY <1>1, <2>1 DEF Producers
  <2> QED BY <1>0, <1>1, <2>2, <2>3 DEF MovesOn
<1> QED BY <1>0, <1>2, <1>3

-----------------------------------------------------------------------------
(* What the steps of the host do to the fields.                            *)

\* The host starts, publishes or ends, and may send a checkpoint.
Checkpoint == [kind |-> "checkpoint", seq |-> child.model.last_seq, count |-> child.model.count]
Rests ==
    /\ UNCHANGED <<mode, seq, main, input, sent, twice, race>>
    /\ child'.model = child.model /\ child'.held = child.held /\ child'.read = child.read
    /\ child'.replies = child.replies
    /\ child.pc # "ended" /\ child'.pc \in {"poll", "publish", "ended"}
    /\ child'.pc # "ended" => child.pc \in {"start", "publish"} \/ child.replies = <<>>
    /\ output' = output \/ output' = Append(output, Checkpoint)

\* Start, the two publications and Stop leave model and ring alone.
LEMMA RestSteps ==
    ASSUME TypeOK, Start \/ PublishStatus \/ PublishCursor \/ Stop
    PROVE  Rests
<1>1. child \in Hosts /\ UNCHANGED <<mode, seq, main, input, sent, twice, race>>
  BY DEF TypeOK, Start, PublishStatus, PublishCursor, Stop, Unchanged, past
<1>2. CASE Start
  <2>1. child.pc = "start" /\ child' = [child EXCEPT !.pc = "poll"] /\ output' = output
    BY <1>2 DEF Start
  <2> QED BY <1>1, <2>1 DEF Rests, Hosts
<1>3. CASE PublishStatus
  <2>1. /\ child.pc = "reply" /\ child.replies = <<>>
        /\ child' = [child EXCEPT !.pc = "publish"] /\ output' = output
    BY <1>3 DEF PublishStatus
  <2> QED BY <1>1, <2>1 DEF Rests, Hosts
<1>4. CASE PublishCursor
  <2>1. child.pc = "publish" /\ (output' = output \/ output' = Append(output, Checkpoint))
    BY <1>4 DEF PublishCursor, Checkpoint, snapshot
  <2>2. child' = [child EXCEPT !.pc = "ended"]
        \/ child' = [child EXCEPT !.pc = "poll", !.last = child.model.last_seq]
        \/ child' = [child EXCEPT !.pc = "poll", !.last = child.last]
    BY <1>4 DEF PublishCursor, Ends
  <2>3. /\ child'.model = child.model /\ child'.held = child.held /\ child'.read = child.read
        /\ child'.replies = child.replies /\ child'.pc \in {"poll", "ended"}
    BY <1>1, <2>2 DEF Hosts
  <2> QED BY <1>1, <2>1, <2>3 DEF Rests
<1>5. CASE Stop
  <2>1. child.pc = "poll" /\ child' = [child EXCEPT !.pc = "ended"] /\ output' = output
    BY <1>5 DEF Stop, Ends
  <2> QED BY <1>1, <2>1 DEF Rests, Hosts
<1> QED BY <1>2, <1>3, <1>4, <1>5

Reads ==
    /\ UNCHANGED <<mode, seq, main, input, output, sent, twice, race>>
    /\ child.pc = "poll" /\ input.read # input.write
    /\ child'.pc = "got" /\ child'.read = input.read /\ child'.held = At(input.read)
    /\ child'.model = child.model /\ child'.replies = child.replies

\* The first half of a get holds what the slot has.
LEMMA ReadSteps == ASSUME TypeOK, BeginGet PROVE Reads
<1>1. child \in Hosts /\ UNCHANGED <<mode, seq, main, input, output, sent, twice, race>>
  BY DEF TypeOK, BeginGet, Unchanged, past
<1>2. /\ child.pc = "poll" /\ input.read # input.write
      /\ child' = [child EXCEPT !.pc = "got", !.read = input.read,
                                !.held = input.slot[input.read % Capacity]]
  BY DEF BeginGet
<1> QED BY <1>1, <1>2 DEF Reads, Hosts, At

\* The host takes payload p: the counter it stores is behind what it held.
Takes(p, old) ==
    /\ UNCHANGED <<mode, seq, main, output, sent, twice>>
    /\ child.pc = "got" /\ p \in Payload /\ p \in Copies(child.held, At(child.read))
    /\ input'.read = child.read + 1 /\ input'.write = input.write /\ input'.slot = input.slot
    /\ race'.mixed = (race.mixed \/ p \notin {child.held, Garbage, At(child.read)})
    /\ race'.behind = (race.behind \/ child.read + 1 < input.read)
    /\ \/ /\ child'.pc = "ended" /\ child'.model = child.model /\ child'.held = child.held
          /\ child'.replies = child.replies
       \/ /\ p.kind = "resume" => MayResume(child.model, p.seq)
          /\ p.kind # "garbage"
          /\ child'.pc = "reply" /\ child'.model = After(p, old) /\ child'.held = Empty
          /\ child'.replies = Replies(child.model, After(p, old), Answer(p, old))

\* The second half of a get takes a payload.
LEMMA TakeSteps ==
    ASSUME TypeOK, NEW p, NEW old \in BOOLEAN, EndGet(p, old)
    PROVE  Takes(p, old)
<1> DEFINE next == After(p, old)
           replies == Replies(child.model, After(p, old), Answer(p, old))
<1>1. /\ p \in Payload /\ p \in Copies(child.held, At(child.read)) /\ child.pc = "got"
      /\ \/ child' = [child EXCEPT !.pc = "ended"]
         \/ /\ p.kind = "resume" => MayResume(child.model, p.seq)
            /\ p.kind # "garbage"
            /\ child' = [child EXCEPT !.pc = "reply", !.model = next, !.held = Empty, !.replies = replies]
      /\ input' = [input EXCEPT !.read = child.read + 1]
      /\ UNCHANGED <<mode, seq, main, output, cursor, sent, twice>>
      /\ race' = [mixed |-> race.mixed \/ p \notin {child.held, Garbage, At(child.read)},
                  behind |-> race.behind \/ child.read + 1 < input.read]
  BY EndGetSteps
<1> HIDE DEF next, replies
<1>2. child \in Hosts /\ input \in Rings
  BY DEF TypeOK
<1>3. input'.read = child.read + 1 /\ input'.write = input.write /\ input'.slot = input.slot
  BY <1>1, <1>2 DEF Rings
<1>4. \/ /\ child'.pc = "ended" /\ child'.model = child.model /\ child'.held = child.held
         /\ child'.replies = child.replies
      \/ /\ p.kind = "resume" => MayResume(child.model, p.seq)
         /\ p.kind # "garbage"
         /\ child'.pc = "reply" /\ child'.model = next /\ child'.held = Empty
         /\ child'.replies = replies
  BY <1>1, <1>2 DEF Hosts
<1>5. /\ race'.mixed = (race.mixed \/ p \notin {child.held, Garbage, At(child.read)})
      /\ race'.behind = (race.behind \/ child.read + 1 < input.read)
  BY <1>1
<1> QED BY <1>1, <1>3, <1>4, <1>5 DEF Takes, next, replies

\* The host sends the first of its replies, or ends because the ring is full.
Says ==
    /\ child.pc = "reply" /\ child.replies # <<>> /\ UNCHANGED <<mode, seq, main, input, race>>
    /\ child'.model = child.model /\ child'.held = child.held /\ child'.read = child.read
    /\ \/ /\ child'.pc = "ended" /\ child'.replies = child.replies
          /\ UNCHANGED <<output, sent, twice>>
       \/ /\ child'.pc = "reply" /\ child'.replies = Tail(child.replies)
          /\ output' = Append(output, Head(child.replies))
          /\ LET id == {n \in {Head(child.replies).seq} : Head(child.replies).kind = "intent"} IN
             sent' = sent \cup id /\ twice' = twice \cup (id \cap sent)

\* A reply is said or ends the host.
LEMMA SaySteps == ASSUME TypeOK, Reply PROVE Says
<1> DEFINE id == {n \in {Head(child.replies).seq} : Head(child.replies).kind = "intent"}
<1>1. /\ child.pc = "reply" /\ child.replies # <<>> /\ UNCHANGED <<mode, seq, main, input, race>>
      /\ \/ child' = [child EXCEPT !.pc = "ended"] /\ UNCHANGED <<output, sent, twice>>
         \/ /\ child' = [child EXCEPT !.replies = Tail(@)]
            /\ output' = Append(output, Head(child.replies))
            /\ sent' = sent \cup id /\ twice' = twice \cup (id \cap sent)
  BY ReplyTakes
<1>2. child \in Hosts
  BY DEF TypeOK
<1> HIDE DEF id
<1>3. CASE child' = [child EXCEPT !.pc = "ended"] /\ UNCHANGED <<output, sent, twice>>
  <2>1. /\ child'.model = child.model /\ child'.held = child.held /\ child'.read = child.read
        /\ child'.pc = "ended" /\ child'.replies = child.replies
    BY <1>2, <1>3 DEF Hosts
  <2> QED BY <1>1, <1>3, <2>1 DEF Says
<1>4. CASE /\ child' = [child EXCEPT !.replies = Tail(@)]
           /\ output' = Append(output, Head(child.replies))
           /\ sent' = sent \cup id /\ twice' = twice \cup (id \cap sent)
  <2>1. /\ child'.model = child.model /\ child'.held = child.held /\ child'.read = child.read
        /\ child'.pc = "reply" /\ child'.replies = Tail(child.replies)
    BY <1>1, <1>2, <1>4 DEF Hosts
  <2> QED BY <1>1, <1>4, <2>1 DEF Says, id
<1> QED BY <1>1, <1>3, <1>4

-----------------------------------------------------------------------------
(* The steps of the benchmark, and the types after them.                   *)

LEMMA Steps ==
    ASSUME TypeOK, mode = "benchmark", Next, main.checkpoint.seq <= seq,
           ~main.recovering => main.pending = <<>>
    PROVE  /\ TypeOK' /\ mode' = "benchmark"
           /\ \/ Rests \/ Reads \/ Says
              \/ \E p, old : Takes(p, old)
              \/ Produce \/ drain \/ Feed \/ Flush
              \/ (OutputMoves /\ MovesOn) \/ Over
<1>1. mode' = mode
  BY DEF Next, Child, Main, Start, BeginGet, EndGet, Reply, PublishStatus, PublishCursor, Stop, Unchanged,
         Produce, drain, Drained, Feed, Flush, FlushDone, Finish, Converge, Again, GiveUp, Elsewhere,
         DemoNext, DemoGap, DemoRecover, Demo
<1>2. CASE Start \/ PublishStatus \/ PublishCursor \/ Stop
  BY <1>1, <1>2, RestSteps, StartTypes, PublishTypes
<1>3. CASE BeginGet
  BY <1>1, <1>3, ReadSteps, BeginGetTypes
<1>4. CASE Reply
  BY <1>1, <1>4, SaySteps, ReplyStepTypes
<1>5. ASSUME NEW p, NEW old \in BOOLEAN, EndGet(p, old)
      PROVE  TypeOK' /\ \E q, o : Takes(q, o)
  BY <1>5, TakeSteps, EndGetTypes
<1>a. TypeOK /\ Still /\ seq' \in Nat /\ main' \in Producers /\ input' \in Rings /\ output' \in Seq(Message)
        => TypeOK'
  BY DEF TypeOK, Still
<1>b. seq \in Nat /\ input \in Rings /\ output \in Seq(Message)
  BY DEF TypeOK
<1>6. CASE Produce
  <2>1. seq' = seq + 1 /\ main' \in Producers /\ Still /\ UNCHANGED <<input, output>>
    BY <1>6, ProduceSteps
  <2> QED BY <1>1, <1>6, <1>a, <1>b, <2>1
<1>7. CASE drain
  <2>1. output' = Tail(output) /\ Tail(output) \in Seq(Message)
    BY <1>7, DrainSteps
  <2>2. CASE MovesOn \/ TakesCheckpoint
    BY <1>1, <1>7, <1>a, <1>b, <2>1, <2>2 DEF MovesOn, TakesCheckpoint
  <2>3. CASE Recovers
    <3>1. main'.pending \in Seq(Payload)
      BY <2>3, RecoveryQueue DEF Recovers
    <3>2. main' \in Producers
      BY <2>3, <3>1 DEF Recovers
    <3> QED BY <1>1, <1>7, <1>a, <1>b, <2>1, <2>3, <3>2 DEF Recovers
  <2> QED BY <1>7, <2>2, <2>3, DrainSteps
<1>8. CASE Feed
  <2>1. main' \in Producers /\ Still /\ UNCHANGED <<seq, output>>
    BY <1>8, FeedSteps
  <2>2. input' \in Rings
    BY <1>8, <1>b, FeedSteps, PutWrites DEF FeedQueues, FeedDrops, FeedPuts
  <2> QED BY <1>1, <1>8, <1>a, <1>b, <2>1, <2>2
<1>9. CASE Flush
  <2>1. /\ main' \in Producers /\ Still /\ UNCHANGED <<seq, output>>
        /\ Head(main.pending) \in Payload /\ put(Head(main.pending))
    BY <1>9, FlushSteps
  <2>2. input' \in Rings
    BY <2>1, PutWrites
  <2> QED BY <1>1, <1>9, <1>a, <1>b, <2>1, <2>2
<1>10. CASE Drained \/ FlushDone \/ Finish \/ Converge \/ Again \/ GiveUp
  <2>1. output' = output /\ OutputMoves /\ (MovesOn \/ Over)
    BY <1>10, OtherSteps
  <2>2. TypeOK'
    BY <1>a, <1>b, <2>1 DEF MovesOn, Over
  <2> QED BY <1>1, <2>1, <2>2
<1> QED
  <2>1. \/ Start \/ BeginGet \/ Reply \/ PublishStatus \/ PublishCursor \/ Stop
        \/ (\E p \in Copies(child.held, input.slot[child.read % Capacity]), old \in BOOLEAN : EndGet(p, old))
        \/ Produce \/ drain \/ Drained \/ Feed \/ Flush \/ FlushDone \/ Finish \/ Converge \/ Again
        \/ GiveUp
    <3>1. ~(DemoNext \/ DemoGap \/ DemoRecover)
      BY DEF DemoNext, DemoGap, DemoRecover, Demo
    <3> QED BY <3>1 DEF Next, Child, Main
  <2> QED BY <1>1, <1>2, <1>3, <1>4, <1>5, <1>6, <1>7, <1>8, <1>9, <1>10, <2>1

-----------------------------------------------------------------------------
(* The rings and the queue.                                                *)

LEMMA PutRing ==
    ASSUME TypeOK, Ring, NEW p \in Payload, put(p), ~Full, child' = child
    PROVE  Ring'
<1>1. /\ input.read \in Nat /\ input.write \in Nat /\ child.read \in Nat /\ Capacity \in Nat /\ Capacity > 0
      /\ input'.read = input.read /\ input'.write = input.write + 1
      /\ \A i \in Nat : i < input.write /\ input.write < i + Capacity => At(i)' = At(i)
  BY Fields, PutWrites
<1>2. input.write < input.read + Capacity /\ input.read <= input.write
  BY <1>1 DEF Full, Ring
<1>3. ASSUME child.pc = "got"
      PROVE  /\ child.read <= input.read /\ child.read < input.write + 1
             /\ child.read = input.read => child.held = At(child.read)'
             /\ child.held = At(child.read)' \/ child.read + Capacity < input.write + 1
  <2>1. /\ child.read <= input.read /\ child.read < input.write
        /\ child.read = input.read => child.held = At(child.read)
        /\ child.held = At(child.read) \/ child.read + Capacity < input.write
    BY <1>3 DEF Ring
  <2>2. input.write < child.read + Capacity => At(child.read)' = At(child.read)
    <3>1. \A i \in Nat : i = child.read /\ input.write < i + Capacity => At(i)' = At(i)
      BY <1>1, <2>1
    <3> QED BY <1>1, <3>1 DEF At
  <2> QED BY <1>1, <1>2, <2>1, <2>2
<1> QED BY <1>1, <1>2, <1>3 DEF Ring

\* The counters stay in order under every step.
LEMMA RingSteps ==
    ASSUME TypeOK, Ring,
           \/ Rests \/ Reads \/ Says
           \/ \E p, old : Takes(p, old)
           \/ Produce \/ drain \/ Feed \/ Flush
           \/ (OutputMoves /\ MovesOn) \/ Over
    PROVE  Ring'
<1>1. /\ input.read \in Nat /\ input.write \in Nat /\ child.read \in Nat
      /\ child.pc = "got" => child.read < input.write
      /\ input.read <= input.write
  BY Fields DEF Ring
<1>2. CASE Rests \/ Says
  BY <1>1, <1>2 DEF Rests, Says, Ring
<1>3. CASE Reads
  <2>1. child'.held = At(child.read)' /\ child'.read = input'.read /\ input' = input
    BY <1>3 DEF Reads, At
  <2> QED BY <1>1, <1>3, <2>1 DEF Reads, Ring
<1>4. CASE \E p, old : Takes(p, old)
  <2>1. child.pc = "got" /\ input'.read = child.read + 1 /\ input'.write = input.write /\ child'.pc # "got"
    BY <1>4 DEF Takes
  <2> QED BY <1>1, <2>1 DEF Ring
<1>5. CASE UNCHANGED <<input, child>>
  BY <1>5 DEF Ring, At
<1>6. CASE Produce \/ MovesOn \/ Over
  BY <1>5, <1>6, ProduceSteps DEF MovesOn, Over, Still
<1>7. CASE drain
  <2>1. CASE MovesOn \/ TakesCheckpoint
    BY <1>5, <2>1 DEF MovesOn, TakesCheckpoint, Still
  <2>2. CASE Recovers
    <3>1. child' = child /\ input'.read = input.write /\ input'.write = input.write
          /\ At(child.read)' = At(child.read)
      BY <2>2 DEF Recovers, Still, At
    <3> QED BY <1>1, <3>1 DEF Ring
  <2> QED BY <1>7, <2>1, <2>2, DrainSteps
<1>8. CASE Feed
  <2>1. Still /\ Batch(seq) \in Payload /\ (FeedQueues \/ FeedDrops \/ FeedPuts)
    BY <1>8, FeedSteps
  <2>2. CASE FeedQueues \/ FeedDrops
    BY <1>5, <2>1, <2>2 DEF FeedQueues, FeedDrops, Still
  <2>3. CASE FeedPuts
    BY <2>1, <2>3, PutRing DEF FeedPuts, Still
  <2> QED BY <2>1, <2>2, <2>3
<1>9. CASE Flush
  <2>1. Still /\ Head(main.pending) \in Payload /\ ~Full /\ put(Head(main.pending))
    BY <1>9, FlushSteps
  <2> QED BY <2>1, PutRing DEF Still
<1> QED BY <1>2, <1>3, <1>4, <1>6, <1>7, <1>8, <1>9

\* So does the queue of the recovery.
LEMMA QueueSteps ==
    ASSUME TypeOK, Queue, main.checkpoint.seq <= seq,
           \/ Rests \/ Reads \/ Says
           \/ \E p, old : Takes(p, old)
           \/ Produce \/ drain \/ Feed \/ Flush
           \/ (OutputMoves /\ MovesOn) \/ Over
    PROVE  Queue'
<1>1. /\ seq \in Nat /\ MaxSeq \in Nat /\ main.pending \in Seq(Payload) /\ main.barrier \in Nat
      /\ seq <= MaxSeq /\ main.recovering \in BOOLEAN
      /\ main.pc \in {"finish", "closing"} => seq = MaxSeq
      /\ ~main.recovering => main.pending = <<>>
      /\ main.pc = "flush" => main.recovering
      /\ main.recovering => main.barrier <= seq
      /\ \A k \in 1 .. Len(main.pending) : main.pending[k].kind = "snapshot" => k = 1
  BY Fields DEF Queue
<1>2. CASE UNCHANGED <<main, seq>>
  BY <1>1, <1>2 DEF Queue
<1>3. CASE Rests \/ Reads \/ Says \/ \E p, old : Takes(p, old)
  BY <1>2, <1>3 DEF Rests, Reads, Says, Takes
<1>4. CASE Produce
  <2>1. seq < MaxSeq /\ seq' = seq + 1 /\ main'.pc = "drain" /\ Keeps
    BY <1>4, ProduceSteps
  <2> QED BY <1>1, <2>1 DEF Queue, Keeps
<1>5. CASE MovesOn
  <2>1. /\ Keeps /\ seq' = seq
        /\ main'.pc \in {"finish", "closing"} => seq = MaxSeq
        /\ main'.pc = "flush" => main.pc = "flush"
    BY <1>1, <1>5 DEF MovesOn
  <2> QED BY <1>1, <2>1 DEF Queue, Keeps
<1>6. CASE TakesCheckpoint
  BY <1>1, <1>6 DEF TakesCheckpoint, Queue
<1>7. CASE Recovers /\ main.pc \in {"drain", "finish"}
  <2> DEFINE q == recovery(main).pending
             c == main.checkpoint.seq
  <2>1. /\ c \in Nat /\ Len(q) = seq - c + 2 /\ q[Len(q)] = Resume(seq)
        /\ \A k \in 2 .. seq - c + 1 : q[k] = Batch(c + k - 1)
    <3>1. main.pending = <<>> /\ c \in Nat
      BY <1>1, <1>7, Fields DEF Recovers
    <3> QED BY <3>1, RecoveryQueue
  <2> HIDE DEF q, c
  <2>2. \A k \in 1 .. Len(q) : q[k].kind = "snapshot" => k = 1
    <3>1. \A n : Batch(n).kind = "batch" /\ Resume(n).kind = "resume"
      BY DEF Resume, Batch
    <3>2. \A k \in 1 .. Len(q) : k = 1 \/ k \in 2 .. seq - c + 1 \/ k = Len(q)
      BY <1>1, <2>1
    <3> QED BY <2>1, <3>1, <3>2
  <2>3. main'.pending = q /\ main'.recovering = TRUE /\ main'.barrier = seq /\ main'.pc = main.pc /\ seq' = seq
    BY <1>7 DEF Recovers, q
  <2> QED BY <1>1, <1>7, <2>2, <2>3 DEF Queue
<1>8. CASE drain
  BY <1>5, <1>6, <1>7, <1>8, DrainSteps
<1>9. CASE Feed
  <2>1. seq' = seq /\ main'.barrier = main.barrier /\ (FeedQueues \/ FeedDrops \/ FeedPuts)
    BY <1>9, FeedSteps
  <2>2. CASE FeedQueues
    <3>1. CASE main'.pending = main.pending
      BY <1>1, <2>1, <2>2, <3>1 DEF FeedQueues, Queue
    <3>2. CASE main'.pending = Append(main.pending, Batch(seq))
      <4>1. Batch(seq).kind = "batch" /\ Batch(seq) \in Payload
        BY <1>1 DEF Batch, Payload
      <4>2. \A k \in 1 .. Len(main'.pending) : main'.pending[k].kind = "snapshot" => k = 1
        BY <1>1, <3>2, <4>1
      <4> QED BY <1>1, <2>1, <2>2, <4>2 DEF FeedQueues, Queue
    <3> QED BY <2>2, <3>1, <3>2 DEF FeedQueues
  <2>3. CASE FeedDrops \/ FeedPuts
    BY <1>1, <2>1, <2>3 DEF FeedDrops, FeedPuts, Queue
  <2> QED BY <2>1, <2>2, <2>3
<1>10. CASE Flush
  <2>1. /\ main.pending # <<>> /\ main'.pending = Tail(main.pending) /\ main'.pc = main.pc /\ seq' = seq
        /\ main'.recovering = main.recovering /\ main'.barrier = main.barrier
    BY <1>10, FlushSteps
  <2>2. \A k \in 1 .. Len(Tail(main.pending)) : Tail(main.pending)[k].kind # "snapshot"
    <3>1. \A k \in 1 .. Len(Tail(main.pending)) :
             k + 1 \in 1 .. Len(main.pending) /\ Tail(main.pending)[k] = main.pending[k + 1] /\ k + 1 # 1
      BY <1>1, <2>1
    <3> QED BY <1>1, <3>1
  <2> QED BY <1>1, <2>1, <2>2 DEF Queue
<1>11. CASE Over
  BY <1>1, <1>11 DEF Over, Queue
<1> QED BY <1>3, <1>4, <1>5, <1>8, <1>9, <1>10, <1>11

-----------------------------------------------------------------------------
(* Sizes.                                                                  *)

\* A predicate of payloads or messages that holds along a sequence holds along
\* the longer sequence, and along what is left of it.
LEMMA AlongAppend ==
    ASSUME NEW S, NEW q \in Seq(S), NEW x \in S, NEW T,
           \A k \in 1 .. Len(q) : q[k] \in T, x \in T
    PROVE  \A k \in 1 .. Len(Append(q, x)) : Append(q, x)[k] \in T
<1>1. Len(Append(q, x)) = Len(q) + 1 /\ Append(q, x)[Len(q) + 1] = x /\ Len(q) \in Nat
      /\ \A k \in 1 .. Len(q) : Append(q, x)[k] = q[k]
  OBVIOUS
<1>2. \A k \in 1 .. Len(q) + 1 : k \in 1 .. Len(q) \/ k = Len(q) + 1
  BY <1>1
<1> QED BY <1>1, <1>2

\* What is left of a sequence, and its head.
LEMMA AlongTail ==
    ASSUME NEW S, NEW q \in Seq(S), NEW T, \A k \in 1 .. Len(q) : q[k] \in T, q # <<>>
    PROVE  Head(q) \in T /\ \A k \in 1 .. Len(Tail(q)) : Tail(q)[k] \in T
<1>1. Len(q) \in Nat /\ Len(q) >= 1 /\ Head(q) = q[1]
  OBVIOUS
<1>2. Len(Tail(q)) = Len(q) - 1 /\ \A k \in 1 .. Len(Tail(q)) : Tail(q)[k] = q[k + 1]
  OBVIOUS
<1>3. \A k \in 1 .. Len(Tail(q)) : k + 1 \in 1 .. Len(q)
  BY <1>1, <1>2
<1> QED BY <1>1, <1>2, <1>3

\* What the host takes is no larger than what is in front of it.
LEMMA TakenModel ==
    ASSUME TypeOK, NEW p, NEW old, Takes(p, old)
    PROVE  /\ child'.model.last_seq = child.model.last_seq
              \/ (p.kind # "garbage" /\ child'.model.last_seq = p.seq)
           /\ p.kind = "garbage" => child'.model = child.model
           /\ p.seq \in {child.held.seq, At(child.read).seq, 0}
           /\ p.seq \in Nat /\ p.count \in Nat
<1>1. /\ child.model \in Model /\ child.held \in Payload /\ At(child.read) \in Payload
      /\ child.model.last_seq \in Nat /\ p \in Payload
  BY Fields, PlaceIsSlot DEF At, Takes
<1>2. p.seq \in {child.held.seq, At(child.read).seq, 0}
  BY <1>1, CopyTypes DEF Takes, Garbage
<1>3. p.seq \in Nat /\ p.count \in Nat
  BY <1>1 DEF Payload
<1>4. CASE child'.model = child.model
  BY <1>2, <1>3, <1>4
<1>5. CASE child'.model = After(p, old) /\ p.kind # "garbage"
  <2> DEFINE m == child.model
  <2>1. restore(m, p.seq, p.count).last_seq = p.seq /\ resume(m).last_seq = m.last_seq
        /\ lagged(m).last_seq = m.last_seq
    BY <1>1 DEF restore, resume, lagged, Model
  <2>2. accept(m, p.seq).last_seq \in {m.last_seq, p.seq}
    BY <1>1 DEF accept, Model
  <2> QED BY <1>2, <1>3, <1>5, <2>1, <2>2 DEF After
<1> QED BY <1>4, <1>5 DEF Takes

\* Nothing that is fed, taken or sent exceeds a bound that held before.
LEMMA WithinKept ==
    ASSUME TypeOK, NEW n \in Nat, Within(n), Ring, NoReplyCounts,
           \/ Rests \/ Reads \/ Says
           \/ \E p, old : Takes(p, old)
           \/ OutputMoves /\ MovesOn
           \/ TakesCheckpoint /\ output # <<>>
           \/ Flush \/ Over
    PROVE  Within(n)'
<1> DEFINE Small == {x \in Payload : x.seq <= n}
           Fits == {x \in Message : x.kind = "checkpoint" => x.seq <= n}
<1>1. /\ child.model.last_seq <= n /\ main.checkpoint.seq <= n /\ child.held.seq <= n
      /\ \A k \in 1 .. Len(main.pending) : main.pending[k].seq <= n
      /\ \A i \in 0 .. Capacity - 1 : input.slot[i].seq <= n
      /\ \A k \in 1 .. Len(output) : output[k].kind = "checkpoint" => output[k].seq <= n
  BY DEF Within
<1>2. /\ main.pending \in Seq(Payload) /\ output \in Seq(Message) /\ child.replies \in Seq(Message)
      /\ input.slot \in [0 .. Capacity - 1 -> Payload] /\ child.model.last_seq \in Nat
      /\ child.read \in Nat /\ input.read \in Nat /\ child.model.count \in Nat
  BY Fields
<1>a. \A k \in 1 .. Len(output) : output[k] \in Fits
  BY <1>1, <1>2
<1>b. \A k \in 1 .. Len(main.pending) : main.pending[k] \in Small
  BY <1>1, <1>2
<1>c. \A x : x \in Fits => (x.kind = "checkpoint" => x.seq <= n)
  OBVIOUS
<1>d. \A x : x \in Small => x.seq <= n
  OBVIOUS
<1>3. CASE Rests
  <2>1. Checkpoint \in Fits /\ Checkpoint \in Message
    BY <1>1, <1>2 DEF Checkpoint, Message
  <2> HIDE DEF Fits
  <2>2. \A k \in 1 .. Len(output') : output'[k] \in Fits
    BY <1>2, <1>3, <1>a, <2>1, AlongAppend DEF Rests
  <2> QED BY <1>1, <1>3, <1>c, <2>2 DEF Within, Rests
<1>4. CASE Reads
  <2>1. child'.held.seq <= n
    BY <1>1, <1>2, <1>4, PlaceIsSlot DEF Reads, At
  <2> QED BY <1>1, <1>4, <2>1 DEF Within, Reads
<1>5. CASE Says
  <2>1. \A k \in 1 .. Len(output') : output'[k] \in Fits
    <3>1. CASE output' = output
      BY <1>a, <3>1
    <3>2. CASE output' = Append(output, Head(child.replies)) /\ child.replies # <<>>
      <4>1. Head(child.replies) \in Message /\ Head(child.replies) = child.replies[1] /\ Len(child.replies) >= 1
        BY <1>2, <3>2
      <4>2. Head(child.replies) \in Fits
        BY <1>2, <4>1 DEF NoReplyCounts
      <4> HIDE DEF Fits
      <4> QED BY <1>2, <1>a, <3>2, <4>1, <4>2, AlongAppend
    <3> QED BY <1>5, <3>1, <3>2 DEF Says
  <2> HIDE DEF Fits
  <2> QED BY <1>1, <1>5, <1>c, <2>1 DEF Within, Says
<1>6. ASSUME NEW p, NEW old, Takes(p, old)
      PROVE  Within(n)'
  <2>1. At(child.read).seq <= n
    BY <1>1, <1>2, PlaceIsSlot DEF At
  <2>2. p.seq <= n
    BY <1>1, <1>6, <2>1, TakenModel
  <2>3. child'.model.last_seq <= n
    BY <1>1, <1>6, <2>2, TakenModel
  <2>4. child'.held.seq <= n
    BY <1>1, <1>6 DEF Takes, Empty
  <2>5. UNCHANGED <<main, output>> /\ input'.slot = input.slot
    BY <1>6 DEF Takes
  <2> QED BY <1>1, <2>3, <2>4, <2>5 DEF Within
<1>7. CASE OutputMoves /\ MovesOn
  <2> HIDE DEF Fits
  <2>1. \A k \in 1 .. Len(output') : output'[k] \in Fits
    BY <1>2, <1>7, <1>a, AlongTail DEF OutputMoves
  <2> QED BY <1>1, <1>7, <1>c, <2>1 DEF Within, MovesOn, Keeps, Still
<1>8. CASE TakesCheckpoint /\ output # <<>>
  <2> HIDE DEF Fits
  <2>1. Head(output) \in Fits /\ \A k \in 1 .. Len(output') : output'[k] \in Fits
    BY <1>2, <1>8, <1>a, AlongTail DEF TakesCheckpoint
  <2>2. main'.checkpoint.seq <= n
    BY <1>8, <1>c, <2>1 DEF TakesCheckpoint
  <2> QED BY <1>1, <1>8, <1>c, <2>1, <2>2 DEF Within, TakesCheckpoint, Still
<1>9. CASE Flush
  <2>1. /\ main.pending # <<>> /\ Head(main.pending) \in Payload /\ put(Head(main.pending))
        /\ main'.pending = Tail(main.pending) /\ main'.checkpoint = main.checkpoint
        /\ Still /\ UNCHANGED <<seq, output>>
    BY <1>9, FlushSteps
  <2> HIDE DEF Small
  <2>2. Head(main.pending) \in Small /\ \A k \in 1 .. Len(main'.pending) : main'.pending[k] \in Small
    BY <1>2, <1>b, <2>1, AlongTail
  <2>3. \A i \in 0 .. Capacity - 1 : input'.slot[i] \in {Head(main.pending), input.slot[i]}
    BY <2>1, PutWrites
  <2>4. \A i \in 0 .. Capacity - 1 : input'.slot[i].seq <= n
    BY <1>1, <1>d, <2>2, <2>3
  <2> QED BY <1>1, <1>d, <2>1, <2>2, <2>4 DEF Within, Still
<1>10. CASE Over
  <2>1. main'.pending = main.pending /\ main'.checkpoint = main.checkpoint /\ UNCHANGED <<child, input, output>>
    BY <1>10 DEF Over, Still
  <2> HIDE DEF Fits, Small
  <2> QED BY <1>1, <2>1 DEF Within
<1> QED BY <1>3, <1>4, <1>5, <1>6, <1>7, <1>8, <1>9, <1>10

\* A longer history bounds what a shorter one did.
LEMMA WithinMore ==
    ASSUME TypeOK, NEW n \in Nat, NEW m \in Nat, n <= m, Within(n), UNCHANGED <<child, input, output>>, Keeps
    PROVE  Within(m)'
<1>1. /\ main.pending \in Seq(Payload) /\ output \in Seq(Message)
      /\ input.slot \in [0 .. Capacity - 1 -> Payload] /\ child.model.last_seq \in Nat
      /\ main.checkpoint.seq \in Nat /\ child.held \in Payload
  BY Fields
<1>2. /\ \A x \in Payload : x.seq \in Nat
      /\ \A x \in Message : x.seq \in Nat
  BY DEF Payload, Message
<1>a. \A k \in 1 .. Len(main.pending) : main.pending[k].seq \in Nat
  BY <1>1, <1>2
<1>b. \A k \in 1 .. Len(output) : output[k].seq \in Nat
  BY <1>1, <1>2
<1>3. /\ \A k \in 1 .. Len(main.pending) : main.pending[k].seq \in Nat
      /\ \A k \in 1 .. Len(output) : output[k].seq \in Nat
      /\ \A i \in 0 .. Capacity - 1 : input.slot[i].seq \in Nat
      /\ child.held.seq \in Nat
  BY <1>1, <1>2, <1>a, <1>b
<1>4. \A x \in Nat : x <= n => x <= m
  OBVIOUS
<1> QED BY <1>1, <1>3, <1>4 DEF Within, Keeps

\* Nothing is ahead of the history.
LEMMA LimitsSteps ==
    ASSUME TypeOK, Ring, Queue, Limits, NoReplyCounts,
           \/ Rests \/ Reads \/ Says
           \/ \E p, old : Takes(p, old)
           \/ Produce \/ drain \/ Feed \/ Flush
           \/ (OutputMoves /\ MovesOn) \/ Over
    PROVE  Limits'
<1>1. /\ seq \in Nat /\ Within(seq)
      /\ main.pc \in {"drain", "feed"} /\ ~main.recovering => seq >= 1 /\ Within(seq - 1)
      /\ main.pending \in Seq(Payload) /\ input.slot \in [0 .. Capacity - 1 -> Payload]
      /\ main.checkpoint.seq \in Nat /\ main.checkpoint.seq <= seq /\ output \in Seq(Message)
      /\ main.recovering \in BOOLEAN /\ main.barrier \in Nat
  BY Fields DEF Limits, Within
<1>2. CASE /\ seq' = seq
           /\ main'.pc \in {"drain", "feed"} /\ ~main'.recovering
                => main.pc \in {"drain", "feed"} /\ ~main.recovering
           /\ \/ Rests \/ Reads \/ Says
              \/ \E p, old : Takes(p, old)
              \/ OutputMoves /\ MovesOn
              \/ TakesCheckpoint /\ output # <<>>
              \/ Flush \/ Over
  <2>1. \A n \in Nat : Within(n) => Within(n)'
    BY <1>2, WithinKept
  <2>2. seq >= 1 => seq - 1 \in Nat
    BY <1>1
  <2>3. Within(seq)'
    <3>1. \A n \in Nat : n = seq => Within(n)'
      BY <1>1, <2>1
    <3> QED BY <1>1, <1>2, <3>1 DEF Within
  <2>4. main'.pc \in {"drain", "feed"} /\ ~main'.recovering => seq >= 1 /\ Within(seq - 1)'
    <3>1. \A n \in Nat : n = seq - 1 /\ Within(n) => Within(n)'
      BY <2>1
    <3>2. main.pc \in {"drain", "feed"} /\ ~main.recovering => \A n \in Nat : n = seq - 1 => Within(n)'
      BY <1>1, <3>1
    <3> QED BY <1>1, <1>2, <2>2, <3>2 DEF Within
  <2> QED BY <1>2, <2>3, <2>4 DEF Limits
<1>3. CASE Rests \/ Reads \/ Says \/ \E p, old : Takes(p, old)
  <2>1. UNCHANGED <<seq, main>>
    BY <1>3 DEF Rests, Reads, Says, Takes
  <2> QED BY <1>2, <1>3, <2>1
<1>4. CASE OutputMoves /\ MovesOn
  BY <1>2, <1>4 DEF MovesOn, Keeps
<1>5. CASE Flush
  <2>1. main'.pc \notin {"drain", "feed"} /\ seq' = seq
    BY <1>5, FlushSteps
  <2> QED BY <1>2, <1>5, <2>1
<1>6. CASE Over
  BY <1>2, <1>6 DEF Over
<1>7. CASE Produce
  <2>1. seq' = seq + 1 /\ Keeps /\ UNCHANGED <<child, input, output>>
    BY <1>7, ProduceSteps DEF Still
  <2>2. \A m \in Nat : seq <= m => Within(m)'
    BY <1>1, <2>1, WithinMore
  <2>3. \A m \in Nat : m = seq + 1 => Within(m)'
    BY <1>1, <2>2
  <2>4. \A m \in Nat : m = seq => Within(m)'
    BY <1>1, <2>2
  <2>5. Within(seq)'
    BY <1>1, <2>1, <2>3 DEF Within
  <2>6. Within(seq - 1)'
    <3>1. seq' - 1 = seq
      BY <1>1, <2>1
    <3> QED BY <1>1, <2>4, <3>1 DEF Within
  <2> QED BY <1>1, <2>1, <2>5, <2>6 DEF Limits
<1>8. CASE Recovers /\ output # <<>>
  <2> DEFINE q == recovery(main).pending
             c == main.checkpoint.seq
  <2>1. /\ Len(q) = seq - c + 2 /\ q[1] = Snapshot(main.checkpoint) /\ q[Len(q)] = Resume(seq)
        /\ \A k \in 2 .. seq - c + 1 : q[k] = Batch(c + k - 1)
    <3>1. main.pending = <<>>
      BY <1>8 DEF Queue, Recovers
    <3> QED BY <1>1, <3>1, RecoveryQueue
  <2>2. c \in Nat /\ c <= seq
    BY <1>1
  <2>3. main'.pending = q /\ main'.recovering = TRUE /\ main'.checkpoint = main.checkpoint /\ seq' = seq
        /\ child' = child /\ input'.slot = input.slot /\ output' = Tail(output)
    BY <1>8 DEF Recovers, Still
  <2>4. \A s : Batch(s).seq = s /\ Resume(s).seq = s
    BY DEF Batch, Resume
  <2>5. Snapshot(main.checkpoint).seq = c
    BY DEF Snapshot
  <2> HIDE DEF q, c
  <2>6. \A k \in 1 .. Len(q) : q[k].seq <= seq
    <3>1. \A k \in 1 .. Len(q) : k = 1 \/ k \in 2 .. seq - c + 1 \/ k = Len(q)
      BY <1>1, <2>1, <2>2
    <3>2. \A k \in 2 .. seq - c + 1 : q[k].seq <= seq
      BY <1>1, <2>1, <2>2, <2>4
    <3> QED BY <1>1, <2>1, <2>2, <2>4, <2>5, <3>1, <3>2
  <2>7. \A k \in 1 .. Len(output') : output'[k].kind = "checkpoint" => output'[k].seq <= seq
    <3> DEFINE Fits == {x \in Message : x.kind = "checkpoint" => x.seq <= seq}
    <3>1. \A k \in 1 .. Len(output) : output[k] \in Fits
      <4>1. \A k \in 1 .. Len(output) : output[k] \in Message
        BY <1>1
      <4> QED BY <1>1, <4>1 DEF Within
    <3>2. \A x : x \in Fits => (x.kind = "checkpoint" => x.seq <= seq)
      OBVIOUS
    <3> HIDE DEF Fits
    <3>3. \A k \in 1 .. Len(output') : output'[k] \in Fits
      BY <1>1, <1>8, <2>3, <3>1, AlongTail
    <3> QED BY <3>2, <3>3
  <2>8. Within(seq)'
    BY <1>1, <2>3, <2>6, <2>7 DEF Within
  <2> QED BY <2>3, <2>8 DEF Limits
<1>9. CASE TakesCheckpoint /\ output # <<>>
  BY <1>2, <1>9 DEF TakesCheckpoint
<1>10. CASE drain
  BY <1>4, <1>8, <1>9, <1>10, DrainSteps
<1>11. CASE Feed
  <2>1. /\ main'.checkpoint = main.checkpoint /\ Batch(seq) \in Payload /\ Still /\ UNCHANGED <<seq, output>>
        /\ FeedQueues \/ FeedDrops \/ FeedPuts
    BY <1>11, FeedSteps
  <2>2. main'.pc \notin {"drain", "feed"}
    BY <2>1 DEF FeedQueues, FeedDrops, FeedPuts
  <2>3. Batch(seq).seq = seq
    BY DEF Batch
  <2>4. \A k \in 1 .. Len(main'.pending) : main'.pending[k].seq <= seq
    <3>1. CASE main'.pending = main.pending
      BY <1>1, <3>1 DEF Within
    <3>2. CASE main'.pending = Append(main.pending, Batch(seq))
      <4> DEFINE Small == {x \in Payload : x.seq <= seq}
      <4>0. \A k \in 1 .. Len(main.pending) : main.pending[k] \in Payload
        BY <1>1
      <4>1. Batch(seq) \in Small /\ \A k \in 1 .. Len(main.pending) : main.pending[k] \in Small
        BY <1>1, <2>1, <2>3, <4>0 DEF Within
      <4>2. \A x : x \in Small => x.seq <= seq
        OBVIOUS
      <4> HIDE DEF Small
      <4>3. \A k \in 1 .. Len(main'.pending) : main'.pending[k] \in Small
        BY <1>1, <2>1, <3>2, <4>1, AlongAppend
      <4> QED BY <4>2, <4>3
    <3> QED BY <2>1, <3>1, <3>2 DEF FeedQueues, FeedDrops, FeedPuts
  <2>5. \A i \in 0 .. Capacity - 1 : input'.slot[i].seq <= seq
    <3>1. CASE input' = input
      BY <1>1, <3>1 DEF Within
    <3>2. CASE put(Batch(seq))
      <4>1. \A i \in 0 .. Capacity - 1 : input'.slot[i] \in {Batch(seq), input.slot[i]}
        BY <2>1, <3>2, PutWrites
      <4>2. \A i \in 0 .. Capacity - 1 : input.slot[i].seq <= seq
        BY <1>1 DEF Within
      <4> QED BY <1>1, <2>3, <4>1, <4>2
    <3> QED BY <2>1, <3>1, <3>2 DEF FeedQueues, FeedDrops, FeedPuts
  <2>6. Within(seq)'
    BY <1>1, <2>1, <2>4, <2>5 DEF Within, Still
  <2> QED BY <2>1, <2>2, <2>6 DEF Limits
<1> QED BY <1>3, <1>4, <1>5, <1>6, <1>7, <1>10, <1>11

\* The replies of a host are requests and intents.
LEMMA ReplyKinds ==
    ASSUME NEW m \in Model, NEW next \in Model, NEW ids \in SUBSET Nat
    PROVE  LET q == Replies(m, next, ids) IN
           /\ q \in Seq(Message)
           /\ \A k \in 1 .. Len(q) : q[k].kind # "checkpoint"
           /\ \A k \in 1 .. Len(q) : q[k].kind = "intent" =>
                 k = Len(q) /\ ids # {} /\ q[k].seq = CHOOSE n \in ids : TRUE
<1> DEFINE resync == [kind |-> "resync", seq |-> next.last_seq, count |-> 0]
           intent == [kind |-> "intent", seq |-> CHOOSE n \in ids : TRUE, count |-> 0]
           asks == m.status # NeedsSnapshot /\ next.status = NeedsSnapshot
<1>1. resync.kind = "resync" /\ intent.kind = "intent" /\ intent.seq = CHOOSE n \in ids : TRUE
  OBVIOUS
<1>2. Replies(m, next, ids) = (IF asks THEN <<resync>> ELSE <<>>) \o (IF ids = {} THEN <<>> ELSE <<intent>>)
  BY DEF Replies
<1> HIDE DEF resync, intent, asks
<1>3. Replies(m, next, ids) \in Seq(Message)
  BY ReplyTypes
<1>4. CASE ids = {}
  <2>1. Replies(m, next, ids) = <<resync>> \/ Replies(m, next, ids) = <<>>
    BY <1>2, <1>4
  <2>2. CASE Replies(m, next, ids) = <<resync>>
    BY <1>1, <1>3, <2>2
  <2>3. CASE Replies(m, next, ids) = <<>>
    BY <1>3, <2>3
  <2> QED BY <2>1, <2>2, <2>3
<1>5. CASE ids # {}
  <2>1. CASE asks
    <3>1. Replies(m, next, ids) = <<resync>> \o <<intent>>
      BY <1>2, <1>5, <2>1
    <3>2. /\ Len(Replies(m, next, ids)) = 2
          /\ Replies(m, next, ids)[1] = resync /\ Replies(m, next, ids)[2] = intent
      BY <3>1
    <3>3. \A k \in 1 .. 2 : k = 1 \/ k = 2
      OBVIOUS
    <3> QED BY <1>1, <1>3, <1>5, <3>2, <3>3
  <2>2. CASE ~asks
    <3>1. Replies(m, next, ids) = <<>> \o <<intent>>
      BY <1>2, <1>5, <2>2
    <3>2. Len(Replies(m, next, ids)) = 1 /\ Replies(m, next, ids)[1] = intent
      BY <3>1
    <3> QED BY <1>1, <1>3, <1>5, <3>2
  <2> QED BY <2>1, <2>2
<1> QED BY <1>4, <1>5

\* What the host makes of a payload is a model, and its answer a set of ordinals.
LEMMA TakenTypes ==
    ASSUME TypeOK, NEW p, NEW old, Takes(p, old)
    PROVE  After(p, old) \in Model /\ Answer(p, old) \in SUBSET Nat
<1>1. p \in Payload /\ child.model \in Model
  BY Fields DEF Takes
<1>2. p.seq \in Nat /\ p.count \in Nat
  BY <1>1 DEF Payload
<1> QED BY <1>1, <1>2, ModelOperators DEF After, Answer

\* No reply is a checkpoint, after every step.
LEMMA NoReplyCountsSteps ==
    ASSUME TypeOK, NoReplyCounts,
           \/ Rests \/ Reads \/ Says
           \/ \E p, old : Takes(p, old)
           \/ Still
    PROVE  NoReplyCounts'
<1>1. child.replies \in Seq(Message) /\ child.model \in Model
  BY Fields
<1>2. CASE child'.replies = child.replies
  BY <1>2 DEF NoReplyCounts
<1>3. CASE Says
  <2>1. CASE child.replies # <<>> /\ child'.replies = Tail(child.replies)
    <3> DEFINE Plain == {x \in Message : x.kind # "checkpoint"}
    <3>1. \A k \in 1 .. Len(child.replies) : child.replies[k] \in Plain
      BY <1>1 DEF NoReplyCounts
    <3>2. \A x : x \in Plain => x.kind # "checkpoint"
      OBVIOUS
    <3> HIDE DEF Plain
    <3>3. \A k \in 1 .. Len(Tail(child.replies)) : Tail(child.replies)[k] \in Plain
      BY <1>1, <2>1, <3>1, AlongTail
    <3> QED BY <2>1, <3>2, <3>3 DEF NoReplyCounts
  <2> QED BY <1>2, <1>3, <2>1 DEF Says
<1>4. ASSUME NEW p, NEW old, Takes(p, old)
      PROVE  NoReplyCounts'
  <2>1. After(p, old) \in Model /\ Answer(p, old) \in SUBSET Nat
    BY <1>4, TakenTypes
  <2>2. CASE child'.replies = Replies(child.model, After(p, old), Answer(p, old))
    BY <1>1, <2>1, <2>2, ReplyKinds DEF NoReplyCounts
  <2> QED BY <1>2, <1>4, <2>2 DEF Takes
<1> QED BY <1>2, <1>3, <1>4 DEF Rests, Reads, Still

\* A copy that is not a mixture is as whole as what it was copied from.
LEMMA TakenWhole ==
    ASSUME TypeOK, NEW p, NEW old, Takes(p, old), Counted, ~race'.mixed
    PROVE  /\ ~race.mixed /\ Whole(p)
           /\ child'.model.count = child'.model.last_seq
<1>1. /\ child.model \in Model /\ child.held \in Payload /\ At(child.read) \in Payload
      /\ child.model.last_seq \in Nat /\ child.model.count \in Nat
      /\ child.read % Capacity \in 0 .. Capacity - 1 /\ p \in Payload
      /\ race.mixed \in BOOLEAN
  BY Fields, PlaceIsSlot DEF At, Takes
<1>2. ~race.mixed /\ p \in {child.held, Garbage, At(child.read)}
  BY <1>1 DEF Takes
<1>3. child.model.count = child.model.last_seq /\ Whole(child.held) /\ Whole(At(child.read))
  BY <1>1, <1>2 DEF Counted, At
<1>4. Whole(p)
  BY <1>2, <1>3 DEF Whole, Garbage
<1>5. CASE child'.model = child.model
  BY <1>2, <1>3, <1>4, <1>5
<1>6. CASE child'.model = After(p, old)
  <2> DEFINE m == child.model
  <2>1. p.kind = "snapshot" => p.count = p.seq
    BY <1>4 DEF Whole
  <2>2. /\ restore(m, p.seq, p.count).last_seq = p.seq /\ restore(m, p.seq, p.count).count = p.count
        /\ resume(m).last_seq = m.last_seq /\ resume(m).count = m.count
        /\ lagged(m).last_seq = m.last_seq /\ lagged(m).count = m.count
    BY <1>1 DEF restore, resume, lagged, Model
  <2>3. \/ accept(m, p.seq).last_seq = m.last_seq /\ accept(m, p.seq).count = m.count
        \/ (p.seq = m.last_seq + 1 /\ accept(m, p.seq).last_seq = p.seq
            /\ accept(m, p.seq).count = m.count + 1)
    <3>1. CASE m.status = NeedsSnapshot
      BY <3>1 DEF accept
    <3>2. CASE m.status # NeedsSnapshot /\ p.seq # m.last_seq + 1
      <4>1. accept(m, p.seq) = lagged(m)
        BY <3>2 DEF accept, lagged
      <4> QED BY <2>2, <4>1
    <3>3. CASE m.status # NeedsSnapshot /\ p.seq = m.last_seq + 1
      <4>1. accept(m, p.seq) = [m EXCEPT !.count = m.count + 1, !.last_seq = p.seq]
        BY <1>1, <3>3 DEF accept, Model
      <4> QED BY <1>1, <3>3, <4>1 DEF Model
    <3> QED BY <3>1, <3>2, <3>3
  <2>4. p.kind = "snapshot" => child'.model.count = child'.model.last_seq
    BY <1>6, <2>1, <2>2 DEF After
  <2>5. p.kind # "snapshot" => child'.model.count = child'.model.last_seq
    BY <1>1, <1>3, <1>6, <2>2, <2>3 DEF After
  <2> QED BY <1>2, <1>4, <2>4, <2>5
<1> QED BY <1>5, <1>6 DEF Takes

\* Every count equals its batches, after every step.
LEMMA CountedSteps ==
    ASSUME TypeOK, Counted, NoReplyCounts, Queue, main.checkpoint.seq <= seq,
           \/ Rests \/ Reads \/ Says
           \/ \E p, old : Takes(p, old)
           \/ Produce \/ drain \/ Feed \/ Flush
           \/ (OutputMoves /\ MovesOn) \/ Over
    PROVE  Counted'
<1> SUFFICES ASSUME ~race'.mixed
             PROVE  /\ child'.model.count = child'.model.last_seq
                    /\ main'.checkpoint.count = main'.checkpoint.seq
                    /\ Whole(child'.held)
                    /\ \A k \in 1 .. Len(main'.pending) : Whole(main'.pending[k])
                    /\ \A i \in 0 .. Capacity - 1 : Whole(input'.slot[i])
                    /\ \A k \in 1 .. Len(output') : Whole(output'[k])
  BY DEF Counted, Whole
<1> DEFINE WholeP == {x \in Payload : Whole(x)}
           WholeM == {x \in Message : Whole(x)}
<1>1. /\ main.pending \in Seq(Payload) /\ output \in Seq(Message) /\ child.replies \in Seq(Message)
      /\ input.slot \in [0 .. Capacity - 1 -> Payload] /\ child.read \in Nat /\ input.read \in Nat
      /\ main.checkpoint.seq \in Nat /\ seq \in Nat /\ main.recovering \in BOOLEAN
      /\ child.model.last_seq \in Nat /\ child.model.count \in Nat
  BY Fields
<1>2. ~race.mixed
  <2>1. CASE \E p, old : Takes(p, old)
    BY <2>1, TakenWhole
  <2>2. CASE Still
    BY <2>2 DEF Still
  <2>3. drain => Still
    BY DrainSteps DEF MovesOn, TakesCheckpoint, Recovers
  <2>4. (Produce \/ Feed \/ Flush \/ MovesOn \/ Over) => Still
    BY ProduceSteps, FeedSteps, FlushSteps DEF MovesOn, Over
  <2> QED BY <2>1, <2>2, <2>3, <2>4 DEF Rests, Reads, Says
<1>3. /\ child.model.count = child.model.last_seq
      /\ main.checkpoint.count = main.checkpoint.seq
      /\ Whole(child.held)
      /\ \A k \in 1 .. Len(main.pending) : Whole(main.pending[k])
      /\ \A i \in 0 .. Capacity - 1 : Whole(input.slot[i])
      /\ \A k \in 1 .. Len(output) : Whole(output[k])
  BY <1>2 DEF Counted
<1>4. /\ \A k \in 1 .. Len(main.pending) : main.pending[k] \in WholeP
      /\ \A k \in 1 .. Len(output) : output[k] \in WholeM
      /\ \A x : x \in WholeP \/ x \in WholeM => Whole(x)
  BY <1>1, <1>3
<1>5. \A s : Batch(s).kind = "batch" /\ Resume(s).kind = "resume" /\ Whole(Batch(s)) /\ Whole(Resume(s))
  BY DEF Batch, Resume, Whole
<1> HIDE DEF WholeP, WholeM
<1>6. CASE Rests
  <2>1. Checkpoint \in WholeM /\ Checkpoint \in Message
    BY <1>1, <1>3 DEF Checkpoint, Message, Whole, WholeM
  <2>2. \A k \in 1 .. Len(output') : output'[k] \in WholeM
    BY <1>1, <1>4, <1>6, <2>1, AlongAppend DEF Rests
  <2> QED BY <1>3, <1>4, <1>6, <2>2 DEF Rests
<1>7. CASE Reads
  <2>1. Whole(child'.held)
    BY <1>1, <1>3, <1>7, PlaceIsSlot DEF Reads, At
  <2> QED BY <1>3, <1>7, <2>1 DEF Reads
<1>8. CASE Says
  <2>1. \A k \in 1 .. Len(output') : output'[k] \in WholeM
    <3>1. CASE output' = output
      BY <1>4, <3>1
    <3>2. CASE output' = Append(output, Head(child.replies)) /\ child.replies # <<>>
      <4>1. Head(child.replies) \in Message /\ Head(child.replies) = child.replies[1] /\ Len(child.replies) >= 1
        BY <1>1, <3>2
      <4>2. \A x \in Message : x.kind \in {"resync", "intent", "checkpoint"}
        BY DEF Message
      <4>3. Head(child.replies) \in WholeM
        BY <1>1, <4>1, <4>2 DEF NoReplyCounts, Whole, WholeM
      <4> QED BY <1>1, <1>4, <3>2, <4>1, <4>3, AlongAppend
    <3> QED BY <1>8, <3>1, <3>2 DEF Says
  <2> QED BY <1>3, <1>4, <1>8, <2>1 DEF Says
<1>9. ASSUME NEW p, NEW old, Takes(p, old)
      PROVE  /\ child'.model.count = child'.model.last_seq /\ Whole(child'.held)
             /\ UNCHANGED <<main, output>> /\ input'.slot = input.slot
  <2>1. child'.model.count = child'.model.last_seq
    BY <1>9, TakenWhole
  <2>2. Whole(child'.held)
    BY <1>3, <1>9 DEF Takes, Whole, Empty
  <2> QED BY <1>9, <2>1, <2>2 DEF Takes
<1>10. CASE Produce
  BY <1>3, <1>10, ProduceSteps DEF Keeps, Still
<1>11. CASE OutputMoves /\ MovesOn
  <2>1. \A k \in 1 .. Len(output') : output'[k] \in WholeM
    BY <1>1, <1>11, <1>4, AlongTail DEF OutputMoves
  <2> QED BY <1>3, <1>4, <1>11, <2>1 DEF MovesOn, Keeps, Still
<1>12. CASE TakesCheckpoint /\ output # <<>>
  <2>1. Head(output) \in WholeM /\ \A k \in 1 .. Len(output') : output'[k] \in WholeM
    BY <1>1, <1>12, <1>4, AlongTail DEF TakesCheckpoint
  <2>2. main'.checkpoint.count = main'.checkpoint.seq
    BY <1>12, <1>4, <2>1 DEF TakesCheckpoint, Whole
  <2> QED BY <1>3, <1>4, <1>12, <2>1, <2>2 DEF TakesCheckpoint, Still
<1>13. CASE Recovers /\ output # <<>>
  <2> DEFINE q == recovery(main).pending
             c == main.checkpoint.seq
  <2>1. /\ Len(q) = seq - c + 2 /\ q[1] = Snapshot(main.checkpoint) /\ q[Len(q)] = Resume(seq)
        /\ \A k \in 2 .. seq - c + 1 : q[k] = Batch(c + k - 1)
    <3>1. main.pending = <<>>
      BY <1>13 DEF Queue, Recovers
    <3> QED BY <3>1, RecoveryQueue
  <2>2. Whole(Snapshot(main.checkpoint))
    BY <1>3 DEF Snapshot, Whole
  <2>3. main'.pending = q /\ main'.checkpoint = main.checkpoint
        /\ child' = child /\ input'.slot = input.slot /\ output' = Tail(output)
    BY <1>13 DEF Recovers, Still
  <2>4. c \in Nat
    BY <1>1
  <2> HIDE DEF q, c
  <2>5. \A k \in 1 .. Len(q) : Whole(q[k])
    <3>1. \A k \in 1 .. Len(q) : k = 1 \/ k \in 2 .. seq - c + 1 \/ k = Len(q)
      BY <1>1, <2>1, <2>4
    <3> QED BY <1>5, <2>1, <2>2, <3>1
  <2>6. \A k \in 1 .. Len(output') : output'[k] \in WholeM
    BY <1>1, <1>4, <1>13, <2>3, AlongTail
  <2> QED BY <1>3, <1>4, <2>3, <2>5, <2>6
<1>14. CASE drain
  BY <1>11, <1>12, <1>13, <1>14, DrainSteps
<1>15. CASE Feed
  <2>1. /\ main'.checkpoint = main.checkpoint /\ Batch(seq) \in Payload /\ Still /\ UNCHANGED <<seq, output>>
        /\ FeedQueues \/ FeedDrops \/ FeedPuts
    BY <1>15, FeedSteps
  <2>2. Batch(seq) \in WholeP
    BY <1>5, <2>1 DEF WholeP
  <2>3. \A k \in 1 .. Len(main'.pending) : Whole(main'.pending[k])
    <3>1. CASE main'.pending = main.pending
      BY <1>3, <3>1
    <3>2. CASE main'.pending = Append(main.pending, Batch(seq))
      <4>1. \A k \in 1 .. Len(main'.pending) : main'.pending[k] \in WholeP
        BY <1>1, <1>4, <2>1, <2>2, <3>2, AlongAppend
      <4> QED BY <1>4, <4>1
    <3> QED BY <2>1, <3>1, <3>2 DEF FeedQueues, FeedDrops, FeedPuts
  <2>4. \A i \in 0 .. Capacity - 1 : Whole(input'.slot[i])
    <3>1. CASE input' = input
      BY <1>3, <3>1
    <3>2. CASE put(Batch(seq))
      <4>1. \A i \in 0 .. Capacity - 1 : input'.slot[i] \in {Batch(seq), input.slot[i]}
        BY <2>1, <3>2, PutWrites
      <4> QED BY <1>3, <1>5, <4>1
    <3> QED BY <2>1, <3>1, <3>2 DEF FeedQueues, FeedDrops, FeedPuts
  <2> QED BY <1>3, <2>1, <2>3, <2>4 DEF Still
<1>16. CASE Flush
  <2>1. /\ main.pending # <<>> /\ Head(main.pending) \in Payload /\ put(Head(main.pending))
        /\ main'.pending = Tail(main.pending) /\ main'.checkpoint = main.checkpoint
        /\ Still /\ UNCHANGED <<seq, output>>
    BY <1>16, FlushSteps
  <2>2. Head(main.pending) \in WholeP /\ \A k \in 1 .. Len(main'.pending) : main'.pending[k] \in WholeP
    BY <1>1, <1>4, <2>1, AlongTail
  <2>3. \A i \in 0 .. Capacity - 1 : input'.slot[i] \in {Head(main.pending), input.slot[i]}
    BY <2>1, PutWrites
  <2>4. \A i \in 0 .. Capacity - 1 : Whole(input'.slot[i])
    BY <1>3, <1>4, <2>2, <2>3
  <2> QED BY <1>3, <1>4, <2>1, <2>2, <2>4 DEF Still
<1>17. CASE Over
  <2>1. main'.pending = main.pending /\ main'.checkpoint = main.checkpoint /\ UNCHANGED <<child, input, output>>
    BY <1>17 DEF Over, Still
  <2> QED BY <1>3, <2>1
<1>18. CASE \E p, old : Takes(p, old)
  BY <1>3, <1>9, <1>18
<1> QED BY <1>6, <1>7, <1>8, <1>10, <1>11, <1>14, <1>15, <1>16, <1>17, <1>18

-----------------------------------------------------------------------------
(* Covered.                                                                *)

\* A step that adds to the ring and to the queue, and forgets nothing, leaves
\* everything covered.
LEMMA CoverageKept ==
    ASSUME TypeOK, Coverage, input.read <= input.write, seq' \in Nat,
           input'.read = input.read, child'.model = child.model,
           input'.write - input'.read > Capacity => input.write - input.read > Capacity,
           Overtaken' => Overtaken, child'.pc # "ended" => child.pc # "ended",
           \A i \in Ahead : i \in Ahead' /\ At(i)' = At(i),
           \A i \in Ahead' : i \notin Ahead /\ At(i)'.kind = "snapshot"
              => \A n \in At(i)'.seq + 1 .. seq' : Comes(n, i + 1)',
           (\E k \in 1 .. Len(main.pending) : main.pending[k].kind = "snapshot")
              => \/ \E k \in 1 .. Len(main'.pending) : main'.pending[k].kind = "snapshot"
                 \/ \E i \in Ahead' : input.write <= i /\ At(i)'.kind = "snapshot",
           \A n \in 1 .. seq' : n <= seq \/ Unfed(n)',
           \A n \in Nat :
              n \in main.dropped \/ Unfed(n) \/ (\E k \in 1 .. Len(main.pending) : main.pending[k] = Batch(n))
              => \/ n \in main'.dropped \/ Unfed(n)'
                 \/ \E k \in 1 .. Len(main'.pending) : main'.pending[k] = Batch(n)
                 \/ \E i \in Ahead' : input.write <= i /\ At(i)' = Batch(n),
           \A k \in 1 .. Len(main'.pending) : main'.pending[k].kind = "snapshot"
              => /\ input'.write = input.write
                 /\ \E l \in 1 .. Len(main.pending) : main.pending[l] = main'.pending[k]
    PROVE  Coverage'
<1>1. /\ input.read \in Nat /\ input.write \in Nat /\ child.model.last_seq \in Nat /\ seq \in Nat
      /\ input.slot \in [0 .. Capacity - 1 -> Payload] /\ main.pending \in Seq(Payload)
  BY Fields
<1>2. \A x \in Payload : x.seq \in Nat
  BY DEF Payload
<1>3. \A i \in Ahead : i \in Nat /\ i < input.write /\ At(i) \in Payload
  <2>1. \A i \in Ahead : i \in Nat /\ i < input.write
    BY <1>1 DEF Ahead
  <2>2. \A i \in Ahead : i % Capacity \in 0 .. Capacity - 1
    BY <2>1, PlaceIsSlot
  <2> QED BY <1>1, <2>1, <2>2 DEF At
<1>4. \A p \in Nat : p <= input.write /\ SnapshotFrom(p) => SnapshotFrom(p)'
  <2>1. SUFFICES ASSUME NEW p \in Nat, p <= input.write, SnapshotFrom(p)
                 PROVE  SnapshotFrom(p)'
    OBVIOUS
  <2>2. CASE \E i \in Ahead : p <= i /\ At(i).kind = "snapshot"
    BY <2>2 DEF SnapshotFrom
  <2>3. CASE \E k \in 1 .. Len(main.pending) : main.pending[k].kind = "snapshot"
    <3>1. CASE \E k \in 1 .. Len(main'.pending) : main'.pending[k].kind = "snapshot"
      BY <3>1 DEF SnapshotFrom
    <3>2. CASE \E i \in Ahead' : input.write <= i /\ At(i)'.kind = "snapshot"
      <4>1. PICK i \in Ahead' : input.write <= i /\ At(i)'.kind = "snapshot"
        BY <3>2
      <4>2. p <= i
        BY <1>1, <2>1, <4>1 DEF Ahead
      <4> QED BY <4>1, <4>2 DEF SnapshotFrom
    <3> QED BY <2>3, <3>1, <3>2
  <2> QED BY <2>1, <2>2, <2>3 DEF SnapshotFrom
<1>5. \A n, p \in Nat : p <= input.write /\ Comes(n, p) => Comes(n, p)'
  <2>1. SUFFICES ASSUME NEW n \in Nat, NEW p \in Nat, p <= input.write, Comes(n, p)
                 PROVE  Comes(n, p)'
    OBVIOUS
  <2>2. CASE \E i \in Ahead : p <= i /\ At(i) = Batch(n)
    <3>1. PICK i \in Ahead : p <= i /\ At(i) = Batch(n)
      BY <2>2
    <3>2. i \in Ahead' /\ p <= i /\ At(i)' = Batch(n)
      BY <3>1
    <3> QED BY <3>2 DEF Comes, Batch
  <2>3. CASE n \in main.dropped \/ Unfed(n) \/ (\E k \in 1 .. Len(main.pending) : main.pending[k] = Batch(n))
    <3>1. CASE \E i \in Ahead' : input.write <= i /\ At(i)' = Batch(n)
      <4>1. PICK i \in Ahead' : input.write <= i /\ At(i)' = Batch(n)
        BY <3>1
      <4>2. p <= i
        BY <1>1, <2>1, <4>1 DEF Ahead
      <4> QED BY <4>1, <4>2 DEF Comes, Batch
    <3>2. CASE n \in main'.dropped \/ Unfed(n)'
               \/ \E k \in 1 .. Len(main'.pending) : main'.pending[k] = Batch(n)
      BY <3>2 DEF Comes, Batch
    <3> QED BY <2>3, <3>1, <3>2
  <2> QED BY <2>1, <2>2, <2>3 DEF Comes
<1>6. \A s, p \in Nat : p <= input.write /\ ComesAfter(s, p) => ComesAfter(s, p)'
  <2>1. SUFFICES ASSUME NEW s \in Nat, NEW p \in Nat, p <= input.write, ComesAfter(s, p),
                        NEW n \in s + 1 .. seq'
                 PROVE  Comes(n, p)'
    BY DEF ComesAfter
  <2>2. n \in Nat /\ n \in 1 .. seq'
    BY <2>1
  <2>3. CASE Unfed(n)'
    BY <2>3 DEF Comes
  <2>4. CASE n <= seq
    <3>1. Comes(n, p)
      BY <1>1, <2>1, <2>2, <2>4 DEF ComesAfter
    <3> QED BY <1>5, <2>1, <2>2, <3>1
  <2> QED BY <2>2, <2>3, <2>4
<1>7. child'.pc # "ended" /\ child'.model.status # NeedsSnapshot
        => SnapshotFrom(input.read)' \/ ComesAfter(child.model.last_seq, input.read)'
  <2>1. \A s, p \in Nat : s = child.model.last_seq /\ p = input.read
           /\ child'.pc # "ended" /\ child'.model.status # NeedsSnapshot
           => SnapshotFrom(p)' \/ ComesAfter(s, p)'
    BY <1>1, <1>4, <1>6 DEF Coverage
  <2> QED BY <1>1, <2>1 DEF SnapshotFrom, ComesAfter
<1>8. \A i \in Ahead' : At(i)'.kind = "snapshot"
        => SnapshotFrom(i + 1)' \/ ComesAfter(At(i).seq, i + 1)'
  <2>1. SUFFICES ASSUME NEW i \in Ahead', At(i)'.kind = "snapshot"
                 PROVE  SnapshotFrom(i + 1)' \/ ComesAfter(At(i).seq, i + 1)'
    OBVIOUS
  <2>2. CASE i \in Ahead
    <3>1. /\ i \in Nat /\ i + 1 \in Nat /\ i + 1 <= input.write /\ At(i).seq \in Nat /\ At(i)' = At(i)
      BY <1>1, <1>2, <1>3, <2>2
    <3>2. SnapshotFrom(i + 1) \/ ComesAfter(At(i).seq, i + 1)
      BY <2>1, <2>2, <3>1 DEF Coverage
    <3>3. \A s, p \in Nat : s = At(i).seq /\ p = i + 1 => SnapshotFrom(p)' \/ ComesAfter(s, p)'
      BY <1>4, <1>6, <3>1, <3>2
    <3>4. \A s, p \in Nat : s = At(i)'.seq /\ p = i + 1 => SnapshotFrom(p)' \/ ComesAfter(s, p)'
      BY <3>1, <3>3
    <3> HIDE DEF SnapshotFrom, ComesAfter
    <3> QED BY <3>1, <3>4 DEF SnapshotFrom, ComesAfter
  <2>3. CASE i \notin Ahead
    <3>1. \A n \in At(i)'.seq + 1 .. seq' : Comes(n, i + 1)'
      BY <2>1, <2>3
    <3> QED BY <3>1 DEF ComesAfter
  <2> QED BY <2>2, <2>3
<1>9. \A k \in 1 .. Len(main'.pending) : main'.pending[k].kind = "snapshot"
        => ComesAfter(main.pending[k].seq, input.write)'
  <2>1. SUFFICES ASSUME NEW k \in 1 .. Len(main'.pending), main'.pending[k].kind = "snapshot"
                 PROVE  ComesAfter(main.pending[k].seq, input.write)'
    OBVIOUS
  <2>2. /\ input'.write = input.write
        /\ \E l \in 1 .. Len(main.pending) : main.pending[l] = main'.pending[k]
    BY <2>1
  <2>3. PICK l \in 1 .. Len(main.pending) : main.pending[l] = main'.pending[k]
    BY <2>2
  <2>4. main.pending[l] \in Payload
    BY <1>1
  <2>5. main.pending[l].seq \in Nat /\ main.pending[l].kind = "snapshot"
    BY <1>2, <2>1, <2>3, <2>4
  <2>6. ComesAfter(main.pending[l].seq, input.write)
    BY <2>5 DEF Coverage
  <2>7. \A s, p \in Nat : s = main.pending[l].seq /\ p = input.write => ComesAfter(s, p)'
    BY <1>1, <1>6, <2>6
  <2>8. \A s, p \in Nat : s = main'.pending[k].seq /\ p = input'.write => ComesAfter(s, p)'
    BY <2>2, <2>3, <2>7
  <2> QED BY <1>1, <2>2, <2>3, <2>5, <2>8 DEF ComesAfter
<1>10. Overtaken' => SnapshotFrom(input.read)'
  <2>1. \A p \in Nat : p = input.read /\ Overtaken' => SnapshotFrom(p)'
    BY <1>1, <1>4 DEF Coverage
  <2> QED BY <1>1, <2>1 DEF SnapshotFrom
<1>11. input'.write - input'.read > Capacity => SnapshotFrom(input.read)'
  <2>1. \A p \in Nat : p = input.read /\ input'.write - input'.read > Capacity => SnapshotFrom(p)'
    BY <1>1, <1>4 DEF Coverage
  <2> QED BY <1>1, <2>1 DEF SnapshotFrom
<1> QED BY <1>7, <1>8, <1>9, <1>10, <1>11 DEF Coverage

\* Taking a payload moves the host past it, and past nothing else that is
\* still in the ring.
LEMMA CoverageTaken ==
    ASSUME TypeOK, Ring, Coverage, NEW p, NEW old, Takes(p, old)
    PROVE  Coverage'
<1> DEFINE r == child.read
<1>1. /\ input.read \in Nat /\ input.write \in Nat /\ child.model.last_seq \in Nat /\ seq \in Nat
      /\ input.slot \in [0 .. Capacity - 1 -> Payload] /\ main.pending \in Seq(Payload)
      /\ r \in Nat /\ Capacity \in Nat /\ child.model \in Model /\ child.held \in Payload
  BY Fields
<1>2. /\ UNCHANGED <<seq, main>> /\ child.pc = "got" /\ child'.pc # "got"
      /\ input'.read = r + 1 /\ input'.write = input.write /\ input'.slot = input.slot
      /\ r <= input.read /\ r < input.write
  BY DEF Takes, Ring
<1>3. \A i : At(i)' = At(i)
  BY <1>2 DEF At
<1>4. /\ \A i \in Ahead' : i \in Nat /\ r + 1 <= i /\ i < input.write
      /\ \A i \in Ahead : i \in Nat /\ input.read <= i /\ i < input.write /\ input.write <= i + Capacity
      /\ \A i \in Ahead : r + 1 <= i => i \in Ahead'
      /\ \A i \in Ahead' : input.read <= i => i \in Ahead
      /\ input.write <= r + Capacity /\ input.read = r => r \in Ahead
  <2>1. \A i \in Ahead' : i \in Nat /\ r + 1 <= i /\ i < input.write /\ input.write <= i + Capacity
    BY <1>1, <1>2 DEF Ahead
  <2>2. \A i \in Ahead : i \in Nat /\ input.read <= i /\ i < input.write /\ input.write <= i + Capacity
    BY <1>1, <1>2 DEF Ahead
  <2>3. \A i \in Ahead : r + 1 <= i => i \in Ahead'
    BY <1>1, <1>2, <2>2 DEF Ahead
  <2>4. \A i \in Ahead' : input.read <= i => i \in Ahead
    BY <1>1, <2>1 DEF Ahead
  <2>5. input.write <= r + Capacity /\ input.read = r => r \in Ahead
    BY <1>1, <1>2 DEF Ahead
  <2> QED BY <2>1, <2>2, <2>3, <2>4, <2>5
<1>5. \A n : Unfed(n)' <=> Unfed(n)
  BY <1>2 DEF Unfed
\* Beyond what was taken nothing changes.
<1>6. \A j, k \in Nat : j <= k /\ r + 1 <= k /\ SnapshotFrom(k) => SnapshotFrom(j)'
  <2>1. SUFFICES ASSUME NEW j \in Nat, NEW k \in Nat, j <= k, r + 1 <= k, SnapshotFrom(k)
                 PROVE  SnapshotFrom(j)'
    OBVIOUS
  <2>2. CASE \E i \in Ahead : k <= i /\ At(i).kind = "snapshot"
    <3>1. PICK i \in Ahead : k <= i /\ At(i).kind = "snapshot"
      BY <2>2
    <3>a. i \in Nat
      BY <1>4, <3>1
    <3>2. r + 1 <= i /\ j <= i
      BY <1>1, <2>1, <3>1, <3>a
    <3>3. i \in Ahead' /\ At(i)'.kind = "snapshot"
      BY <1>3, <1>4, <3>1, <3>2
    <3> QED BY <3>2, <3>3 DEF SnapshotFrom
  <2>3. CASE \E l \in 1 .. Len(main.pending) : main.pending[l].kind = "snapshot"
    BY <1>2, <2>3 DEF SnapshotFrom
  <2> QED BY <2>1, <2>2, <2>3 DEF SnapshotFrom
<1>7. \A n, k \in Nat : r + 1 <= k /\ Comes(n, k) => Comes(n, k)'
  <2>1. SUFFICES ASSUME NEW n \in Nat, NEW k \in Nat, r + 1 <= k, Comes(n, k)
                 PROVE  Comes(n, k)'
    OBVIOUS
  <2>2. CASE \E i \in Ahead : k <= i /\ At(i) = Batch(n)
    <3>1. PICK i \in Ahead : k <= i /\ At(i) = Batch(n)
      BY <2>2
    <3>2. i \in Ahead' /\ k <= i /\ At(i)' = Batch(n)
      BY <1>1, <1>3, <1>4, <2>1, <3>1 DEF Ahead
    <3> QED BY <3>2 DEF Comes, Batch
  <2>3. CASE n \in main.dropped \/ Unfed(n) \/ (\E l \in 1 .. Len(main.pending) : main.pending[l] = Batch(n))
    BY <1>2, <1>5, <2>3 DEF Comes, Batch
  <2> QED BY <2>1, <2>2, <2>3 DEF Comes
<1>8. \A s, k \in Nat : r + 1 <= k /\ ComesAfter(s, k) => ComesAfter(s, k)'
  <2>1. SUFFICES ASSUME NEW s \in Nat, NEW k \in Nat, r + 1 <= k, ComesAfter(s, k), NEW n \in s + 1 .. seq'
                 PROVE  Comes(n, k)'
    BY DEF ComesAfter
  <2>2. n \in Nat /\ n \in s + 1 .. seq
    BY <1>1, <1>2, <2>1
  <2> QED BY <1>7, <2>1, <2>2 DEF ComesAfter
<1>9. \A k \in 1 .. Len(main'.pending) : main'.pending[k].kind = "snapshot"
        => ComesAfter(main.pending[k].seq, input.write)'
  <2>1. SUFFICES ASSUME NEW k \in 1 .. Len(main.pending), main.pending[k].kind = "snapshot"
                 PROVE  ComesAfter(main.pending[k].seq, input.write)'
    BY <1>2
  <2>2. main.pending[k].seq \in Nat
    <3>1. main.pending[k] \in Payload
      BY <1>1
    <3> QED BY <3>1 DEF Payload
  <2>3. \A s, l \in Nat : s = main.pending[k].seq /\ l = input.write => ComesAfter(s, l)'
    BY <1>1, <1>2, <1>8, <2>1 DEF Coverage
  <2> QED BY <1>1, <1>2, <2>2, <2>3 DEF ComesAfter
<1>10. ~Overtaken'
  BY <1>2 DEF Overtaken
\* What must be shown, in terms of the counter that is stored.
<1>11. input.read = r \/ r + 1 <= input.read
  BY <1>1, <1>2
<1>12. r \notin Ahead \/ At(r).kind # "snapshot" => \A k \in Nat : k = r + 1 /\ SnapshotFrom(r) => SnapshotFrom(k)'
  <2>1. SUFFICES ASSUME NEW k \in Nat, k = r + 1, SnapshotFrom(r), r \notin Ahead \/ At(r).kind # "snapshot"
                 PROVE  SnapshotFrom(k)'
    OBVIOUS
  <2>2. SnapshotFrom(k)
    <3>1. CASE \E i \in Ahead : r <= i /\ At(i).kind = "snapshot"
      <4>1. PICK i \in Ahead : r <= i /\ At(i).kind = "snapshot"
        BY <3>1
      <4>2. i # r
        BY <2>1, <4>1
      <4>3. k <= i
        BY <1>1, <1>4, <2>1, <4>1, <4>2
      <4> QED BY <4>1, <4>3 DEF SnapshotFrom
    <3>2. CASE \E l \in 1 .. Len(main.pending) : main.pending[l].kind = "snapshot"
      BY <3>2 DEF SnapshotFrom
    <3> QED BY <2>1, <3>1, <3>2 DEF SnapshotFrom
  <2> QED BY <1>6, <2>1, <2>2
<1>13. \A n, k \in Nat : k = r + 1 /\ Comes(n, r) /\ (r \notin Ahead \/ At(r) # Batch(n)) => Comes(n, k)'
  <2>1. SUFFICES ASSUME NEW n \in Nat, NEW k \in Nat, k = r + 1, Comes(n, r), r \notin Ahead \/ At(r) # Batch(n)
                 PROVE  Comes(n, k)'
    OBVIOUS
  <2>2. Comes(n, k)
    <3>1. CASE \E i \in Ahead : r <= i /\ At(i) = Batch(n)
      <4>1. PICK i \in Ahead : r <= i /\ At(i) = Batch(n)
        BY <3>1
      <4>2. i # r
        BY <2>1, <4>1
      <4>3. k <= i
        BY <1>1, <1>4, <2>1, <4>1, <4>2
      <4> QED BY <4>1, <4>3 DEF Comes
    <3>2. CASE n \in main.dropped \/ Unfed(n) \/ (\E l \in 1 .. Len(main.pending) : main.pending[l] = Batch(n))
      BY <3>2 DEF Comes
    <3> QED BY <2>1, <3>1, <3>2 DEF Comes
  <2> QED BY <1>7, <2>1, <2>2
\* The snapshot that makes up for what was cleared, or for a ring overrun.
<1>14. input.read # r \/ input.write - (r + 1) > Capacity => \A k \in Nat : k = r + 1 => SnapshotFrom(k)'
  <2>1. CASE input.read # r
    <3>1. SnapshotFrom(input.read)
      BY <1>2, <2>1 DEF Coverage, Overtaken
    <3> QED BY <1>1, <1>6, <1>11, <2>1, <3>1
  <2>2. CASE input.read = r /\ input.write - (r + 1) > Capacity
    <3>1. input.write - input.read > Capacity
      BY <1>1, <2>2
    <3>a. r \notin Ahead
      BY <1>1, <1>4, <2>2
    <3>2. SnapshotFrom(r)
      BY <2>2, <3>1 DEF Coverage, SnapshotFrom
    <3> QED BY <1>12, <3>a, <3>2
  <2> QED BY <1>1, <2>1, <2>2
\* The snapshots that are left.
<1>15. \A i \in Ahead' : At(i).kind = "snapshot"
          => \A s, k \in Nat : s = At(i).seq /\ k = i + 1 => SnapshotFrom(k)' \/ ComesAfter(s, k)'
  <2>1. SUFFICES ASSUME NEW i \in Ahead', At(i).kind = "snapshot",
                        NEW s \in Nat, NEW k \in Nat, s = At(i).seq, k = i + 1
                 PROVE  SnapshotFrom(k)' \/ ComesAfter(s, k)'
    OBVIOUS
  <2>2. i \in Nat /\ r + 1 <= i
    BY <1>4, <2>1
  <2>3. CASE i \in Ahead
    <3>1. SnapshotFrom(k) \/ ComesAfter(s, k)
      BY <2>1, <2>3 DEF Coverage
    <3> QED BY <1>1, <1>6, <1>8, <2>1, <2>2, <3>1
  <2>4. CASE i \notin Ahead
    <3>a. i < input.read
      BY <1>1, <1>4, <2>1, <2>2, <2>4
    <3>b. input.read \in Nat /\ r \in Nat
      BY <1>1
    <3>1. input.read # r /\ k <= input.read
      BY <2>1, <2>2, <3>a, <3>b
    <3>2. SnapshotFrom(input.read)
      BY <1>2, <3>1 DEF Coverage, Overtaken
    <3> QED BY <1>1, <1>6, <1>11, <2>1, <3>1, <3>2
  <2> QED BY <2>3, <2>4
\* What the host itself still misses.
<1>16. child'.pc # "ended" /\ child'.model.status # NeedsSnapshot
         => \A s, k \in Nat : s = child'.model.last_seq /\ k = r + 1 => SnapshotFrom(k)' \/ ComesAfter(s, k)'
  <2>1. SUFFICES ASSUME child'.pc # "ended", child'.model.status # NeedsSnapshot,
                        NEW s \in Nat, NEW k \in Nat, s = child'.model.last_seq, k = r + 1
                 PROVE  SnapshotFrom(k)' \/ ComesAfter(s, k)'
    OBVIOUS
  <2>2. CASE input.read # r \/ input.write - (r + 1) > Capacity
    BY <1>14, <2>1, <2>2
  <2>3. CASE input.read = r /\ ~(input.write - (r + 1) > Capacity) /\ r \notin Ahead
    <3>1. input.write - input.read > Capacity
      BY <1>1, <1>2, <2>3 DEF Ahead
    <3>2. SnapshotFrom(r)
      BY <2>3, <3>1 DEF Coverage, SnapshotFrom
    <3> QED BY <1>12, <2>1, <2>3, <3>2
  <2>4. CASE input.read = r /\ r \in Ahead
    <3>1. p = At(r) /\ p.kind # "garbage" /\ child'.model = After(p, old)
          /\ (p.kind = "resume" => MayResume(child.model, p.seq)) /\ p \in Payload
      <4>1. child.held = At(r)
        BY <1>2, <2>4 DEF Ring
      <4>2. p = At(r)
        BY <4>1 DEF Takes, Copies
      <4> QED BY <2>1, <4>2 DEF Takes
    <3>2. CASE p.kind = "snapshot"
      <4>1. child'.model.last_seq = p.seq
        BY <1>1, <3>1, <3>2 DEF After, restore, Model
      <4>2. SnapshotFrom(k) \/ ComesAfter(s, k)
        BY <2>1, <2>4, <3>1, <3>2, <4>1 DEF Coverage
      <4> QED BY <1>1, <1>6, <1>8, <2>1, <4>2
    <3>3. CASE p.kind # "snapshot"
      <4>1. /\ child.model.status # NeedsSnapshot
            /\ \/ s = child.model.last_seq /\ p.kind = "resume"
               \/ s = child.model.last_seq + 1 /\ p.seq = s
        <5>1. CASE p.kind = "resume"
          <6>1. MayResume(child.model, p.seq) /\ child'.model = resume(child.model)
            BY <3>1, <5>1 DEF After
          <6> QED BY <1>1, <2>1, <5>1, <6>1 DEF resume, MayResume, Model, Recovering, NeedsSnapshot
        <5>2. CASE p.kind # "resume"
          <6>1. child'.model = accept(child.model, p.seq) \/ child'.model = lagged(child.model)
            BY <3>1, <3>3, <5>2 DEF After
          <6>2. lagged(child.model).status = NeedsSnapshot
            BY <1>1 DEF lagged, Model
          <6>3. child'.model = accept(child.model, p.seq)
            BY <2>1, <6>1, <6>2
          <6>4. child.model.status # NeedsSnapshot
            BY <2>1, <6>3 DEF accept
          <6>5. p.seq = child.model.last_seq + 1
            BY <1>1, <2>1, <6>3, <6>4 DEF accept, Model
          <6>6. child'.model.last_seq = p.seq
            BY <1>1, <6>3, <6>4, <6>5 DEF accept, Model
          <6> QED BY <2>1, <6>4, <6>5, <6>6
        <5> QED BY <5>1, <5>2
      <4>2. SnapshotFrom(r) \/ ComesAfter(child.model.last_seq, r)
        BY <1>2, <2>4, <4>1 DEF Coverage, SnapshotFrom, ComesAfter
      <4>3. CASE SnapshotFrom(r)
        BY <1>12, <2>1, <3>1, <3>3, <4>3
      <4>4. CASE ComesAfter(child.model.last_seq, r)
        <5>1. SUFFICES ASSUME NEW n \in s + 1 .. seq
                       PROVE  Comes(n, k)'
          BY <1>2 DEF ComesAfter
        <5>2. n \in Nat /\ Comes(n, r)
          BY <1>1, <2>1, <4>1, <4>4, <5>1 DEF ComesAfter
        <5>3. p # Batch(n)
          BY <2>1, <4>1, <5>1 DEF Batch
        <5> QED BY <1>13, <2>1, <3>1, <5>2, <5>3
      <4> QED BY <4>2, <4>3, <4>4
    <3> QED BY <3>2, <3>3
  <2> QED BY <1>1, <1>11, <2>2, <2>3, <2>4
\* The parts of Coverage.
<1>17. child'.pc # "ended" /\ child'.model.status # NeedsSnapshot
         => SnapshotFrom(input.read)' \/ ComesAfter(child.model.last_seq, input.read)'
  <2>1. child'.model.last_seq \in Nat
    BY <1>1, TakenModel
  <2>2. \A s, k \in Nat : s = child'.model.last_seq /\ k = input'.read
          /\ child'.pc # "ended" /\ child'.model.status # NeedsSnapshot
          => SnapshotFrom(k)' \/ ComesAfter(s, k)'
    BY <1>2, <1>16
  <2>3. PICK s \in Nat, k \in Nat : s = child'.model.last_seq /\ k = input'.read
    BY <1>1, <1>2, <2>1
  <2> QED BY <2>2, <2>3 DEF SnapshotFrom, ComesAfter, Comes
<1>18. \A i \in Ahead' : At(i)'.kind = "snapshot"
         => SnapshotFrom(i + 1)' \/ ComesAfter(At(i).seq, i + 1)'
  <2>1. SUFFICES ASSUME NEW i \in Ahead', At(i)'.kind = "snapshot"
                 PROVE  SnapshotFrom(i + 1)' \/ ComesAfter(At(i).seq, i + 1)'
    OBVIOUS
  <2>2. i \in Nat /\ i + 1 \in Nat
    BY <1>4
  <2>3. At(i) \in Payload /\ At(i)' = At(i)
    <3>1. i % Capacity \in 0 .. Capacity - 1
      BY <2>2, PlaceIsSlot
    <3> QED BY <1>1, <1>3, <3>1 DEF At
  <2>4. At(i).seq \in Nat
    BY <2>3 DEF Payload
  <2>5. \A s, k \in Nat : s = At(i)'.seq /\ k = i + 1 => SnapshotFrom(k)' \/ ComesAfter(s, k)'
    BY <1>15, <2>1, <2>3
  <2> QED BY <2>2, <2>3, <2>4, <2>5 DEF SnapshotFrom, ComesAfter
<1>19. input'.write - input'.read > Capacity => SnapshotFrom(input.read)'
  <2>1. \A k \in Nat : k = input'.read /\ input'.write - input'.read > Capacity => SnapshotFrom(k)'
    BY <1>2, <1>14
  <2>2. PICK k \in Nat : k = input'.read
    BY <1>1, <1>2
  <2> QED BY <2>1, <2>2 DEF SnapshotFrom
<1> QED BY <1>9, <1>10, <1>17, <1>18, <1>19 DEF Coverage

\* What is put at the end of a ring that is not full is ahead of the host.
LEMMA CoveragePut ==
    ASSUME TypeOK, Coverage, input.read <= input.write, NEW p \in Payload, put(p), ~Full,
           child' = child, seq' = seq,
           (\E k \in 1 .. Len(main.pending) : main.pending[k].kind = "snapshot") => p.kind = "snapshot",
           \A k \in 1 .. Len(main'.pending) : main'.pending[k].kind # "snapshot",
           p.kind = "snapshot" => \A n \in p.seq + 1 .. seq :
              n \in main'.dropped \/ Unfed(n)' \/ \E k \in 1 .. Len(main'.pending) : main'.pending[k] = Batch(n),
           \A n \in Nat :
              n \in main.dropped \/ Unfed(n) \/ (\E k \in 1 .. Len(main.pending) : main.pending[k] = Batch(n))
              => \/ n \in main'.dropped \/ Unfed(n)'
                 \/ \E k \in 1 .. Len(main'.pending) : main'.pending[k] = Batch(n)
                 \/ p = Batch(n)
    PROVE  Coverage'
<1>1. /\ input.read \in Nat /\ input.write \in Nat /\ seq \in Nat /\ Capacity \in Nat /\ Capacity > 0
  BY Fields
<1>2. /\ input'.read = input.read /\ input'.write = input.write + 1
      /\ \A i \in Nat : i = input.write => At(i)' = p
      /\ \A i \in Nat : i < input.write /\ input.write < i + Capacity => At(i)' = At(i)
  BY PutWrites
<1>3. input.write < input.read + Capacity
  BY <1>1 DEF Full
<1>4. \A i \in Ahead : i \in Nat /\ i < input.write /\ input.write < i + Capacity
  BY <1>1, <1>3 DEF Ahead
<1>5. \A i \in Ahead : i \in Ahead' /\ At(i)' = At(i)
  <2>1. \A i \in Ahead : At(i)' = At(i)
    BY <1>2, <1>4
  <2>2. \A i \in Ahead : i \in Ahead'
    BY <1>1, <1>2, <1>4 DEF Ahead
  <2> QED BY <2>1, <2>2
<1>6. \A i \in Ahead' : i \in Ahead \/ i = input.write
  BY <1>1, <1>2, <1>3 DEF Ahead
<1>7. \A i : i = input.write => i \in Ahead' /\ i \in Nat /\ At(i)' = p
  <2>1. \A i : i = input.write => i \in Ahead'
    BY <1>1, <1>2 DEF Ahead
  <2> QED BY <1>1, <1>2, <2>1
<1>8. \A i \in Ahead' : i \notin Ahead /\ At(i)'.kind = "snapshot"
         => \A n \in At(i)'.seq + 1 .. seq' : Comes(n, i + 1)'
  <2>1. SUFFICES ASSUME NEW i \in Ahead', i \notin Ahead, At(i)'.kind = "snapshot", NEW n \in At(i)'.seq + 1 .. seq'
                 PROVE  Comes(n, i + 1)'
    OBVIOUS
  <2>2. At(i)' = p
    BY <1>6, <1>7, <2>1
  <2>3. n \in main'.dropped \/ Unfed(n)' \/ \E k \in 1 .. Len(main'.pending) : main'.pending[k] = Batch(n)
    BY <2>1, <2>2
  <2> QED BY <2>3 DEF Comes, Batch
<1>9. (\E k \in 1 .. Len(main.pending) : main.pending[k].kind = "snapshot")
         => \E i \in Ahead' : input.write <= i /\ At(i)'.kind = "snapshot"
  BY <1>1, <1>7
<1>10. \A n : p = Batch(n) => \E i \in Ahead' : input.write <= i /\ At(i)' = Batch(n)
  BY <1>1, <1>7
<1>11. \A n \in 1 .. seq' : n <= seq
  BY <1>1
<1>12. input'.write - input'.read <= Capacity
  BY <1>1, <1>2, <1>3
<1>13. ~(input'.write - input'.read > Capacity) /\ (Overtaken' => Overtaken)
  BY <1>1, <1>2, <1>12 DEF Overtaken
<1> QED BY <1>1, <1>2, <1>5, <1>8, <1>9, <1>10, <1>11, <1>13, CoverageKept

\* Whatever the host misses is on its way, after every step.
LEMMA CoveredSteps ==
    ASSUME TypeOK, TypeOK', Ring, Queue, Limits, Covered,
           \/ Rests \/ Reads \/ Says
           \/ \E p, old : Takes(p, old)
           \/ Produce \/ drain \/ Feed \/ Flush
           \/ (OutputMoves /\ MovesOn) \/ Over
    PROVE  Covered'
<1>1. /\ input.read \in Nat /\ input.write \in Nat /\ seq \in Nat /\ main.barrier \in Nat
      /\ main.pending \in Seq(Payload) /\ main.recovering \in BOOLEAN
      /\ Capacity \in Nat /\ Capacity > 0 /\ input.read <= input.write /\ seq' \in Nat
      /\ ~main.recovering => main.pending = <<>>
      /\ main.recovering => main.barrier <= seq
      /\ \A k \in 1 .. Len(main.pending) : main.pending[k].kind = "snapshot" => k = 1
  BY Fields DEF Queue, Ring, TypeOK
<1>2. SUFFICES ASSUME main'.pc # "failed"
               PROVE  Coverage'
  BY DEF Covered
<1>3. main.pc # "failed"
  <2>1. CASE Rests \/ Reads \/ Says \/ \E p, old : Takes(p, old)
    BY <1>2, <2>1 DEF Rests, Reads, Says, Takes
  <2>2. CASE Produce \/ drain \/ Feed \/ Flush
    BY <2>2, ProduceSteps, DrainSteps, FeedSteps, FlushSteps
  <2>3. CASE MovesOn \/ Over
    BY <2>3 DEF MovesOn, Over
  <2> QED BY <2>1, <2>2, <2>3
<1>4. Coverage
  BY <1>3 DEF Covered
\* Steps that leave the ring and the queue alone.
<1>5. ASSUME input' = input, main'.pending = main.pending, child'.model = child.model,
             Overtaken' => Overtaken, child'.pc # "ended" => child.pc # "ended",
             \A n \in 1 .. seq' : n <= seq \/ Unfed(n)',
             \A n \in Nat : n \in main.dropped \/ Unfed(n) => n \in main'.dropped \/ Unfed(n)'
      PROVE  Coverage'
  <2>1. \A i \in Ahead : i \in Ahead' /\ At(i)' = At(i)
    BY <1>5 DEF Ahead, At
  <2>2. \A i \in Ahead' : i \in Ahead
    BY <1>5 DEF Ahead
  <2> QED BY <1>1, <1>4, <1>5, <2>1, <2>2, CoverageKept
<1>6. CASE Rests \/ Reads \/ Says
  <2>1. /\ input' = input /\ main' = main /\ seq' = seq /\ child'.model = child.model
        /\ child'.pc # "ended" => child.pc # "ended"
    BY <1>6 DEF Rests, Reads, Says
  <2>2. ~Overtaken'
    BY <1>6 DEF Rests, Reads, Says, Overtaken
  <2>3. \A n : Unfed(n) => Unfed(n)'
    BY <2>1 DEF Unfed
  <2>4. \A n \in 1 .. seq' : n <= seq
    BY <1>1, <2>1
  <2> QED BY <1>5, <2>1, <2>2, <2>3, <2>4
<1>7. CASE \E p, old : Takes(p, old)
  BY <1>4, <1>7, CoverageTaken
<1>8. CASE Produce
  <2>1. /\ input' = input /\ Keeps /\ seq' = seq + 1 /\ child' = child /\ main'.pc = "drain" /\ main.pc = "idle"
    BY <1>8, ProduceSteps DEF Still
  <2>2. \A n : ~Unfed(n)
    BY <2>1 DEF Unfed
  <2>3. \A n : n = seq + 1 => Unfed(n)'
    BY <1>1, <2>1 DEF Unfed, Keeps
  <2>4. \A n \in 1 .. seq' : n <= seq \/ Unfed(n)'
    BY <1>1, <2>1, <2>3
  <2>5. Overtaken' => Overtaken
    BY <2>1 DEF Overtaken
  <2> QED BY <1>5, <2>1, <2>2, <2>4, <2>5 DEF Keeps
<1>9. CASE MovesOn \/ TakesCheckpoint \/ Over
  <2>1. /\ input' = input /\ main'.pending = main.pending /\ main'.dropped = main.dropped
        /\ seq' = seq /\ child' = child
    BY <1>9 DEF MovesOn, TakesCheckpoint, Over, Still, Keeps
  <2>2. \A n : Unfed(n) => Unfed(n)'
    <3>1. CASE MovesOn
      BY <1>2, <3>1 DEF MovesOn, Keeps, Unfed
    <3>2. CASE TakesCheckpoint
      BY <3>2 DEF TakesCheckpoint, Unfed
    <3>3. CASE Over
      BY <3>3 DEF Over, Unfed
    <3> QED BY <1>9, <3>1, <3>2, <3>3
  <2>3. Overtaken' => Overtaken
    BY <2>1 DEF Overtaken
  <2>4. \A n \in 1 .. seq' : n <= seq
    BY <1>1, <2>1
  <2> QED BY <1>5, <2>1, <2>2, <2>3, <2>4
<1>10. CASE Recovers
  <2> DEFINE q == recovery(main).pending
             c == main.checkpoint.seq
  <2>1. c \in Nat /\ c <= seq
    BY <1>1, Fields DEF Limits, Within
  <2>2. /\ q \in Seq(Payload) /\ Len(q) = seq - c + 2 /\ q[1] = Snapshot(main.checkpoint) /\ q[Len(q)] = Resume(seq)
        /\ \A k \in 2 .. seq - c + 1 : q[k] = Batch(c + k - 1)
    <3>1. main.pending = <<>>
      BY <1>1, <1>10 DEF Recovers
    <3> QED BY <2>1, <3>1, RecoveryQueue
  <2>3. main'.pending = q /\ seq' = seq /\ input'.read = input.write /\ input'.write = input.write
        /\ main'.checkpoint = main.checkpoint
    BY <1>10 DEF Recovers
  <2>4. Snapshot(main.checkpoint).kind = "snapshot" /\ Snapshot(main.checkpoint).seq = c
    BY DEF Snapshot
  <2>5. \A n : Batch(n).kind = "batch" /\ Resume(n).kind = "resume"
    BY DEF Batch, Resume
  <2> HIDE DEF q, c
  <2>6. \A j : SnapshotFrom(j)'
    <3>1. 1 \in 1 .. Len(main'.pending) /\ main'.pending[1].kind = "snapshot"
      BY <1>1, <2>1, <2>2, <2>3, <2>4
    <3> QED BY <3>1 DEF SnapshotFrom
  <2>7. \A k \in 1 .. Len(main'.pending) : main'.pending[k].kind = "snapshot" => main'.pending[k].seq = c
    <3>1. \A k \in 1 .. Len(q) : k = 1 \/ k \in 2 .. seq - c + 1 \/ k = Len(q)
      BY <1>1, <2>1, <2>2
    <3> QED BY <2>2, <2>3, <2>4, <2>5, <3>1
  <2>8. \A n \in c + 1 .. seq : \E k \in 1 .. Len(q) : q[k] = Batch(n)
    <3>1. SUFFICES ASSUME NEW n \in c + 1 .. seq PROVE \E k \in 1 .. Len(q) : q[k] = Batch(n)
      OBVIOUS
    <3>2. n - c + 1 \in 2 .. seq - c + 1 /\ n - c + 1 \in 1 .. Len(q) /\ c + (n - c + 1) - 1 = n
      BY <1>1, <2>1, <2>2, <3>1
    <3>3. q[n - c + 1] = Batch(n)
      BY <2>2, <3>2
    <3> QED BY <3>2, <3>3
  <2>9. \A n \in c + 1 .. seq : \A j : Comes(n, j)'
    <3>1. SUFFICES ASSUME NEW n \in c + 1 .. seq, NEW j PROVE Comes(n, j)'
      OBVIOUS
    <3>2. \E k \in 1 .. Len(main'.pending) : main'.pending[k] = Batch(n)
      BY <2>3, <2>8, <3>1
    <3> QED BY <3>2 DEF Comes, Batch
  <2>10. \A k \in 1 .. Len(main'.pending) : main'.pending[k].kind = "snapshot"
            => ComesAfter(main.pending[k].seq, input.write)'
    BY <2>3, <2>7, <2>9 DEF ComesAfter
  <2> QED BY <2>6, <2>10 DEF Coverage, SnapshotFrom
<1>11. CASE drain
  BY <1>9, <1>10, <1>11, DrainSteps
<1>12. CASE Feed
  <2>1. /\ seq' = seq /\ child' = child /\ main'.barrier = main.barrier /\ Batch(seq) \in Payload
        /\ FeedQueues \/ FeedDrops \/ FeedPuts
    BY <1>12, FeedSteps DEF Still
  <2>2. Overtaken' => Overtaken
    <3>1. input'.read = input.read
      BY <2>1, PutWrites DEF FeedQueues, FeedDrops, FeedPuts
    <3> QED BY <2>1, <3>1 DEF Overtaken
  <2>3. \A n \in 1 .. seq' : n <= seq
    BY <1>1, <2>1
  <2>4. \A n : Unfed(n) => n = seq /\ (main.recovering => main.barrier < seq)
    BY DEF Unfed
  <2>5. CASE FeedDrops
    <3>1. \A n \in Nat : n \in main.dropped \/ Unfed(n) => n \in main'.dropped
      BY <2>4, <2>5 DEF FeedDrops
    <3> QED BY <1>5, <2>1, <2>2, <2>3, <2>5, <3>1 DEF FeedDrops
  <2>6. CASE FeedQueues /\ main'.pending = main.pending
    <3>1. \A n : ~Unfed(n)
      BY <2>4, <2>6, <1>1 DEF FeedQueues
    <3> QED BY <1>5, <2>1, <2>2, <2>3, <2>6, <3>1 DEF FeedQueues
  <2>7. CASE FeedQueues /\ main'.pending = Append(main.pending, Batch(seq))
    <3>1. /\ Len(main'.pending) = Len(main.pending) + 1 /\ Len(main.pending) \in Nat
          /\ main'.pending[Len(main.pending) + 1] = Batch(seq)
          /\ \A k \in 1 .. Len(main.pending) : main'.pending[k] = main.pending[k]
      BY <1>1, <2>1, <2>7
    <3>2. \A k \in 1 .. Len(main.pending) : k \in 1 .. Len(main'.pending)
      BY <3>1
    <3>3. Len(main.pending) + 1 \in 1 .. Len(main'.pending)
      BY <3>1
    <3>4. \A k \in 1 .. Len(main'.pending) : k \in 1 .. Len(main.pending) \/ main'.pending[k] = Batch(seq)
      BY <3>1
    <3>5. Batch(seq).kind = "batch"
      BY DEF Batch
    <3>6. input' = input /\ main'.dropped = main.dropped
      BY <2>7 DEF FeedQueues
    <3>7. \A i \in Ahead : i \in Ahead' /\ At(i)' = At(i)
      BY <3>6 DEF Ahead, At
    <3>8. \A i \in Ahead' : i \in Ahead
      BY <3>6 DEF Ahead
    <3>9. \A n \in Nat :
             n \in main.dropped \/ Unfed(n) \/ (\E k \in 1 .. Len(main.pending) : main.pending[k] = Batch(n))
             => n \in main'.dropped \/ \E k \in 1 .. Len(main'.pending) : main'.pending[k] = Batch(n)
      BY <2>4, <3>1, <3>2, <3>3, <3>6
    <3>10. \A k \in 1 .. Len(main'.pending) : main'.pending[k].kind = "snapshot"
              => \E l \in 1 .. Len(main.pending) : main.pending[l] = main'.pending[k]
      BY <3>1, <3>4, <3>5
    <3>11. (\E k \in 1 .. Len(main.pending) : main.pending[k].kind = "snapshot")
              => \E k \in 1 .. Len(main'.pending) : main'.pending[k].kind = "snapshot"
      BY <3>1, <3>2
    <3> QED BY <1>1, <1>4, <2>1, <2>2, <2>3, <3>6, <3>7, <3>8, <3>9, <3>10, <3>11, CoverageKept
  <2>8. CASE FeedPuts
    <3>1. /\ ~Full /\ put(Batch(seq)) /\ main'.pending = main.pending /\ main'.dropped = main.dropped
          /\ main.pending = <<>>
      BY <1>1, <2>8 DEF FeedPuts
    <3> DEFINE p == Batch(seq)
    <3>2. \A n : Unfed(n) => p = Batch(n)
      BY <2>4
    <3>3. 1 .. Len(main.pending) = {} /\ 1 .. Len(main'.pending) = {}
      BY <3>1
    <3>4. /\ p \in Payload /\ put(p) /\ ~Full /\ child' = child /\ seq' = seq /\ input.read <= input.write
          /\ p.kind # "snapshot"
      BY <1>1, <2>1, <3>1 DEF Batch
    <3>5. \A n \in Nat :
             n \in main.dropped \/ Unfed(n) \/ (\E k \in 1 .. Len(main.pending) : main.pending[k] = Batch(n))
             => \/ n \in main'.dropped \/ Unfed(n)'
                \/ \E k \in 1 .. Len(main'.pending) : main'.pending[k] = Batch(n)
                \/ p = Batch(n)
      BY <3>1, <3>2, <3>3
    <3>6. /\ ~\E k \in 1 .. Len(main.pending) : main.pending[k].kind = "snapshot"
          /\ \A k \in 1 .. Len(main'.pending) : main'.pending[k].kind # "snapshot"
      BY <3>3
    <3> HIDE DEF p
    <3> QED BY <1>4, <3>4, <3>5, <3>6, CoveragePut
  <2> QED BY <2>1, <2>5, <2>6, <2>7, <2>8 DEF FeedQueues
<1>13. CASE Flush
  <2> DEFINE p == Head(main.pending)
  <2>1. /\ main.pc \in {"flush", "closing"} /\ main.pending # <<>> /\ ~Full /\ p \in Payload /\ put(p)
        /\ main'.pending = Tail(main.pending) /\ main'.pc = main.pc /\ main'.dropped = main.dropped
        /\ child' = child /\ seq' = seq
    BY <1>13, FlushSteps DEF Still
  <2>2. \A n : ~Unfed(n)
    BY <2>1 DEF Unfed
  <2>3. /\ p = main.pending[1] /\ Len(main.pending) \in Nat /\ Len(main.pending) >= 1
        /\ Len(main'.pending) = Len(main.pending) - 1
        /\ \A k \in 1 .. Len(main'.pending) : main'.pending[k] = main.pending[k + 1]
    BY <1>1, <2>1
  <2> HIDE DEF p
  <2>4. \A k \in 1 .. Len(main'.pending) : k + 1 \in 1 .. Len(main.pending) /\ k + 1 # 1
    BY <2>3
  <2>5. \A k \in 1 .. Len(main.pending) : k = 1 \/ (k - 1 \in 1 .. Len(main'.pending) /\ (k - 1) + 1 = k)
    BY <2>3
  <2>6. \A k \in 1 .. Len(main'.pending) : main'.pending[k].kind # "snapshot"
    BY <1>1, <2>3, <2>4
  <2>7. (\E k \in 1 .. Len(main.pending) : main.pending[k].kind = "snapshot") => p.kind = "snapshot"
    BY <1>1, <2>3
  <2>8. \A k \in 1 .. Len(main.pending) :
           main.pending[k] = p \/ \E l \in 1 .. Len(main'.pending) : main'.pending[l] = main.pending[k]
    <3>1. SUFFICES ASSUME NEW k \in 1 .. Len(main.pending), k # 1
                   PROVE  main'.pending[k - 1] = main.pending[k] /\ k - 1 \in 1 .. Len(main'.pending)
      BY <2>3
    <3>2. k - 1 \in 1 .. Len(main'.pending) /\ (k - 1) + 1 = k
      BY <2>5, <3>1
    <3> QED BY <2>3, <3>2
  <2>9. p.kind = "snapshot" => \A n \in p.seq + 1 .. seq :
           n \in main'.dropped \/ \E k \in 1 .. Len(main'.pending) : main'.pending[k] = Batch(n)
    <3>1. SUFFICES ASSUME p.kind = "snapshot", NEW n \in p.seq + 1 .. seq
                   PROVE  n \in main'.dropped \/ \E k \in 1 .. Len(main'.pending) : main'.pending[k] = Batch(n)
      OBVIOUS
    <3>2. Comes(n, input.write)
      <4>1. 1 \in 1 .. Len(main.pending) /\ main.pending[1].kind = "snapshot"
        BY <2>3, <3>1
      <4>2. ComesAfter(main.pending[1].seq, input.write)
        BY <1>4, <4>1 DEF Coverage
      <4> QED BY <2>3, <3>1, <4>2 DEF ComesAfter
    <3>3. ~\E i \in Ahead : input.write <= i
      BY <1>1 DEF Ahead
    <3>4. n \in main.dropped \/ \E k \in 1 .. Len(main.pending) : main.pending[k] = Batch(n)
      BY <2>2, <3>2, <3>3 DEF Comes
    <3>5. p # Batch(n)
      BY <3>1 DEF Batch
    <3> QED BY <2>1, <2>8, <3>4, <3>5
  <2>10. \A n \in Nat :
            n \in main.dropped \/ Unfed(n) \/ (\E k \in 1 .. Len(main.pending) : main.pending[k] = Batch(n))
            => \/ n \in main'.dropped \/ p = Batch(n)
               \/ \E k \in 1 .. Len(main'.pending) : main'.pending[k] = Batch(n)
    BY <2>1, <2>2, <2>8
  <2>11. p.kind = "snapshot" => \A n \in p.seq + 1 .. seq :
            n \in main'.dropped \/ Unfed(n)' \/ \E k \in 1 .. Len(main'.pending) : main'.pending[k] = Batch(n)
    BY <2>9
  <2>12. \A n \in Nat :
            n \in main.dropped \/ Unfed(n) \/ (\E k \in 1 .. Len(main.pending) : main.pending[k] = Batch(n))
            => \/ n \in main'.dropped \/ Unfed(n)'
               \/ \E k \in 1 .. Len(main'.pending) : main'.pending[k] = Batch(n)
               \/ p = Batch(n)
    BY <2>10
  <2> QED
    <3>1. p \in Payload /\ put(p) /\ ~Full /\ child' = child /\ seq' = seq /\ input.read <= input.write
      BY <1>1, <2>1
    <3> QED BY <1>4, <2>6, <2>7, <2>11, <2>12, <3>1, CoveragePut
<1> QED BY <1>6, <1>7, <1>8, <1>9, <1>11, <1>12, <1>13

-----------------------------------------------------------------------------
(* Order.                                                                  *)

LEMMA IssuedIs ==
    \A n : n \in Issued <=> \/ n \in sent
                            \/ \E k \in 1 .. Len(child.replies) :
                                  child.replies[k].kind = "intent" /\ child.replies[k].seq = n
BY DEF Issued

\* A step of the producer that sends no new barrier keeps the order.
LEMMA OrderedKept ==
    ASSUME TypeOK, Ordered, seq' \in Nat, seq <= seq',
           UNCHANGED <<child, sent, twice>>,
           input'.write <= input'.read + Capacity, OneBarrier',
           \A b \in Nat : Barrier(b)' => Barrier(b),
           SnapshotNext => SnapshotNext',
           Overtaken' => Overtaken
    PROVE  Ordered'
<1>1. seq \in Nat /\ sent \in SUBSET Nat /\ child.replies \in Seq(Message)
  BY Fields
<1>2. Issued' = Issued
  BY DEF Issued
<1>3. \A n \in Issued : n \in Nat
  <2>1. \A k \in 1 .. Len(child.replies) : child.replies[k] \in Message
    BY <1>1
  <2>2. \A x \in Message : x.seq \in Nat
    BY DEF Message
  <2> QED BY <1>1, <2>1, <2>2, IssuedIs
<1>4. child'.pc # "ended" /\ child'.model.status = Active /\ (\E b \in Nat : Barrier(b)') => SnapshotNext'
  BY DEF Ordered
<1>5. Overtaken' => /\ SnapshotNext'
                    /\ \A b \in Nat : Barrier(b)' => child'.model.last_seq < b \/ b = MaxSeq
  BY DEF Ordered
<1>6. Answers'
  <2>1. Answers
    BY DEF Ordered
  <2>2. \A n \in Issued : n <= seq'
    BY <1>1, <1>3, <2>1 DEF Answers
  <2>3. \A b \in Nat : Barrier(b)' => \A n \in Issued' : n <= b
    BY <1>2, <2>1 DEF Answers
  <2> QED BY <1>2, <2>1, <2>2, <2>3 DEF Answers
<1> QED BY <1>4, <1>5, <1>6 DEF Ordered

\* When neither the ring nor the queue changes, the barriers do not either.
LEMMA BarriersSame ==
    ASSUME input' = input, main'.pending = main.pending
    PROVE  /\ \A b : Barrier(b)' <=> Barrier(b)
           /\ OneBarrier => OneBarrier'
           /\ SnapshotNext => SnapshotNext'
<1>1. \A i : (Resumes(i)' <=> Resumes(i)) /\ At(i)' = At(i)
  BY DEF Resumes, At
<1>2. \A k : Queued(k)' <=> Queued(k)
  BY DEF Queued
<1>3. \A b : Barrier(b)' <=> Barrier(b)
  BY <1>1, <1>2 DEF Barrier
<1>4. OneBarrier => OneBarrier'
  BY <1>1, <1>2 DEF OneBarrier
<1>5. SnapshotNext => SnapshotNext'
  BY DEF SnapshotNext, At
<1> QED BY <1>3, <1>4, <1>5

\* A batch at the end of the queue is no barrier.
LEMMA BarriersQueued ==
    ASSUME TypeOK, input' = input, NEW x \in Payload, x.kind = "batch",
           main'.pending = Append(main.pending, x)
    PROVE  /\ \A b : Barrier(b)' <=> Barrier(b)
           /\ OneBarrier => OneBarrier'
           /\ SnapshotNext => SnapshotNext'
<1>1. \A i : (Resumes(i)' <=> Resumes(i)) /\ At(i)' = At(i)
  BY DEF Resumes, At
<1>0. main.pending \in Seq(Payload)
  BY Fields
<1>2. /\ Len(main.pending) \in Nat /\ Len(main'.pending) = Len(main.pending) + 1
      /\ main'.pending[Len(main.pending) + 1] = x
      /\ \A k \in 1 .. Len(main.pending) : main'.pending[k] = main.pending[k]
      /\ main'.pending # <<>> /\ (main.pending # <<>> => Len(main.pending) >= 1)
  BY <1>0
<1>3. \A k \in 1 .. Len(main'.pending) : k \in 1 .. Len(main.pending) \/ main'.pending[k] = x
  BY <1>2
<1>4. \A k \in 1 .. Len(main.pending) : k \in 1 .. Len(main'.pending)
  BY <1>2
<1>5. \A k : (Queued(k)' <=> Queued(k)) /\ (Queued(k) => main'.pending[k] = main.pending[k])
  BY <1>2, <1>3, <1>4 DEF Queued
<1>6. \A b : Barrier(b)' <=> Barrier(b)
  BY <1>1, <1>5 DEF Barrier
<1>7. OneBarrier => OneBarrier'
  BY <1>1, <1>5 DEF OneBarrier
<1>8. SnapshotNext => SnapshotNext'
  BY <1>2 DEF SnapshotNext, At
<1> QED BY <1>6, <1>7, <1>8

\* A put moves the head of the queue, or a batch, into the ring.
LEMMA BarriersPut ==
    ASSUME TypeOK, input.read <= input.write, ~Full, NEW x \in Payload, put(x),
           \/ main.pending = <<>> /\ main'.pending = <<>> /\ x.kind = "batch"
           \/ main.pending # <<>> /\ x = Head(main.pending) /\ main'.pending = Tail(main.pending)
    PROVE  /\ \A b \in Nat : Barrier(b)' => Barrier(b)
           /\ OneBarrier => OneBarrier'
           /\ SnapshotNext => SnapshotNext'
           /\ input'.write <= input'.read + Capacity
<1>1. /\ input.read \in Nat /\ input.write \in Nat /\ Capacity \in Nat /\ Capacity > 0
      /\ main.pending \in Seq(Payload) /\ input.write < input.read + Capacity
  BY Fields DEF Full
<1>2. /\ input'.read = input.read /\ input'.write = input.write + 1
      /\ \A i \in Nat : i = input.write => At(i)' = x
      /\ \A i \in Nat : i < input.write /\ input.write < i + Capacity => At(i)' = At(i)
  BY PutWrites
<1>3. \A i \in Nat : input.read <= i /\ i < input.write => At(i)' = At(i)
  BY <1>1, <1>2
<1>4. \A i \in Nat : Resumes(i)' <=> Resumes(i) \/ (i = input.write /\ x.kind = "resume")
  <2>1. SUFFICES ASSUME NEW i \in Nat
                 PROVE  Resumes(i)' <=> Resumes(i) \/ (i = input.write /\ x.kind = "resume")
    OBVIOUS
  <2>2. CASE i = input.write
    <3>1. ~Resumes(i) /\ At(i)' = x /\ i \in input'.read .. input'.write - 1
      BY <1>1, <1>2, <2>2 DEF Resumes
    <3> QED BY <2>2, <3>1 DEF Resumes
  <2>3. CASE i # input.write
    <3>a. input'.read = input.read /\ input'.write - 1 = input.write
      BY <1>1, <1>2
    <3>1. i \in input'.read .. input'.write - 1 <=> i \in input.read .. input.write - 1
      <4>1. i \in input.read .. input.write <=> i \in input.read .. input.write - 1
        BY <1>1, <2>1, <2>3
      <4> QED BY <3>a, <4>1
    <3>2. i \in input.read .. input.write - 1 => At(i)' = At(i)
      BY <1>1, <1>3, <2>1
    <3> QED BY <2>3, <3>1, <3>2 DEF Resumes
  <2> QED BY <2>2, <2>3
<1>5. \A i \in Nat : Resumes(i) => At(i)' = At(i) /\ i # input.write
  BY <1>1, <1>3 DEF Resumes
\* The place in the queue that was in front of place k of the new one.
<1>6. CASE main.pending = <<>> /\ main'.pending = <<>> /\ x.kind = "batch"
  <2>1. \A k : ~Queued(k) /\ ~Queued(k)'
    BY <1>6 DEF Queued
  <2>2. \A i \in Nat : Resumes(i)' <=> Resumes(i)
    BY <1>4, <1>6
  <2>3. \A b \in Nat : Barrier(b)' => Barrier(b)
    BY <1>5, <2>1, <2>2 DEF Barrier
  <2>4. OneBarrier => OneBarrier'
    BY <2>1, <2>2 DEF OneBarrier
  <2>5. SnapshotNext => SnapshotNext'
    <3>1. SUFFICES ASSUME SnapshotNext PROVE SnapshotNext'
      OBVIOUS
    <3>2. input.read < input.write /\ At(input.read).kind = "snapshot"
      BY <1>6, <3>1 DEF SnapshotNext
    <3>3. \A i \in Nat : i = input'.read => At(i)'.kind = "snapshot"
      BY <1>1, <1>2, <1>3, <3>2
    <3>4. input'.read < input'.write
      BY <1>1, <1>2
    <3> QED BY <1>1, <1>2, <3>3, <3>4 DEF SnapshotNext, At
  <2>6. input'.write <= input'.read + Capacity
    BY <1>1, <1>2
  <2> QED BY <2>3, <2>4, <2>5, <2>6
<1>7. CASE main.pending # <<>> /\ x = Head(main.pending) /\ main'.pending = Tail(main.pending)
  <2>1. /\ x = main.pending[1] /\ Len(main.pending) \in Nat /\ Len(main.pending) >= 1
        /\ Len(main'.pending) = Len(main.pending) - 1
        /\ \A k \in 1 .. Len(main'.pending) : main'.pending[k] = main.pending[k + 1]
    BY <1>1, <1>7
  <2>2. \A k \in Nat : Queued(k)' => Queued(k + 1) /\ main'.pending[k] = main.pending[k + 1] /\ k + 1 # 1
    <3>1. SUFFICES ASSUME NEW k \in Nat, Queued(k)'
                   PROVE  Queued(k + 1) /\ main'.pending[k] = main.pending[k + 1] /\ k + 1 # 1
      OBVIOUS
    <3>2. k \in 1 .. Len(main'.pending) /\ main'.pending[k].kind = "resume"
      BY <3>1 DEF Queued
    <3>3. k + 1 \in 1 .. Len(main.pending) /\ k + 1 # 1
      BY <2>1, <3>2
    <3> QED BY <2>1, <3>2, <3>3 DEF Queued
  <2>3. x.kind = "resume" => Queued(1)
    BY <2>1 DEF Queued
  <2>4. \A b \in Nat : Barrier(b)' => Barrier(b)
    <3>1. SUFFICES ASSUME NEW b \in Nat, Barrier(b)' PROVE Barrier(b)
      OBVIOUS
    <3>2. CASE \E i \in Nat : Resumes(i)' /\ At(i)'.seq = b
      <4>1. PICK i \in Nat : Resumes(i)' /\ At(i)'.seq = b
        BY <3>2
      <4>2. CASE Resumes(i)
        BY <1>5, <4>1, <4>2 DEF Barrier
      <4>3. CASE i = input.write /\ x.kind = "resume"
        <5>1. Queued(1) /\ main.pending[1].seq = b
          BY <1>2, <2>1, <2>3, <4>1, <4>3
        <5> QED BY <5>1 DEF Barrier
      <4> QED BY <1>4, <4>1, <4>2, <4>3
    <3>3. CASE \E k \in Nat : Queued(k)' /\ main'.pending[k].seq = b
      <4>1. PICK k \in Nat : Queued(k)' /\ main'.pending[k].seq = b
        BY <3>3
      <4>2. k + 1 \in Nat /\ Queued(k + 1) /\ main.pending[k + 1].seq = b
        BY <2>2, <4>1
      <4> QED BY <4>2 DEF Barrier
    <3> QED BY <3>1, <3>2, <3>3 DEF Barrier
  <2>5. OneBarrier => OneBarrier'
    <3>1. SUFFICES ASSUME OneBarrier PROVE OneBarrier'
      OBVIOUS
    <3>2. /\ \A i, j \in Nat : Resumes(i) /\ Resumes(j) => i = j
          /\ \A k, l \in Nat : Queued(k) /\ Queued(l) => k = l
          /\ \A i, k \in Nat : ~(Resumes(i) /\ Queued(k))
      BY <3>1 DEF OneBarrier
    <3>3. x.kind = "resume" => \A i \in Nat : ~Resumes(i)
      BY <2>3, <3>2
    <3>4. \A i, j \in Nat : Resumes(i)' /\ Resumes(j)' => i = j
      BY <1>4, <3>2, <3>3
    <3>5. \A k, l \in Nat : Queued(k)' /\ Queued(l)' => k = l
      <4>1. SUFFICES ASSUME NEW k \in Nat, NEW l \in Nat, Queued(k)', Queued(l)' PROVE k = l
        OBVIOUS
      <4>2. k + 1 \in Nat /\ l + 1 \in Nat /\ Queued(k + 1) /\ Queued(l + 1)
        BY <2>2, <4>1
      <4>3. k + 1 = l + 1
        BY <3>2, <4>2
      <4> QED BY <4>3
    <3>6. \A i, k \in Nat : ~(Resumes(i)' /\ Queued(k)')
      <4>1. SUFFICES ASSUME NEW i \in Nat, NEW k \in Nat, Resumes(i)', Queued(k)' PROVE FALSE
        OBVIOUS
      <4>2. k + 1 \in Nat /\ Queued(k + 1) /\ k + 1 # 1
        BY <2>2, <4>1
      <4>3. ~Resumes(i)
        BY <3>2, <4>2
      <4>4. Queued(1)
        BY <1>4, <2>3, <4>1, <4>3
      <4> QED BY <3>2, <4>2, <4>4
    <3> QED BY <3>4, <3>5, <3>6 DEF OneBarrier
  <2>6. SnapshotNext => SnapshotNext'
    <3>1. SUFFICES ASSUME SnapshotNext PROVE SnapshotNext'
      OBVIOUS
    <3>2. CASE input.read < input.write
      <4>1. \A i \in Nat : i = input'.read => At(i)'.kind = "snapshot"
        BY <1>1, <1>2, <1>3, <3>1, <3>2 DEF SnapshotNext
      <4>2. input'.read < input'.write
        BY <1>1, <1>2
      <4> QED BY <1>1, <1>2, <4>1, <4>2 DEF SnapshotNext, At
    <3>3. CASE ~(input.read < input.write)
      <4>1. x.kind = "snapshot" /\ input.read = input.write
        BY <1>1, <2>1, <3>1, <3>3 DEF SnapshotNext
      <4>2. \A i \in Nat : i = input'.read => At(i)'.kind = "snapshot"
        BY <1>1, <1>2, <4>1
      <4>3. input'.read < input'.write
        BY <1>1, <1>2
      <4> QED BY <1>1, <1>2, <4>2, <4>3 DEF SnapshotNext, At
    <3> QED BY <3>2, <3>3
  <2>7. input'.write <= input'.read + Capacity
    BY <1>1, <1>2
  <2> QED BY <2>4, <2>5, <2>6, <2>7
<1> QED BY <1>6, <1>7

\* A recovery starts: its barrier is the end of the history.
LEMMA OrderedRecovery ==
    ASSUME TypeOK, Ring, Queue, Limits, Ordered, Recovers, main.pc \in {"drain", "finish"}
    PROVE  Ordered'
<1> DEFINE q == recovery(main).pending
           c == main.checkpoint.seq
<1>1. /\ seq \in Nat /\ input.read \in Nat /\ input.write \in Nat /\ Capacity \in Nat /\ c \in Nat
      /\ child.model.last_seq \in Nat
  BY Fields
<1>2. /\ ~main.recovering /\ main.pending = <<>> /\ c <= seq
      /\ main.pc \in {"finish", "closing"} => seq = MaxSeq
      /\ main.pc = "drain" => child.model.last_seq <= seq - 1
  BY DEF Queue, Limits, Within, Recovers
<1>3. /\ Len(q) = seq - c + 2 /\ q[1] = Snapshot(main.checkpoint) /\ q[Len(q)] = Resume(seq)
      /\ \A k \in 2 .. seq - c + 1 : q[k] = Batch(c + k - 1)
  BY <1>2, RecoveryQueue
<1>4. /\ main'.pending = q /\ seq' = seq /\ input'.read = input.write /\ input'.write = input.write
      /\ UNCHANGED <<child, sent, twice>>
  BY DEF Recovers, Still
<1>5. /\ Snapshot(main.checkpoint).kind = "snapshot"
      /\ \A n : Batch(n).kind = "batch" /\ Resume(n).kind = "resume" /\ Resume(n).seq = n
  BY DEF Snapshot, Batch, Resume
<1> HIDE DEF q, c
\* The ring is clear, and the one barrier is at the end of the queue.
<1>6. \A i \in Nat : ~Resumes(i)'
  BY <1>1, <1>4 DEF Resumes
<1>7. \A k \in Nat : Queued(k)' => k = Len(q) /\ q[k].seq = seq
  <2>1. SUFFICES ASSUME NEW k \in Nat, k \in 1 .. Len(q), q[k].kind = "resume"
                 PROVE  k = Len(q) /\ q[k].seq = seq
    BY <1>4 DEF Queued
  <2>2. k = 1 \/ k \in 2 .. seq - c + 1 \/ k = Len(q)
    BY <1>1, <1>2, <1>3, <2>1
  <2> QED BY <1>3, <1>5, <2>1, <2>2
<1>8. OneBarrier'
  BY <1>6, <1>7 DEF OneBarrier
<1>9. \A b \in Nat : Barrier(b)' => b = seq
  BY <1>4, <1>6, <1>7 DEF Barrier
<1>10. SnapshotNext'
  <2>1. q # <<>>
    BY <1>1, <1>2, <1>3
  <2> QED BY <1>1, <1>3, <1>4, <1>5, <2>1 DEF SnapshotNext
<1>11. \A b \in Nat : Barrier(b)' => child'.model.last_seq < b \/ b = MaxSeq
  BY <1>1, <1>2, <1>4, <1>9
<1>12. Answers'
  <2>1. Answers /\ Issued' = Issued
    BY <1>4 DEF Ordered, Issued
  <2>2. \A b \in Nat : Barrier(b)' => \A n \in Issued' : n <= b
    BY <1>9, <2>1 DEF Answers
  <2> QED BY <1>4, <2>1, <2>2 DEF Answers
<1> QED BY <1>1, <1>4, <1>8, <1>10, <1>11, <1>12 DEF Ordered

\* The producer keeps the order.
LEMMA OrderedProducer ==
    ASSUME TypeOK, Ring, Queue, Limits, Ordered,
           Produce \/ drain \/ Feed \/ Flush \/ MovesOn \/ Over
    PROVE  Ordered'
<1>1. /\ seq \in Nat /\ input.read <= input.write /\ input.write <= input.read + Capacity /\ OneBarrier
      /\ main.recovering \in BOOLEAN /\ (~main.recovering => main.pending = <<>>)
  BY Fields DEF Ring, Ordered, Queue
<1>2. ASSUME input' = input, main'.pending = main.pending, seq' \in Nat, seq <= seq',
             UNCHANGED <<child, sent, twice>>
      PROVE  Ordered'
  <2>1. Overtaken' => Overtaken
    BY <1>2 DEF Overtaken
  <2> QED BY <1>1, <1>2, <2>1, BarriersSame, OrderedKept
<1>3. CASE Produce
  <2>1. /\ input' = input /\ main'.pending = main.pending /\ seq' = seq + 1
        /\ UNCHANGED <<child, sent, twice>>
    BY <1>3, ProduceSteps DEF Keeps, Still
  <2> QED BY <1>1, <1>2, <2>1
<1>4. CASE MovesOn \/ TakesCheckpoint \/ Over
  <2>1. input' = input /\ main'.pending = main.pending /\ seq' = seq /\ UNCHANGED <<child, sent, twice>>
    BY <1>4 DEF MovesOn, TakesCheckpoint, Over, Keeps, Still
  <2> QED BY <1>1, <1>2, <2>1
<1>5. CASE drain
  BY <1>4, <1>5, DrainSteps, OrderedRecovery
<1>6. CASE Feed
  <2>1. /\ seq' = seq /\ UNCHANGED <<child, sent, twice>> /\ Batch(seq) \in Payload
        /\ FeedQueues \/ FeedDrops \/ FeedPuts
    BY <1>6, FeedSteps DEF Still
  <2>2. Batch(seq).kind = "batch"
    BY DEF Batch
  <2>3. CASE input' = input /\ main'.pending = main.pending
    BY <1>1, <1>2, <2>1, <2>3
  <2>4. CASE input' = input /\ main'.pending = Append(main.pending, Batch(seq))
    <3>1. Overtaken' => Overtaken
      BY <2>1, <2>4 DEF Overtaken
    <3>2. /\ \A b : Barrier(b)' <=> Barrier(b)
          /\ OneBarrier => OneBarrier'
          /\ SnapshotNext => SnapshotNext'
      BY <2>1, <2>2, <2>4, BarriersQueued
    <3> QED BY <1>1, <2>1, <2>4, <3>1, <3>2, OrderedKept
  <2>5. CASE FeedPuts
    <3>1. ~Full /\ put(Batch(seq)) /\ main.pending = <<>> /\ main'.pending = <<>>
      BY <1>1, <2>5 DEF FeedPuts
    <3>2. Overtaken' => Overtaken
      <4>1. input'.read = input.read
        BY <2>1, <3>1, PutWrites
      <4> QED BY <2>1, <4>1 DEF Overtaken
    <3>3. /\ \A b \in Nat : Barrier(b)' => Barrier(b)
          /\ OneBarrier => OneBarrier'
          /\ SnapshotNext => SnapshotNext'
          /\ input'.write <= input'.read + Capacity
      BY <1>1, <2>1, <2>2, <3>1, BarriersPut
    <3> QED BY <1>1, <2>1, <3>2, <3>3, OrderedKept
  <2> QED BY <2>1, <2>3, <2>4, <2>5 DEF FeedQueues, FeedDrops
<1>7. CASE Flush
  <2>1. /\ main.pending # <<>> /\ ~Full /\ Head(main.pending) \in Payload /\ put(Head(main.pending))
        /\ main'.pending = Tail(main.pending) /\ seq' = seq /\ UNCHANGED <<child, sent, twice>>
    BY <1>7, FlushSteps DEF Still
  <2>2. Overtaken' => Overtaken
    <3>1. input'.read = input.read
      BY <2>1, PutWrites
    <3> QED BY <2>1, <3>1 DEF Overtaken
  <2>3. /\ \A b \in Nat : Barrier(b)' => Barrier(b)
        /\ OneBarrier => OneBarrier'
        /\ SnapshotNext => SnapshotNext'
        /\ input'.write <= input'.read + Capacity
    BY <1>1, <2>1, BarriersPut
  <2> QED BY <1>1, <2>1, <2>2, <2>3, OrderedKept
<1> QED BY <1>3, <1>4, <1>5, <1>6, <1>7

\* The host sends what it has to say, and nothing twice.
LEMMA OrderedSays ==
    ASSUME TypeOK, Ordered, Says
    PROVE  Ordered'
<1>1. /\ child.replies \in Seq(Message) /\ child.replies # <<>> /\ sent \in SUBSET Nat
      /\ UNCHANGED <<seq, main, input>> /\ child'.model = child.model /\ child'.held = child.held
      /\ child'.pc \in {"ended", "reply"} /\ child.pc = "reply"
  BY Fields DEF Says
<1>2. Answers
  BY DEF Ordered
<1>3. \A b : Barrier(b)' <=> Barrier(b)
  BY <1>1, BarriersSame
<1>4. OneBarrier' /\ (SnapshotNext => SnapshotNext')
  BY <1>1, BarriersSame DEF Ordered
<1>5. /\ \A n : n \in Issued' => n \in Issued
      /\ twice' = {}
      /\ \A k \in 1 .. Len(child'.replies) : child'.replies[k].kind = "intent"
             => k = Len(child'.replies) /\ child'.replies[k].seq \notin sent'
  <2>1. CASE child'.replies = child.replies /\ UNCHANGED <<output, sent, twice>>
    BY <1>2, <2>1 DEF Issued, Answers
  <2>2. CASE child'.replies = Tail(child.replies) /\ output' = Append(output, Head(child.replies))
    <3> DEFINE message == Head(child.replies)
               id == {n \in {message.seq} : message.kind = "intent"}
    <3>1. sent' = sent \cup id /\ twice' = twice \cup (id \cap sent)
      <4>1. child.replies # Tail(child.replies)
        <5>1. Len(Tail(child.replies)) = Len(child.replies) - 1 /\ Len(child.replies) \in Nat
          BY <1>1
        <5>2. Len(Tail(child.replies)) # Len(child.replies)
          BY <5>1
        <5> QED BY <5>2
      <4>2. \/ child'.replies = child.replies
            \/ sent' = sent \cup id /\ twice' = twice \cup (id \cap sent)
        BY DEF Says
      <4> QED BY <2>2, <4>1, <4>2
    <3>2. /\ message = child.replies[1] /\ Len(child.replies) \in Nat /\ Len(child.replies) >= 1
          /\ Len(child'.replies) = Len(child.replies) - 1
          /\ \A k \in 1 .. Len(child'.replies) : child'.replies[k] = child.replies[k + 1]
      BY <1>1, <2>2
    <3>3. /\ 1 \in 1 .. Len(child.replies)
          /\ \A k \in 1 .. Len(child'.replies) : k + 1 \in 1 .. Len(child.replies) /\ k + 1 # 1
      BY <3>2
    <3>4. \A n \in id : n = message.seq /\ message.kind = "intent"
      OBVIOUS
    <3>5. message.kind # "intent" => id = {}
      OBVIOUS
    <3> HIDE DEF message, id
    <3>6. \A n \in id : n \in Issued /\ n \notin sent /\ Len(child.replies) = 1
      BY <1>2, <3>2, <3>3, <3>4, IssuedIs DEF Answers
    <3>7. \A n : n \in Issued' => n \in Issued
      <4>1. SUFFICES ASSUME NEW n, n \in Issued' PROVE n \in Issued
        OBVIOUS
      <4>2. \/ n \in sent' \/ \E k \in 1 .. Len(child'.replies) :
                                 child'.replies[k].kind = "intent" /\ child'.replies[k].seq = n
        BY <4>1 DEF Issued
      <4>3. CASE n \in sent'
        BY <3>1, <3>6, <4>3, IssuedIs
      <4>4. CASE \E k \in 1 .. Len(child'.replies) :
                    child'.replies[k].kind = "intent" /\ child'.replies[k].seq = n
        BY <3>2, <3>3, <4>4, IssuedIs
      <4> QED BY <4>2, <4>3, <4>4
    <3>8. twice' = {}
      BY <1>2, <3>1, <3>6 DEF Answers
    <3>9. \A k \in 1 .. Len(child'.replies) : child'.replies[k].kind = "intent"
             => k = Len(child'.replies) /\ child'.replies[k].seq \notin sent'
      <4>1. SUFFICES ASSUME NEW k \in 1 .. Len(child'.replies), child'.replies[k].kind = "intent"
                     PROVE  k = Len(child'.replies) /\ child'.replies[k].seq \notin sent'
        OBVIOUS
      <4>2. k + 1 \in 1 .. Len(child.replies) /\ child.replies[k + 1].kind = "intent" /\ k + 1 # 1
        BY <3>2, <3>3, <4>1
      <4>3. k + 1 = Len(child.replies) /\ child.replies[k + 1].seq \notin sent
        BY <1>2, <4>2 DEF Answers
      <4>4. id = {}
        BY <3>6, <4>2, <4>3
      <4> QED BY <3>1, <3>2, <4>1, <4>3, <4>4
    <3> QED BY <3>7, <3>8, <3>9
  <2> QED BY <2>1, <2>2 DEF Says
<1>6. Answers'
  BY <1>1, <1>2, <1>3, <1>5 DEF Answers
<1>7. ~Overtaken'
  BY <1>1 DEF Overtaken
<1>8. child'.pc # "ended" /\ child'.model.status = Active /\ (\E b \in Nat : Barrier(b)') => SnapshotNext'
  BY <1>1, <1>3, <1>4 DEF Ordered
<1>9. input'.write <= input'.read + Capacity
  BY <1>1 DEF Ordered
<1> QED BY <1>4, <1>6, <1>7, <1>8, <1>9 DEF Ordered

\* So does a host that reads or rests.
LEMMA OrderedRests ==
    ASSUME TypeOK, Ring, Ordered, Rests \/ Reads
    PROVE  Ordered'
<1>1. /\ UNCHANGED <<seq, main, input, sent, twice>> /\ child'.model = child.model
      /\ child'.replies = child.replies /\ child.pc # "ended"
      /\ input.read \in Nat /\ input.write \in Nat /\ input.read <= input.write
  BY Fields DEF Rests, Reads, Ring
<1>2. Answers /\ OneBarrier
  BY DEF Ordered
<1>3. \A b : Barrier(b)' <=> Barrier(b)
  BY <1>1, BarriersSame
<1>4. OneBarrier' /\ (SnapshotNext => SnapshotNext')
  BY <1>1, <1>2, BarriersSame
<1>5. Issued' = Issued
  BY <1>1 DEF Issued
<1>6. ~Overtaken'
  BY DEF Overtaken, Rests, Reads
<1>7. child'.pc = "got" /\ child'.held.kind = "resume" => \A n \in Issued' : n <= child'.held.seq
  <2>1. CASE Rests
    BY <2>1 DEF Rests
  <2>2. CASE Reads /\ child'.held.kind = "resume"
    <3>1. At(input.read).kind = "resume" /\ child'.held = At(input.read) /\ input.read < input.write
      BY <1>1, <2>2 DEF Reads
    <3>2. Resumes(input.read)
      BY <1>1, <3>1 DEF Resumes
    <3>3. At(input.read).seq \in Nat
      <4>1. input.slot[input.read % Capacity] \in Payload
        BY <1>1, PlaceIsSlot, Fields
      <4> QED BY <4>1 DEF At, Payload
    <3>4. Barrier(At(input.read).seq)
      BY <1>1, <3>2 DEF Barrier
    <3> QED BY <1>2, <1>5, <3>1, <3>3, <3>4 DEF Answers
  <2> QED BY <2>1, <2>2
<1>8. child'.pc \in {"start", "poll", "got", "publish"} => child'.replies = <<>>
  BY <1>1, <1>2 DEF Answers, Rests, Reads
<1>9. Answers'
  BY <1>1, <1>2, <1>3, <1>5, <1>7, <1>8 DEF Answers
<1>10. child'.pc # "ended" /\ child'.model.status = Active /\ (\E b \in Nat : Barrier(b)') => SnapshotNext'
  BY <1>1, <1>3, <1>4 DEF Ordered
<1>11. input'.write <= input'.read + Capacity
  BY <1>1 DEF Ordered
<1> QED BY <1>4, <1>6, <1>9, <1>10, <1>11 DEF Ordered

\* A round later the same slot comes again.
LEMMA RoundLater ==
    ASSUME NEW i \in Nat
    PROVE  (i + Capacity) % Capacity = i % Capacity
<1> DEFINE j == i + Capacity
           a == i \div Capacity
           b == j \div Capacity
           x == i % Capacity
           y == j % Capacity
<1>1. Capacity \in Nat /\ Capacity > 0 /\ j \in Nat
  BY PrototypeAssumption
<1>2. /\ a \in Int /\ i = Capacity * a + x /\ x \in 0 .. Capacity - 1
      /\ b \in Int /\ j = Capacity * b + y /\ y \in 0 .. Capacity - 1
  <2>1. \A k \in Nat : k \div Capacity \in Int /\ k = Capacity * (k \div Capacity) + (k % Capacity)
    BY <1>1
  <2> QED BY <1>1, <2>1, PlaceIsSlot
<1>3. j - i = Capacity
  BY <1>1
<1> HIDE DEF a, b, x, y, j
<1>4. Capacity * b - Capacity * a = Capacity + x - y
  BY <1>1, <1>2, <1>3
<1>5. b - a \in Int /\ Capacity * (b - a) = Capacity + x - y
  BY <1>1, <1>2, <1>4
<1>6. ~(b - a <= 0)
  <2>1. b - a <= 0 => Capacity * (b - a) <= 0
    BY <1>1, <1>5
  <2> QED BY <1>1, <1>2, <1>5, <2>1
<1>7. ~(b - a >= 2)
  <2>1. b - a >= 2 => Capacity * (b - a) >= Capacity + Capacity
    BY <1>1, <1>5
  <2> QED BY <1>1, <1>2, <1>5, <2>1
<1>8. b - a = 1
  BY <1>5, <1>6, <1>7
<1>9. x = y
  BY <1>1, <1>2, <1>5, <1>8
<1> QED BY <1>9 DEF x, y, j

\* What the host answers, and what it is when it is active.
LEMMA TakenAnswers ==
    ASSUME TypeOK, NEW p, NEW old, Takes(p, old), child.model.count = child.model.last_seq,
           child'.pc # "ended"
    PROVE  LET L == child.model.last_seq IN
           /\ \A k \in 1 .. Len(child'.replies) : child'.replies[k].kind = "intent" =>
                 /\ k = Len(child'.replies) /\ child'.replies[k].seq = L + 1
                 /\ p.kind = "batch" /\ child.model.status = Active /\ p.seq = L + 1
                 /\ child'.model.last_seq = L + 1
           /\ child'.model.status = Active =>
                 \/ /\ p.kind = "resume" /\ child.model.status = Recovering
                    /\ p.seq = L /\ child'.model.last_seq = L
                 \/ /\ p.kind \notin {"snapshot", "resume"} /\ child.model.status = Active
                    /\ p.seq = L + 1 /\ child'.model.last_seq = L + 1
           /\ p.kind # "garbage"
<1> DEFINE m == child.model
           L == child.model.last_seq
<1>1. /\ m \in Model /\ L \in Nat /\ p \in Payload /\ p.seq \in Nat
      /\ After(p, old) \in Model /\ Answer(p, old) \in SUBSET Nat
      /\ child'.model = After(p, old) /\ child'.replies = Replies(m, After(p, old), Answer(p, old))
      /\ p.kind # "garbage" /\ (p.kind = "resume" => MayResume(m, p.seq))
  BY Fields, TakenTypes, TakenModel DEF Takes
<1>2. /\ m.status \in {Active, NeedsSnapshot, Recovering} /\ Active # Recovering /\ Active # NeedsSnapshot
      /\ Recovering # NeedsSnapshot
  BY <1>1 DEF Model, Active, NeedsSnapshot, Recovering
<1>3. ASSUME p.kind = "batch", m.status = Active, p.seq = L + 1, ~old
      PROVE  After(p, old).last_seq = L + 1 /\ After(p, old).status = Active
  <2>1. After(p, old) = accept(m, p.seq)
    BY <1>3 DEF After
  <2>2. accept(m, p.seq) = [m EXCEPT !.count = m.count + 1, !.last_seq = p.seq]
    BY <1>1, <1>2, <1>3 DEF accept, Model
  <2> QED BY <1>1, <1>3, <2>1, <2>2 DEF Model
<1>4. Answer(p, old) # {} => /\ p.kind = "batch" /\ m.status = Active /\ p.seq = L + 1
                             /\ Answer(p, old) = {L + 1} /\ ~old
  BY <1>1 DEF Answer, intents
<1>5. \A k \in 1 .. Len(child'.replies) : child'.replies[k].kind = "intent" =>
         k = Len(child'.replies) /\ Answer(p, old) # {} /\ child'.replies[k].seq = CHOOSE n \in Answer(p, old) : TRUE
  BY <1>1, ReplyKinds
<1>6. Answer(p, old) # {} => (CHOOSE n \in Answer(p, old) : TRUE) = L + 1
  BY <1>4
<1>7. \A k \in 1 .. Len(child'.replies) : child'.replies[k].kind = "intent" =>
         /\ k = Len(child'.replies) /\ child'.replies[k].seq = L + 1
         /\ p.kind = "batch" /\ m.status = Active /\ p.seq = L + 1
         /\ child'.model.last_seq = L + 1
  BY <1>1, <1>3, <1>4, <1>5, <1>6
<1>8. ASSUME child'.model.status = Active
      PROVE  \/ /\ p.kind = "resume" /\ m.status = Recovering
                /\ p.seq = L /\ child'.model.last_seq = L
             \/ /\ p.kind \notin {"snapshot", "resume"} /\ m.status = Active
                /\ p.seq = L + 1 /\ child'.model.last_seq = L + 1
  <2>1. CASE p.kind = "snapshot"
    <3>1. child'.model.status = Recovering
      BY <1>1, <2>1 DEF After, restore, Model
    <3> QED BY <1>2, <1>8, <3>1
  <2>2. CASE p.kind = "resume"
    <3>1. child'.model = resume(m)
      BY <1>1, <2>2 DEF After
    <3> QED BY <1>1, <2>2, <3>1 DEF resume, MayResume, Model
  <2>3. CASE p.kind \notin {"snapshot", "resume"}
    <3>1. child'.model = accept(m, p.seq) \/ child'.model = lagged(m)
      BY <1>1, <2>3 DEF After
    <3>2. lagged(m).status = NeedsSnapshot
      BY <1>1 DEF lagged, Model
    <3>3. child'.model = accept(m, p.seq)
      BY <1>2, <1>8, <3>1, <3>2
    <3>4. m.status # NeedsSnapshot
      BY <1>2, <1>8, <3>3 DEF accept
    <3>5. p.seq = L + 1
      BY <1>1, <1>2, <1>8, <3>3, <3>4 DEF accept, Model
    <3>6. child'.model.last_seq = p.seq /\ child'.model.status = m.status
      BY <1>1, <3>3, <3>4, <3>5 DEF accept, Model
    <3> QED BY <1>8, <2>3, <3>5, <3>6
  <2> QED BY <2>1, <2>2, <2>3
<1> QED BY <1>1, <1>7, <1>8

\* And one that takes a payload: the place where an identity is born.
LEMMA OrderedTakes ==
    ASSUME TypeOK, Ring, Queue, Counted, Limits, Ordered, NEW p, NEW old, Takes(p, old),
           ~race'.mixed, ~race'.behind
    PROVE  Ordered'
<1> DEFINE r == child.read
           L == child.model.last_seq
<1>1. /\ input.read \in Nat /\ input.write \in Nat /\ r \in Nat /\ Capacity \in Nat /\ Capacity > 0
      /\ L \in Nat /\ seq \in Nat /\ MaxSeq \in Nat /\ seq <= MaxSeq /\ child.held \in Payload
      /\ race.mixed \in BOOLEAN /\ race.behind \in BOOLEAN /\ sent \in SUBSET Nat
  BY Fields DEF Queue
<1>2. /\ UNCHANGED <<seq, main, sent, twice>> /\ child.pc = "got" /\ child'.pc \in {"ended", "reply"}
      /\ input'.read = r + 1 /\ input'.write = input.write /\ input'.slot = input.slot
      /\ ~race.mixed /\ p \in {child.held, Garbage, At(r)} /\ ~(r + 1 < input.read)
  BY <1>1 DEF Takes
<1>3. /\ r <= input.read /\ r < input.write /\ (r = input.read => child.held = At(r))
      /\ child.held = At(r) \/ r + Capacity < input.write
      /\ r = input.read \/ input.read = r + 1
  BY <1>1, <1>2 DEF Ring
<1>4. Answers /\ OneBarrier /\ input.write <= input.read + Capacity /\ child.replies = <<>>
  BY <1>2 DEF Ordered, Answers
\* The barriers that are left.
<1>5. \A i : At(i)' = At(i)
  BY <1>2 DEF At
<1>6. \A i \in Nat : Resumes(i)' => Resumes(i) /\ i # r
  BY <1>1, <1>2, <1>3, <1>5 DEF Resumes
<1>7. \A k : Queued(k)' <=> Queued(k)
  BY <1>2 DEF Queued
<1>8. \A b \in Nat : Barrier(b)' => Barrier(b)
  BY <1>2, <1>5, <1>6, <1>7 DEF Barrier
<1>9. OneBarrier'
  BY <1>4, <1>6, <1>7 DEF OneBarrier
<1>10. r = input.read /\ At(r).kind = "resume" => Resumes(r)
  BY <1>1, <1>3 DEF Resumes
<1>11. Resumes(r) => \A b \in Nat : ~Barrier(b)'
  BY <1>1, <1>4, <1>6, <1>7 DEF Barrier, OneBarrier
<1>12. ~Overtaken' /\ input'.write <= input'.read + Capacity
  BY <1>1, <1>2, <1>3, <1>4 DEF Overtaken
<1>13. \A n : n \in Issued <=> n \in sent
  BY <1>4, IssuedIs
<1>14. CASE child'.pc = "ended"
  <2>1. child'.model = child.model /\ child'.replies = child.replies
    BY <1>14 DEF Takes
  <2>2. Issued' = Issued
    BY <1>2, <2>1 DEF Issued
  <2>3. Answers'
    BY <1>2, <1>4, <1>8, <1>14, <2>1, <2>2 DEF Answers
  <2> QED BY <1>9, <1>12, <1>14, <2>3 DEF Ordered
<1>15. CASE child'.pc # "ended"
  <2>1. child.model.count = L
    BY <1>2 DEF Counted
  <2>2. /\ \A k \in 1 .. Len(child'.replies) : child'.replies[k].kind = "intent" =>
              /\ k = Len(child'.replies) /\ child'.replies[k].seq = L + 1
              /\ p.kind = "batch" /\ child.model.status = Active /\ p.seq = L + 1
              /\ child'.model.last_seq = L + 1
        /\ child'.model.status = Active =>
              \/ /\ p.kind = "resume" /\ child.model.status = Recovering
                 /\ p.seq = L /\ child'.model.last_seq = L
              \/ /\ p.kind \notin {"snapshot", "resume"} /\ child.model.status = Active
                 /\ p.seq = L + 1 /\ child'.model.last_seq = L + 1
        /\ p.kind # "garbage"
    BY <1>15, <2>1, TakenAnswers
  <2>3. p \in {child.held, At(r)} /\ (r = input.read => p = At(r)) /\ p.seq \in Nat
    <3>1. Garbage.kind = "garbage"
      BY DEF Garbage
    <3> QED BY <1>2, <1>3, <2>2, <3>1, TakenModel
  <2>4. p.seq <= seq
    <3>1. child.held.seq <= seq /\ At(r).seq <= seq
      BY <1>1, PlaceIsSlot DEF Limits, Within, At
    <3> QED BY <2>3, <3>1
  \* A resumption is behind every answer that was given.
  <2>5. p.kind = "resume" => \A n \in sent : n <= p.seq
    <3>1. SUFFICES ASSUME p.kind = "resume" PROVE \A n \in sent : n <= p.seq
      OBVIOUS
    <3>2. ASSUME NEW i \in Nat, Resumes(i), At(i) = p
          PROVE  \A n \in sent : n <= p.seq
      <4>1. Barrier(p.seq)
        BY <3>2 DEF Barrier
      <4> QED BY <1>4, <1>13, <2>3, <4>1 DEF Answers
    <3>3. CASE r = input.read
      BY <1>1, <1>10, <2>3, <3>1, <3>2, <3>3
    <3>4. CASE input.read = r + 1 /\ p = child.held
      BY <1>2, <1>4, <1>13, <3>1, <3>4 DEF Answers
    <3>5. CASE input.read = r + 1 /\ p # child.held
      <4>1. r + Capacity < input.write /\ p = At(r)
        BY <1>3, <2>3, <3>5
      <4>2. At(r + Capacity) = p
        BY <1>1, <4>1, RoundLater DEF At
      <4>3. r + Capacity \in Nat /\ Resumes(r + Capacity)
        BY <1>1, <3>1, <3>5, <4>1, <4>2 DEF Resumes
      <4> QED BY <3>2, <4>2, <4>3
    <3> QED BY <1>3, <3>3, <3>4, <3>5
  \* An active host that meets no snapshot first has no barrier in front of it.
  <2>6. r = input.read /\ p.kind # "snapshot" /\ child.model.status = Active => \A b \in Nat : ~Barrier(b)
    <3>1. r = input.read /\ p.kind # "snapshot" => ~SnapshotNext
      BY <1>3, <2>3 DEF SnapshotNext
    <3> QED BY <1>2, <3>1 DEF Ordered
  <2>7. input.read = r + 1 => /\ SnapshotNext
                              /\ \A b \in Nat : Barrier(b) => L < b \/ b = MaxSeq
    BY <1>1, <1>2 DEF Ordered, Overtaken
  <2>8. input.read = r + 1 => SnapshotNext'
    <3>1. SUFFICES ASSUME input.read = r + 1 PROVE SnapshotNext'
      OBVIOUS
    <3>2. input'.read = input.read /\ input'.write = input.write /\ main' = main
      BY <1>2, <3>1
    <3> QED BY <1>2, <2>7, <3>1, <3>2 DEF SnapshotNext, At
  <2>9. child'.model.status = Active /\ (\E b \in Nat : Barrier(b)') => SnapshotNext'
    <3>1. SUFFICES ASSUME child'.model.status = Active, NEW b \in Nat, Barrier(b)' PROVE SnapshotNext'
      OBVIOUS
    <3>2. CASE input.read = r + 1
      BY <2>8, <3>2
    <3>3. CASE r = input.read /\ p.kind = "resume"
      BY <1>10, <1>11, <2>3, <3>1, <3>3
    <3>4. CASE r = input.read /\ p.kind # "resume"
      BY <1>8, <2>2, <2>6, <3>1, <3>4
    <3> QED BY <1>3, <3>2, <3>3, <3>4
  \* The host may have one new answer.
  <2>10. \A n \in Issued' : n \in sent \/ /\ n = L + 1 /\ p.kind = "batch" /\ child.model.status = Active
                                          /\ p.seq = L + 1 /\ child'.model.last_seq = L + 1
    <3>1. SUFFICES ASSUME NEW n \in Issued', n \notin sent
                   PROVE  /\ n = L + 1 /\ p.kind = "batch" /\ child.model.status = Active
                          /\ p.seq = L + 1 /\ child'.model.last_seq = L + 1
      OBVIOUS
    <3>2. \E k \in 1 .. Len(child'.replies) : child'.replies[k].kind = "intent" /\ child'.replies[k].seq = n
      BY <1>2, <3>1 DEF Issued
    <3> QED BY <2>2, <3>2
  <2>11. child.model.status = Active => \A n \in sent : n <= L
    BY <1>4, <1>13 DEF Answers
  <2>12. \A n \in Issued' : n <= seq
    BY <1>4, <1>13, <2>4, <2>10 DEF Answers
  <2>13. child'.model.status = Active => \A n \in Issued' : n <= child'.model.last_seq
    <3>1. SUFFICES ASSUME child'.model.status = Active, NEW n \in Issued'
                   PROVE  n <= child'.model.last_seq
      OBVIOUS
    <3>2. CASE n \notin sent
      BY <1>1, <2>10, <3>1, <3>2
    <3>3. CASE n \in sent
      <4>1. n \in Nat
        BY <1>1, <3>3
      <4>2. CASE p.kind = "resume"
        BY <2>2, <2>5, <3>1, <3>3, <4>2
      <4>3. CASE p.kind # "resume"
        BY <1>1, <2>2, <2>11, <3>1, <3>3, <4>1, <4>3
      <4> QED BY <4>2, <4>3
    <3> QED BY <3>2, <3>3
  <2>14. \A b \in Nat : Barrier(b)' => \A n \in Issued' : n <= b
    <3>1. SUFFICES ASSUME NEW b \in Nat, Barrier(b)', NEW n \in Issued'
                   PROVE  n <= b
      OBVIOUS
    <3>2. Barrier(b)
      BY <1>8, <3>1
    <3>3. CASE n \in sent
      BY <1>4, <1>13, <3>2, <3>3 DEF Answers
    <3>4. CASE n \notin sent
      <4>1. /\ n = L + 1 /\ p.kind = "batch" /\ child.model.status = Active /\ p.seq = n
        BY <2>10, <3>1, <3>4
      <4>2. input.read = r + 1
        BY <1>3, <2>6, <3>2, <4>1
      <4>3. L < b \/ b = MaxSeq
        BY <2>7, <3>2, <4>2
      <4>4. CASE L < b
        BY <1>1, <4>1, <4>4
      <4>5. CASE b = MaxSeq
        BY <1>1, <2>3, <2>4, <4>1, <4>5
      <4> QED BY <4>3, <4>4, <4>5
    <3> QED BY <3>3, <3>4
  <2>15. \A k \in 1 .. Len(child'.replies) : child'.replies[k].kind = "intent"
            => k = Len(child'.replies) /\ child'.replies[k].seq \notin sent'
    <3>1. child.model.status = Active => L + 1 \notin sent
      BY <1>1, <2>11
    <3> QED BY <1>2, <2>2, <3>1
  <2>16. child'.pc = "reply"
    BY <1>2, <1>15
  <2>17. Answers'
    BY <1>2, <1>4, <2>12, <2>13, <2>14, <2>15, <2>16 DEF Answers
  <2> QED BY <1>9, <1>12, <2>9, <2>17 DEF Ordered
<1> QED BY <1>14, <1>15

\* The order after every step.
LEMMA OrderSteps ==
    ASSUME TypeOK, Ring, Queue, Counted, Limits, Order,
           \/ Rests \/ Reads \/ Says
           \/ \E p, old : Takes(p, old)
           \/ Produce \/ drain \/ Feed \/ Flush
           \/ (OutputMoves /\ MovesOn) \/ Over
    PROVE  Order'
<1>1. SUFFICES ASSUME ~race'.behind, ~race'.mixed PROVE Ordered'
  BY DEF Order
<1>2. race.mixed \in BOOLEAN /\ race.behind \in BOOLEAN
  BY Fields
<1>3. CASE \E p, old : Takes(p, old)
  <2>1. PICK p, old : Takes(p, old)
    BY <1>3
  <2>2. ~race.behind /\ ~race.mixed
    BY <1>1, <1>2, <2>1 DEF Takes
  <2>3. Ordered
    BY <2>2 DEF Order
  <2> QED BY <1>1, <2>1, <2>3, OrderedTakes
<1>4. CASE Rests \/ Reads \/ Says
  <2>1. Ordered
    BY <1>1, <1>4 DEF Order, Rests, Reads, Says
  <2> QED BY <1>4, <2>1, OrderedRests, OrderedSays
<1>5. CASE Produce \/ drain \/ Feed \/ Flush \/ MovesOn \/ Over
  <2>1. drain => Still
    BY DrainSteps DEF MovesOn, TakesCheckpoint, Recovers
  <2>2. (Produce \/ Feed \/ Flush \/ MovesOn \/ Over) => Still
    BY ProduceSteps, FeedSteps, FlushSteps DEF MovesOn, Over
  <2>3. Ordered
    BY <1>1, <1>5, <2>1, <2>2 DEF Order, Still
  <2> QED BY <1>5, <2>3, OrderedProducer
<1> QED BY <1>3, <1>4, <1>5

-----------------------------------------------------------------------------
(* The invariant.                                                          *)

LEMMA InitBInv == Init /\ mode = "benchmark" => BInv
<1> SUFFICES ASSUME Init, mode = "benchmark" PROVE BInv
  OBVIOUS
<1>1. /\ seq = 0 /\ output = <<>> /\ cursor = 0 /\ late = 0 /\ status = 5 /\ sent = {} /\ twice = {}
      /\ race = [mixed |-> FALSE, behind |-> FALSE]
      /\ main = [pc |-> "idle", pending |-> <<>>, recovering |-> FALSE, barrier |-> 0,
                 checkpoint |-> [seq |-> 0, count |-> 0], dropped |-> {}, resyncs |-> 0, ids |-> {}]
      /\ input = [read |-> 0, write |-> 0, slot |-> [i \in 0 .. Capacity - 1 |-> Empty]]
      /\ child = [pc |-> "start", model |-> InitModel, last |-> 0, read |-> 0, held |-> Empty,
                  replies |-> <<>>]
  BY DEF Init
<1>2. Capacity \in Nat /\ Capacity > 0 /\ MaxSeq \in Nat
  BY PrototypeAssumption
<1>3. Empty \in Payload /\ Empty.seq = 0 /\ Empty.kind = "empty" /\ InitModel \in Model
      /\ InitModel.last_seq = 0 /\ InitModel.count = 0
  BY DEF Empty, Payload, InitModel, Model
<1>4. /\ main.pc = "idle" /\ main.pending = <<>> /\ main.recovering = FALSE /\ main.barrier = 0
      /\ main.checkpoint.seq = 0 /\ main.checkpoint.count = 0
      /\ input.read = 0 /\ input.write = 0 /\ input.slot = [i \in 0 .. Capacity - 1 |-> Empty]
      /\ child.pc = "start" /\ child.model = InitModel /\ child.held = Empty /\ child.replies = <<>>
      /\ race.mixed = FALSE /\ race.behind = FALSE
  BY <1>1
<1>5. TypeOK
  <2>1. <<>> \in Seq(Payload) /\ <<>> \in Seq(Message)
    OBVIOUS
  <2>2. main \in Producers
    BY <1>1, <2>1 DEF Producers
  <2>3. input \in Rings
    BY <1>1, <1>2, <1>3 DEF Rings
  <2>4. child \in Hosts
    BY <1>1, <1>3, <2>1 DEF Hosts
  <2>5. race \in Races
    BY <1>1 DEF Races
  <2> QED BY <1>1, <2>1, <2>2, <2>3, <2>4, <2>5 DEF TypeOK
<1>6. Ring /\ Queue
  BY <1>1, <1>2, <1>4 DEF Ring, Queue
<1>7. Sizes
  <2>1. \A i \in 0 .. Capacity - 1 : input.slot[i] = Empty
    BY <1>4
  <2>2. 1 .. Len(main.pending) = {} /\ 1 .. Len(output) = {} /\ 1 .. Len(child.replies) = {}
    BY <1>1, <1>4
  <2>3. Counted
    BY <1>3, <1>4, <2>1, <2>2 DEF Counted, Whole
  <2>4. Limits
    BY <1>1, <1>3, <1>4, <2>1, <2>2 DEF Limits, Within
  <2> QED BY <2>2, <2>3, <2>4 DEF Sizes, NoReplyCounts
<1>8. Covered
  <2>1. Ahead = {}
    BY <1>4 DEF Ahead
  <2>2. child.model.last_seq + 1 .. seq = {} /\ 1 .. Len(main.pending) = {}
    BY <1>1, <1>3, <1>4
  <2>3. ComesAfter(child.model.last_seq, input.read)
    BY <2>2 DEF ComesAfter
  <2>4. ~Overtaken /\ ~(input.write - input.read > Capacity)
    BY <1>2, <1>4 DEF Overtaken
  <2> QED BY <2>1, <2>2, <2>3, <2>4 DEF Covered, Coverage
<1>9. Order
  <2>1. \A i : ~Resumes(i) /\ ~Queued(i)
    BY <1>4 DEF Resumes, Queued
  <2>2. \A b : ~Barrier(b)
    BY <2>1 DEF Barrier
  <2>3. \A n : n \notin Issued
    <3>1. 1 .. Len(child.replies) = {}
      BY <1>4
    <3> QED BY <1>1, <3>1, IssuedIs
  <2>4. Answers
    <3>1. 1 .. Len(child.replies) = {}
      BY <1>4
    <3> QED BY <1>1, <1>4, <2>2, <2>3, <3>1 DEF Answers
  <2> QED BY <1>2, <1>4, <2>1, <2>2, <2>4 DEF Order, Ordered, OneBarrier, Overtaken
<1> QED BY <1>5, <1>6, <1>7, <1>8, <1>9 DEF BInv

\* The invariant of the benchmark is inductive.
LEMMA NextBInv == BInv /\ Next => BInv'
<1> SUFFICES ASSUME BInv, Next PROVE BInv'
  OBVIOUS
<1>1. /\ mode = "benchmark" /\ TypeOK /\ Ring /\ Queue /\ Counted /\ Limits /\ NoReplyCounts /\ Covered /\ Order
      /\ main.checkpoint.seq <= seq /\ (~main.recovering => main.pending = <<>>)
  BY DEF BInv, Sizes, Limits, Within, Queue
<1> DEFINE Step == \/ Rests \/ Reads \/ Says
                   \/ \E p, old : Takes(p, old)
                   \/ Produce \/ drain \/ Feed \/ Flush
                   \/ (OutputMoves /\ MovesOn) \/ Over
<1>2. TypeOK' /\ mode' = "benchmark" /\ Step
  BY <1>1, Steps
<1>3. Ring' /\ Queue' /\ Counted' /\ Limits'
  BY <1>1, <1>2, RingSteps, QueueSteps, CountedSteps, LimitsSteps
<1>4. NoReplyCounts'
  <2>1. drain => Still
    BY <1>1, DrainSteps DEF MovesOn, TakesCheckpoint, Recovers
  <2>2. (Produce \/ Feed \/ Flush \/ MovesOn \/ Over) => Still
    BY <1>1, ProduceSteps, FeedSteps, FlushSteps DEF MovesOn, Over
  <2> QED BY <1>1, <1>2, <2>1, <2>2, NoReplyCountsSteps
<1>5. Covered'
  BY <1>1, <1>2, CoveredSteps
<1>6. Order'
  BY <1>1, <1>2, OrderSteps
<1> QED BY <1>2, <1>3, <1>4, <1>5, <1>6 DEF BInv, Sizes

\* And is kept by a stutter.
LEMMA StutterBInv == BInv /\ UNCHANGED vars => BInv'
<1> SUFFICES ASSUME BInv, UNCHANGED vars PROVE BInv'
  OBVIOUS
<1>1. UNCHANGED <<mode, seq, main, input, output, child, status, cursor, late, sent, twice, race>>
  BY DEF vars, past
<1>2. TypeOK' /\ Ring' /\ Queue'
  BY <1>1 DEF BInv, TypeOK, Ring, Queue, At
<1>3. Sizes'
  BY <1>1 DEF BInv, Sizes, Counted, Limits, Within, NoReplyCounts, Whole
<1>4. Covered'
  BY <1>1 DEF BInv, Covered, Coverage, Overtaken, ComesAfter, Comes, SnapshotFrom, Unfed, Ahead, At, Batch
<1>5. Order'
  BY <1>1 DEF BInv, Order, Ordered, OneBarrier, Answers, Barrier, SnapshotNext, Resumes, Queued, Overtaken,
         Issued, At
<1> QED BY <1>1, <1>2, <1>3, <1>4, <1>5 DEF BInv

\* The inductive invariant holds in every state of the specification: the four
\* results below are read off it.
THEOREM Invariance == Spec => []IInv
<1>1. Init => IInv
  <2>1. Init => mode \in {"benchmark", "demo"} /\ twice = {}
    BY DEF Init
  <2> QED BY <2>1, InitBInv DEF IInv
<1>2. IInv /\ [Next]_vars => IInv'
  <2>1. CASE BInv /\ [Next]_vars
    BY <2>1, NextBInv, StutterBInv DEF IInv
  <2>2. CASE mode = "demo" /\ twice = {} /\ [Next]_vars
    <3>1. mode' = mode /\ twice' = twice
      <4>1. CASE UNCHANGED vars
        BY <4>1 DEF vars, past
      <4>2. CASE DemoNext \/ DemoGap \/ DemoRecover
        BY <4>2 DEF DemoNext, DemoGap, DemoRecover, Demo, past
      <4> QED BY <2>2, <4>1, <4>2 DEF Next
    <3> QED BY <2>2, <3>1 DEF IInv
  <2> QED BY <2>1, <2>2 DEF IInv
<1> QED BY <1>1, <1>2, PTL DEF Spec

\* In every state of the benchmark the variables have their types.
THEOREM AlwaysTyped == Spec => [](mode = "benchmark" => TypeOK)
<1>1. IInv => (mode = "benchmark" => TypeOK)
  BY DEF IInv, BInv
<1> QED BY <1>1, Invariance, PTL

\* The private state of the strategy is a function of the batches up to its
\* cursor, and so is the checkpoint a recovery starts from (main.py, get and
\* drain), unless a mixed snapshot was copied; and the checkpoint is in the
\* history.
THEOREM CountsAreTrue == Spec => [](mode = "benchmark" => CountsTrue)
<1>1. IInv => (mode = "benchmark" => CountsTrue)
  BY DEF IInv, BInv, Sizes, Counted, Limits, Within, CountsTrue
<1> QED BY <1>1, Invariance, PTL

\* No identity is issued twice (drain raises when one is), unless the reader
\* has stored its counter behind the clearing or has taken a mixed snapshot.
THEOREM AnsweredOnce == Spec => []NeverTwice
<1>1. IInv => NeverTwice
  BY DEF IInv, BInv, Order, Ordered, Answers, NeverTwice
<1> QED BY <1>1, Invariance, PTL

\* An active host that is idle, with nothing on the way to it, misses only
\* batches that were dropped at a full ring (main.py, run_benchmark).
THEOREM LossesAreNoticed == Spec => []NothingLostQuietly
<1>1. IInv => NothingLostQuietly
  <2> SUFFICES ASSUME IInv, mode = "benchmark", child.pc = "poll", main.pc = "idle", ~main.recovering,
                      main.pending = <<>>, input.read = input.write, child.model.status = Active
               PROVE  (child.model.last_seq + 1) .. seq \subseteq main.dropped
    BY DEF NothingLostQuietly
  <2>1. TypeOK /\ Coverage
    BY DEF IInv, BInv, Covered
  <2>2. Active # NeedsSnapshot /\ input.read \in Nat
    BY <2>1, Fields DEF Active, NeedsSnapshot
  <2>3. Ahead = {} /\ 1 .. Len(main.pending) = {}
    BY <2>2 DEF Ahead
  <2>4. ~SnapshotFrom(input.read)
    BY <2>3 DEF SnapshotFrom
  <2>5. ComesAfter(child.model.last_seq, input.read)
    BY <2>1, <2>2, <2>4 DEF Coverage
  <2>6. \A n : Comes(n, input.read) => n \in main.dropped
    BY <2>3 DEF Comes, Unfed
  <2> QED BY <2>5, <2>6 DEF ComesAfter
<1> QED BY <1>1, Invariance, PTL
=============================================================================
